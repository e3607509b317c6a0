------------------------------- MODULE SignIn -------------------------------
(***************************************************************************)
(* One-time codes, accounts and their activation: packages/auth (challenge *)
(* and activate), packages/identity (assessRecovery), PostgresAccountStore *)
(* and the routes /api/auth/start and /api/auth/verify.                    *)
(*                                                                         *)
(* Codes live in the memory of one instance: verifying one is atomic there *)
(* and a restart forgets it. Accounts live in the database, where each     *)
(* transaction of a sign-in commits for itself.                            *)
(***************************************************************************)
EXTENDS Naturals, Sequences, SequencesExt

CONSTANTS Contacts, Codes, Accounts, Submissions,
          FactorLists,    \* the enrolments a submission may state
          MaxAttempts,    \* MAX_ATTEMPTS
          CodeTtl, LastHour,
          NoAccount, NoCode, Forgotten, Unset

Challenge == [contact : Contacts, expiresAt : Nat, attempts : 0 .. MaxAttempts,
              consumedAt : Nat \cup {Unset}]

ASSUME SignInAssumption ==
    /\ MaxAttempts \in Nat \ {0} /\ CodeTtl \in Nat \ {0} /\ LastHour \in Nat
    /\ NoAccount \notin Accounts \cup Contacts /\ Unset \notin Nat
    /\ NoCode \notin Codes /\ Forgotten # NoCode
    /\ NoCode \notin Challenge /\ Forgotten \notin Challenge

VARIABLES challenges,  \* what the instance remembers of each code it sent
          accounts,    \* the table: status, when recovery became adequate
          contactOf,   \* account_contacts: UNIQUE (channel, value)
          hour,
          submission,  \* the calls of /api/auth/verify
          signedIn,    \* sessions put: <<submission, account>>
          barred       \* accounts that were ever suspended or closed (history)

signVars == <<challenges, accounts, contactOf, hour, submission, signedIn, barred>>

Statuses == {"pending_recovery", "active", "suspended", "closed"}
Factors == {"passkey", "authenticator_app", "email_code", "sms_code",
            "whatsapp_code", "recovery_codes"}
Offline == {"recovery_codes", "passkey", "authenticator_app"}

NoRow == [status |-> "none", recoveryReadyAt |-> Unset]

IdleSubmission == [pc |-> "idle", code |-> NoCode, contact |-> NoAccount, factors |-> <<>>,
                   now |-> 0, account |-> NoAccount, read |-> "none",
                   answer |-> "pending"]

SignTypeOK ==
    /\ challenges \in [Codes -> Challenge \cup {NoCode, Forgotten}]
    /\ accounts \in [Accounts -> [status : Statuses \cup {"none"},
                                  recoveryReadyAt : Nat \cup {Unset}]]
    /\ contactOf \in [Contacts -> Accounts \cup {NoAccount}]
    /\ signedIn \subseteq Submissions \X Accounts
    /\ barred \subseteq Accounts

SignInit ==
    /\ challenges = [k \in Codes |-> NoCode]
    /\ accounts = [a \in Accounts |-> NoRow]
    /\ contactOf = [x \in Contacts |-> NoAccount]
    /\ hour = 0
    /\ submission = [s \in Submissions |-> IdleSubmission]
    /\ signedIn = {}
    /\ barred = {}

-----------------------------------------------------------------------------
(* The rules.                                                              *)

\* assessRecovery, of the enrolled factors in order: [factor, boundTo], with
\* boundTo = Unset where the factor depends on no contact.
RecoveryProblems(factors) ==
    LET enrolled == Range(factors) IN
    {p \in {"SINGLE_FACTOR", "RECOVERY_DEPENDS_ON_ONE_NUMBER", "NO_OFFLINE_RECOVERY"} :
        \/ p = "SINGLE_FACTOR" /\ Len(factors) < 2
        \/ /\ p = "RECOVERY_DEPENDS_ON_ONE_NUMBER"
           /\ enrolled # {}
           /\ \A f \in enrolled : f.boundTo # Unset
           /\ \A f, g \in enrolled : f.boundTo = g.boundTo
        \/ p = "NO_OFFLINE_RECOVERY" /\ \A f \in enrolled : f.factor \notin Offline}

RecoveryAdequate(factors) == RecoveryProblems(factors) = {}

\* Mutant of ActivationFailure: a closed account is not told apart.
ActivationOfAny(status, factors) ==
    IF ~RecoveryAdequate(factors) THEN "RECOVERY_INADEQUATE" ELSE "none"

\* activate, for a contact that has been verified: a closed account and an
\* inadequate recovery are refused, every other status becomes active.
ActivationFailure(status, factors) ==
    IF status = "closed" THEN "ACCOUNT_CLOSED"
    ELSE IF ~RecoveryAdequate(factors) THEN "RECOVERY_INADEQUATE"
    ELSE "none"

\* verifyChallenge: the first reason to refuse, or none.
ChallengeRejection(challenge, right, now) ==
    IF challenge \in {NoCode, Forgotten} THEN "UNKNOWN"
    ELSE IF challenge.consumedAt # Unset THEN "ALREADY_USED"
    ELSE IF challenge.expiresAt <= now THEN "EXPIRED"
    ELSE IF challenge.attempts >= MaxAttempts THEN "TOO_MANY_ATTEMPTS"
    ELSE IF ~right THEN "INCORRECT"
    ELSE "none"

-----------------------------------------------------------------------------
(* The handlers.                                                           *)

\* POST /api/auth/start, where a code can be delivered or shown.
IssueChallenge(k, contact) ==
    /\ challenges[k] = NoCode
    /\ challenges' = [challenges EXCEPT ![k] =
          [contact |-> contact, expiresAt |-> hour + CodeTtl,
           attempts |-> 0, consumedAt |-> Unset]]
    /\ UNCHANGED <<accounts, contactOf, hour, submission, signedIn, barred>>

\* Mutant of SubmitCode: the code is judged and left as it was.
SubmitReusable(s, k, right, factors) ==
    /\ submission[s].pc = "idle"
    /\ LET rejection == ChallengeRejection(challenges[k], right, hour) IN
       submission' = [submission EXCEPT ![s] =
            [IdleSubmission EXCEPT !.code = k, !.factors = factors,
               !.contact = IF rejection = "none" THEN challenges[k].contact ELSE @,
               !.now = hour,
               !.pc = IF rejection = "none" THEN "resolve" ELSE "done",
               !.answer = IF rejection = "none" THEN "pending" ELSE "refused"]]
    /\ UNCHANGED <<challenges, accounts, contactOf, hour, signedIn, barred>>

\* POST /api/auth/verify up to its first await: the code is judged and what
\* became of it is stored, whether or not it was right.
SubmitCode(s, k, right, factors) ==
    /\ submission[s].pc = "idle"
    /\ LET rejection == ChallengeRejection(challenges[k], right, hour) IN
       /\ challenges' =
            CASE rejection = "none" ->
                   [challenges EXCEPT ![k].consumedAt = hour]
              [] rejection = "INCORRECT" ->
                   [challenges EXCEPT ![k].attempts = @ + 1]
              [] OTHER -> challenges
       /\ submission' = [submission EXCEPT ![s] =
            [IdleSubmission EXCEPT !.code = k, !.factors = factors,
               !.contact = IF rejection = "none" THEN challenges[k].contact ELSE @,
               !.now = hour,
               !.pc = IF rejection = "none" THEN "resolve" ELSE "done",
               !.answer = IF rejection = "none" THEN "pending" ELSE "refused"]]
    /\ UNCHANGED <<accounts, contactOf, hour, signedIn, barred>>

Go(s, pc, answer) == [submission EXCEPT ![s].pc = pc, ![s].answer = answer]

\* resolveAccount, one transaction: the account of the contact, ...
FindAccount(s) ==
    /\ submission[s].pc = "resolve"
    /\ LET a == contactOf[submission[s].contact] IN
       submission' = IF a # NoAccount
         THEN [submission EXCEPT ![s].account = a, ![s].read = accounts[a].status,
                                 ![s].pc = "activate"]
         ELSE [submission EXCEPT ![s].pc = "create"]
    /\ UNCHANGED <<challenges, accounts, contactOf, hour, signedIn, barred>>

\* ... or a new one with its first contact, both rows or neither: a contact
\* that another sign-in attached meanwhile fails the whole transaction.
CreateAccount(s) ==
    /\ submission[s].pc = "create"
    /\ \E a \in Accounts :
         /\ accounts[a] = NoRow
         /\ IF contactOf[submission[s].contact] = NoAccount
            THEN /\ accounts' = [accounts EXCEPT ![a].status = "pending_recovery"]
                 /\ contactOf' = [contactOf EXCEPT ![submission[s].contact] = a]
                 /\ submission' = [submission EXCEPT ![s].account = a,
                       ![s].read = "pending_recovery", ![s].pc = "activate"]
            ELSE /\ submission' = Go(s, "done", "unavailable")
                 /\ UNCHANGED <<accounts, contactOf>>
    /\ UNCHANGED <<challenges, hour, signedIn, barred>>

\* activate, on the status that was read.
Activate(s) ==
    /\ submission[s].pc = "activate"
    /\ submission' =
         IF ActivationFailure(submission[s].read, submission[s].factors) = "none"
         THEN [submission EXCEPT ![s].pc = "mark"]
         ELSE Go(s, "done", "recovery_required")
    /\ UNCHANGED <<challenges, accounts, contactOf, hour, signedIn, barred>>

\* markActive: an update without a condition on the status; its failure is
\* swallowed and the sign-in goes on.
MarkActive(s) ==
    /\ submission[s].pc = "mark"
    /\ \/ accounts' = [accounts EXCEPT ![submission[s].account] =
              [status |-> "active", recoveryReadyAt |-> submission[s].now]]
       \/ UNCHANGED accounts
    /\ submission' = [submission EXCEPT ![s].pc = "session"]
    /\ UNCHANGED <<challenges, contactOf, hour, signedIn, barred>>

PutSession(s) ==
    /\ submission[s].pc = "session"
    /\ signedIn' = signedIn \cup {<<s, submission[s].account>>}
    /\ submission' = Go(s, "done", "signed_in")
    /\ UNCHANGED <<challenges, accounts, contactOf, hour, barred>>

\* The database fails a transaction, or the put of the session.
Unavailable(s) ==
    /\ submission[s].pc \in {"resolve", "create", "session"}
    /\ submission' = Go(s, "done", "unavailable")
    /\ UNCHANGED <<challenges, accounts, contactOf, hour, signedIn, barred>>

\* An operator changes the status of an account; nothing in the code does.
Bar(a, status) ==
    /\ accounts[a] # NoRow /\ accounts[a].status \notin {"suspended", "closed"}
    /\ accounts' = [accounts EXCEPT ![a].status = status]
    /\ barred' = barred \cup {a}
    /\ UNCHANGED <<challenges, contactOf, hour, submission, signedIn>>

\* The instance restarts: its codes and its calls are gone.
Restart ==
    /\ \E k \in Codes : challenges[k] \notin {NoCode, Forgotten}
    /\ challenges' = [k \in Codes |-> IF challenges[k] = NoCode THEN NoCode ELSE Forgotten]
    /\ submission' = [s \in Submissions |->
          IF submission[s].pc \in {"idle", "done"} THEN submission[s]
          ELSE [submission[s] EXCEPT !.pc = "done", !.answer = "lost"]]
    /\ UNCHANGED <<accounts, contactOf, hour, signedIn, barred>>

PassHour ==
    /\ hour < LastHour
    /\ hour' = hour + 1
    /\ UNCHANGED <<challenges, accounts, contactOf, submission, signedIn, barred>>

SignTerminated ==
    /\ \A s \in Submissions : submission[s].pc = "done"
    /\ UNCHANGED signVars

SignNext ==
    \/ \E k \in Codes, x \in Contacts : IssueChallenge(k, x)
    \/ \E s \in Submissions :
         \/ \E k \in Codes, right \in BOOLEAN, fs \in FactorLists : SubmitCode(s, k, right, fs)
         \/ FindAccount(s) \/ CreateAccount(s) \/ Activate(s)
         \/ MarkActive(s) \/ PutSession(s) \/ Unavailable(s)
    \/ \E a \in Accounts, status \in {"suspended", "closed"} : Bar(a, status)
    \/ Restart
    \/ PassHour
    \/ SignTerminated

SignSpec == SignInit /\ [][SignNext]_signVars

-----------------------------------------------------------------------------
(* Properties.                                                             *)

\* A session exists only for somebody who presented the right code of a
\* contact and has a way back into its account; and one code admits once,
\* however its submissions interleave with failures after it.
Admitted == {s \in Submissions : submission[s].contact # NoAccount}

CodeAdmitsOnce ==
    /\ \A s, t \in Admitted : submission[s].code = submission[t].code => s = t
    /\ \A w \in signedIn :
          /\ w[1] \in Admitted
          /\ contactOf[submission[w[1]].contact] = w[2]
          /\ RecoveryAdequate(submission[w[1]].factors)

\* No contact is attached to two accounts, and no account is left without the
\* contact it is reached by, whichever of two first sign-ins committed first.
AccountsAreReachable ==
    /\ \A x, y \in Contacts : contactOf[x] = contactOf[y] /\ contactOf[x] # NoAccount => x = y
    /\ \A a \in Accounts : accounts[a] # NoRow => \E x \in Contacts : contactOf[x] = a

\* An account that was closed is open again only because a sign-in had read it
\* before it was closed (markActive has no condition on the status); one that
\* was suspended, because its owner signed in again.
Reopened == {a \in barred : accounts[a].status = "active"}

ReopenedOnlyBySignIn ==
    \A a \in Reopened : \E s \in Submissions :
        /\ submission[s].account = a
        /\ submission[s].read # "closed"
        /\ submission[s].answer # "recovery_required"

\* One code admits one person, once, to the one account of its contact, and a
\* barred account is open again only to somebody who signs in
\* (app/api/auth/verify/route.ts, PostgresAccountStore.markActive).
EntryIsEarned == CodeAdmitsOnce /\ AccountsAreReachable /\ ReopenedOnlyBySignIn
=============================================================================
