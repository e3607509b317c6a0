------------------------------ MODULE Sessions ------------------------------
(***************************************************************************)
(* Sessions and their tokens: packages/auth (checkSession, rotateSession,  *)
(* verifySessionToken) over the sessions table of PostgresSessionStore.    *)
(*                                                                         *)
(* A call reads the row its token names, decides on what it read, and      *)
(* writes later: every statement is an action, so that another call may    *)
(* fall between. A token stands for its own digest (SHA-256 is injective), *)
(* and a generated token is one that was never issued before.              *)
(***************************************************************************)
EXTENDS Naturals

CONSTANTS SessionIds, Tokens, Calls,
          SessionTtl,     \* SESSION_TTL_MS, in ticks
          LastTick,       \* bound of the clock
          NoToken, NoSession, Never

Times == 0 .. LastTick + SessionTtl

Session == [tokenHash : Tokens, previousHash : Tokens \cup {NoToken},
            expiresAt : Times, revokedAt : Times \cup {Never}]

ASSUME SessionsAssumption ==
    /\ SessionTtl \in Nat \ {0}
    /\ LastTick \in Nat
    /\ NoToken \notin Tokens
    /\ NoSession \notin SessionIds /\ NoSession \notin Session
    /\ Never \notin Nat

VARIABLES sessions,   \* the table: id -> row, or NoSession
          issued,     \* tokens that were generated
          clock,
          call,       \* what each call has read and answered
          revoked     \* ids that a revocation was written to (history)

sessVars == <<sessions, issued, clock, call, revoked>>

Operations == {"sign_in", "verify", "rotate", "revoke"}
Verdicts == {"pending", "ok", "absent", "unauthenticated", "expired", "replayed"}

IdleCall == [pc |-> "idle", op |-> "verify", token |-> NoToken, now |-> 0,
             id |-> NoSession, read |-> NoSession, verdict |-> "pending",
             given |-> NoToken]

Call == [pc : {"idle", "find", "decide", "end", "put", "done"},
         op : Operations, token : Tokens \cup {NoToken}, now : 0 .. LastTick,
         id : SessionIds \cup {NoSession}, read : Session \cup {NoSession},
         verdict : Verdicts, given : Tokens \cup {NoToken}]

SessTypeOK ==
    /\ sessions \in [SessionIds -> Session \cup {NoSession}]
    /\ issued \subseteq Tokens
    /\ clock \in 0 .. LastTick
    /\ call \in [Calls -> Call]
    /\ revoked \subseteq SessionIds

SessInit ==
    /\ sessions = [s \in SessionIds |-> NoSession]
    /\ issued = {}
    /\ clock = 0
    /\ call = [c \in Calls |-> IdleCall]
    /\ revoked = {}

-----------------------------------------------------------------------------
(* The rules of packages/auth, on the row that was read.                   *)

\* checkSession: the order of its refusals is the code's.
CheckSession(session, token, now) ==
    IF session = NoSession THEN "UNKNOWN"
    ELSE IF session.revokedAt # Never THEN "REVOKED"
    ELSE IF session.expiresAt <= now THEN "EXPIRED"
    ELSE IF token = session.tokenHash THEN "VALID"
    ELSE IF token = session.previousHash THEN "REPLAYED"
    ELSE "UNKNOWN"

\* verifySessionToken: what the caller is told of a check.
VerdictOf(check) ==
    CASE check = "VALID"    -> "ok"
      [] check = "REPLAYED" -> "replayed"
      [] check = "EXPIRED"  -> "expired"
      [] OTHER              -> "unauthenticated"

\* Mutant of RotateSession: the token before is not moved along.
RotateForgetting(session, token, now) ==
    [session EXCEPT !.tokenHash = token, !.expiresAt = now + SessionTtl]

RotateSession(session, token, now) ==
    [session EXCEPT !.tokenHash = token,
                    !.previousHash = session.tokenHash,
                    !.expiresAt = now + SessionTtl]

Matches(s, token) ==
    /\ sessions[s] # NoSession
    /\ token \in {sessions[s].tokenHash, sessions[s].previousHash}

-----------------------------------------------------------------------------
(* The handlers, statement by statement.                                   *)

\* A request captures its own time when it begins, and keeps it.
Begin(c, op, token, id) ==
    /\ call[c].pc = "idle"
    /\ call' = [call EXCEPT
          ![c].op = op, ![c].token = token, ![c].now = clock, ![c].id = id,
          ![c].pc = CASE op = "sign_in" -> "put"
                      [] op = "revoke"  -> "end"
                      [] OTHER          -> "find"]
    /\ UNCHANGED <<sessions, issued, clock, revoked>>

\* No cookie: verifySessionToken refuses before it asks the store.
NoCookie(c) ==
    /\ call[c].pc = "find" /\ call[c].token = NoToken
    /\ call' = [call EXCEPT ![c].pc = "done", ![c].verdict = "absent"]
    /\ UNCHANGED <<sessions, issued, clock, revoked>>

\* findByTokenHash: any one row that matches (LIMIT 1), or none; a failure of
\* the store is caught and reads as none.
Find(c) ==
    /\ call[c].pc = "find" /\ call[c].token # NoToken
    /\ \/ \E s \in SessionIds :
            /\ Matches(s, call[c].token)
            /\ call' = [call EXCEPT ![c].pc = "decide", ![c].id = s, ![c].read = sessions[s]]
       \/ /\ \A s \in SessionIds : ~Matches(s, call[c].token)
          /\ call' = [call EXCEPT ![c].pc = "decide"]
       \/ call' = [call EXCEPT ![c].pc = "decide"]
    /\ UNCHANGED <<sessions, issued, clock, revoked>>

\* The verdict is formed on the row that was read, at the time the request
\* began. A replay goes on to end the session, a rotation to replace its token.
Decide(c) ==
    /\ call[c].pc = "decide"
    /\ LET check == CheckSession(call[c].read, call[c].token, call[c].now)
       IN call' = [call EXCEPT
             ![c].verdict = VerdictOf(check),
             ![c].pc = CASE check = "REPLAYED" -> "end"
                         [] check = "VALID" /\ call[c].op = "rotate" -> "put"
                         [] OTHER -> "done"]
    /\ UNCHANGED <<sessions, issued, clock, revoked>>

\* put: an upsert of the whole row, revoked_at included. Signing in inserts a
\* row of its own; a rotation writes what it read, with a new token.
Put(c) ==
    /\ call[c].pc = "put"
    /\ \E token \in Tokens \ issued :
         /\ issued' = issued \cup {token}
         /\ \/ /\ call[c].op = "sign_in"
               /\ sessions' = [sessions EXCEPT ![call[c].id] =
                     [tokenHash |-> token, previousHash |-> NoToken,
                      expiresAt |-> call[c].now + SessionTtl, revokedAt |-> Never]]
            \/ /\ call[c].op = "rotate"
               /\ sessions' = [sessions EXCEPT ![call[c].id] =
                     RotateSession(call[c].read, token, call[c].now)]
         /\ call' = [call EXCEPT ![c].pc = "done", ![c].given = token]
    /\ UNCHANGED <<clock, revoked>>

\* revoke: only a session that is not revoked already is changed.
End(c) ==
    /\ call[c].pc = "end"
    /\ LET s == call[c].id IN
         IF sessions[s] # NoSession /\ sessions[s].revokedAt = Never
         THEN /\ sessions' = [sessions EXCEPT ![s].revokedAt = call[c].now]
              /\ revoked' = revoked \cup {s}
         ELSE UNCHANGED <<sessions, revoked>>
    /\ call' = [call EXCEPT ![c].pc = "done"]
    /\ UNCHANGED <<issued, clock>>

\* revokeAllExcept, of the one account all these sessions belong to: one
\* statement that ends every other session that is not ended.
EndOthers(c) ==
    /\ call[c].pc = "end" /\ call[c].op = "revoke"
    /\ LET others == {s \in SessionIds \ {call[c].id} :
                        sessions[s] # NoSession /\ sessions[s].revokedAt = Never}
       IN /\ sessions' = [s \in SessionIds |->
                IF s \in others THEN [sessions[s] EXCEPT !.revokedAt = call[c].now]
                                ELSE sessions[s]]
          /\ revoked' = revoked \cup others
    /\ call' = [call EXCEPT ![c].pc = "done"]
    /\ UNCHANGED <<issued, clock>>

\* A statement fails. The failure of the revocation that follows a replay is
\* caught, and the refusal stands; any other failure reaches the caller.
Fail(c) ==
    /\ call[c].pc \in {"put", "end"}
    /\ call' = [call EXCEPT ![c].pc = "done"]
    /\ UNCHANGED <<sessions, issued, clock, revoked>>

Tick ==
    /\ clock < LastTick
    /\ clock' = clock + 1
    /\ UNCHANGED <<sessions, issued, call, revoked>>

\* Mutant of Fresh: ids come back.
AnyId(s) == \A c \in Calls : call[c].op = "sign_in" => call[c].pc # "idle"

\* A session is signed into once, under an id of its own.
Fresh(s) == /\ sessions[s] = NoSession
            /\ \A c \in Calls : call[c].op = "sign_in" => call[c].id # s

Start(c) ==
    \/ \E s \in SessionIds : Fresh(s) /\ Begin(c, "sign_in", NoToken, s)
    \/ \E op \in {"verify", "rotate"}, t \in issued \cup {NoToken} : Begin(c, op, t, NoSession)
    \/ \E s \in SessionIds : sessions[s] # NoSession /\ Begin(c, "revoke", NoToken, s)

SessTerminated == (\A c \in Calls : call[c].pc = "done") /\ UNCHANGED sessVars

SessNext ==
    \/ \E c \in Calls : \/ Start(c) \/ NoCookie(c) \/ Find(c) \/ Decide(c)
                        \/ Put(c) \/ End(c) \/ EndOthers(c) \/ Fail(c)
    \/ Tick
    \/ SessTerminated

SessSpec == SessInit /\ [][SessNext]_sessVars

-----------------------------------------------------------------------------
(* Properties.                                                             *)

Rotated(c) == call[c].op = "rotate" /\ call[c].given # NoToken

\* A revocation is visible to every instance on its next read, and for good,
\* unless a rotation that had read the session before it was revoked wrote the
\* whole row afterwards (put overwrites revoked_at).
RevocationLostOnlyToRotation ==
    \A s \in revoked :
        \/ sessions[s].revokedAt # Never
        \/ \E c \in Calls : Rotated(c) /\ call[c].id = s /\ call[c].read.revokedAt = Never

\* Nobody is signed out by a rotation of their own: the token a rotation or a
\* sign-in gave away still names its session, as the current token or as the
\* one before it, unless two other calls have rotated that session, or one that
\* read the same row and whose put replaced the token.
Superseding(c) == {d \in Calls \ {c} : Rotated(d) /\ call[d].id = call[c].id}

TokenLostOnlyToRotations ==
    \A c \in Calls :
        LET t == call[c].given IN
        t # NoToken =>
            \/ Matches(call[c].id, t)
            \/ \E d \in Superseding(c) :
                  Rotated(c) /\ call[d].read.tokenHash = call[c].read.tokenHash
            \/ \E d, e \in Superseding(c) : d # e

\* Rotations, which rewrite the whole row, are the only thing that brings back a
\* revoked session or makes a person's newest token worthless.
LostOnlyToRotations == RevocationLostOnlyToRotation /\ TokenLostOnlyToRotations
=============================================================================
