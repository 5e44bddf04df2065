------------------------------ MODULE Sessions ------------------------------
(***************************************************************************)
(* The sessions of one user (packages/db/src/auth-repository.ts, with the  *)
(* service in apps/api/src/auth.ts).  A browser presents a verifier; a     *)
(* refresh replaces it by the next.  Requests may carry any verifier that  *)
(* was issued: several are on their way at a time, and the answer that     *)
(* brings a new one may be late or lost.  Authentication and refresh are   *)
(* transactions that lock the session and the verifier; a revocation is    *)
(* two statements, outside of one.                                         *)
(***************************************************************************)
EXTENDS Integers, FiniteSets

CONSTANTS
  Sessions,       \* each is a family of its own (createSession)
  MaxVerifiers,   \* bound on the verifiers of a session
  Idle, Absolute, \* SESSION_IDLE_MS, SESSION_ABSOLUTE_MS
  MaxTime         \* bound on the clock

ASSUME SessionsAssumption ==
  /\ MaxVerifiers \in Nat \ {0} /\ MaxTime \in Nat
  /\ Idle \in Nat \ {0} /\ Absolute \in Nat /\ Idle <= Absolute

Verifiers == 1..MaxVerifiers   \* of one session, in the order of issue

VARIABLES
  now,
  opened,     \* sessions.issued_at; -1 for a session that is not there
  idleUntil,  \* sessions.idle_expires_at
  revoked,    \* the sessions with a revoked_at
  verifier,   \* session_verifiers.state, or "none"
  revoking,   \* sessions whose revocation is between its two statements
  status,     \* users.status
  served,     \* the verifiers that were last let in, per session; 0 for none
  replayed    \* sessions for which a superseded verifier was presented

vars == <<now, opened, idleUntil, revoked, verifier, revoking, status, served, replayed>>
user == <<now, opened, status>>

Open(s) == opened[s] # -1
Issued(s) == {k \in Verifiers : verifier[s][k] # "none"}
AbsoluteUntil(s) == opened[s] + Absolute
Expired(s) == idleUntil[s] <= now \/ AbsoluteUntil(s) <= now

Init ==
  /\ now = 0
  /\ opened = [s \in Sessions |-> -1]
  /\ idleUntil = [s \in Sessions |-> 0]
  /\ revoked = {}
  /\ verifier = [s \in Sessions |-> [k \in Verifiers |-> "none"]]
  /\ revoking = {}
  /\ status = "active"
  /\ served = [s \in Sessions |-> 0]
  /\ replayed = {}

\* session_verifiers.state = 'revoked' for what is active.
Withdrawn(s) == [k \in Verifiers |-> IF verifier[s][k] = "active" THEN "revoked" ELSE verifier[s][k]]

-----------------------------------------------------------------------------
CreateSession(s) ==
  /\ ~Open(s)
  /\ opened' = [opened EXCEPT ![s] = now]
  /\ idleUntil' = [idleUntil EXCEPT ![s] = now + Idle]
  /\ verifier' = [verifier EXCEPT ![s][1] = "active"]
  /\ UNCHANGED <<now, revoked, revoking, status, served, replayed>>

\* Both transactions start alike: a verifier that is no longer active ends the family.
ReplayRefused(s, k) ==   \* variant: the verifier is refused and nothing else
  /\ verifier[s][k] \in {"rotated", "revoked"}
  /\ replayed' = replayed \cup {s}
  /\ UNCHANGED <<user, idleUntil, revoked, verifier, revoking, served>>
Replay(s, k) ==
  /\ verifier[s][k] \in {"rotated", "revoked"}
  /\ revoked' = revoked \cup {s}
  /\ verifier' = [verifier EXCEPT ![s] = Withdrawn(s)]
  /\ replayed' = replayed \cup {s}
  /\ UNCHANGED <<user, idleUntil, revoking, served>>

\* revoked_at, by a suspension or by expiry: the verifier stays active.
Close(s) ==
  /\ revoked' = revoked \cup {s}
  /\ UNCHANGED <<user, idleUntil, verifier, revoking, served, replayed>>

LiveVerifier(s, k) == verifier[s][k] = "active"   \* variant: revoked_at is not looked at
Live(s, k) == verifier[s][k] = "active" /\ s \notin revoked

Authenticate(s, k) ==
  /\ Live(s, k)
  /\ IF status = "suspended" \/ Expired(s)
       THEN Close(s)
       ELSE /\ served' = [served EXCEPT ![s] = k]
            /\ UNCHANGED <<user, idleUntil, revoked, verifier, revoking, replayed>>

\* rotateSession, which does not ask whether the user is suspended.
RotateAddingTo(s, k) ==   \* variant: the old verifier is left as it is
  /\ Live(s, k)
  /\ ~Expired(s) /\ k < MaxVerifiers
  /\ verifier' = [verifier EXCEPT ![s][k + 1] = "active"]
  /\ idleUntil' = [idleUntil EXCEPT ![s] =
       IF now + Idle < AbsoluteUntil(s) THEN now + Idle ELSE AbsoluteUntil(s)]
  /\ served' = [served EXCEPT ![s] = k]
  /\ UNCHANGED <<user, revoked, revoking, replayed>>
Rotate(s, k) ==
  /\ Live(s, k)
  /\ IF Expired(s)
       THEN Close(s)
       ELSE /\ k < MaxVerifiers
            /\ verifier' = [verifier EXCEPT ![s][k] = "rotated", ![s][k + 1] = "active"]
            /\ idleUntil' = [idleUntil EXCEPT ![s] =
                 IF now + Idle < AbsoluteUntil(s) THEN now + Idle ELSE AbsoluteUntil(s)]
            /\ served' = [served EXCEPT ![s] = k]
            /\ UNCHANGED <<user, revoked, revoking, replayed>>

\* revokeSession, logout and revokeOtherSessions: first the sessions, then their verifiers.
Revoke(S) ==
  /\ S # {} /\ \A s \in S : Open(s) /\ s \notin revoked
  /\ revoked' = revoked \cup S
  /\ revoking' = revoking \cup S
  /\ UNCHANGED <<user, idleUntil, verifier, served, replayed>>

RevokeOne == \E s \in Sessions : Revoke({s})
RevokeOthers == \E s \in Sessions : Revoke({o \in Sessions \ {s} : Open(o) /\ o \notin revoked})

RevokeVerifiers(s) ==
  /\ s \in revoking
  /\ verifier' = [verifier EXCEPT ![s] = Withdrawn(s)]
  /\ revoking' = revoking \ {s}
  /\ UNCHANGED <<user, idleUntil, revoked, served, replayed>>

\* The process dies in between, or the second statement fails.
RevokeCutShort(s) ==
  /\ s \in revoking
  /\ revoking' = revoking \ {s}
  /\ UNCHANGED <<user, idleUntil, revoked, verifier, served, replayed>>

\* An administrator suspends the user, or lets them back.
Suspend ==
  /\ status' = IF status = "active" THEN "suspended" ELSE "active"
  /\ UNCHANGED <<now, opened, idleUntil, revoked, verifier, revoking, served, replayed>>

Tick ==
  /\ now < MaxTime /\ now' = now + 1
  /\ UNCHANGED <<opened, idleUntil, revoked, verifier, revoking, status, served, replayed>>

Next ==
  \/ \E s \in Sessions :
       \/ CreateSession(s) \/ RevokeVerifiers(s) \/ RevokeCutShort(s)
       \/ \E k \in Verifiers : Replay(s, k) \/ Authenticate(s, k) \/ Rotate(s, k)
  \/ RevokeOne \/ RevokeOthers \/ Suspend \/ Tick

Spec == Init /\ [][Next]_vars

-----------------------------------------------------------------------------
TypeOK ==
  /\ now \in 0..MaxTime
  /\ opened \in [Sessions -> {-1} \cup 0..MaxTime]
  /\ idleUntil \in [Sessions -> Nat]
  /\ revoked \subseteq Sessions
  /\ verifier \in [Sessions -> [Verifiers -> {"none", "active", "rotated", "revoked"}]]
  /\ revoking \subseteq Sessions
  /\ status \in {"active", "suspended"}
  /\ served \in [Sessions -> 0..MaxVerifiers]
  /\ replayed \subseteq Sessions

\* However refreshes, revocations and replays cross, a session has one verifier that may
\* be let in at most, the one issued last, and every earlier one is superseded; without
\* a revocation there is exactly one (rotateSession).
OneWayIn ==
  \A s \in Sessions : \A k \in Issued(s) :
    /\ verifier[s][k] = "active" => \A j \in Issued(s) : j <= k
    /\ (\E j \in Issued(s) : j > k) => verifier[s][k] = "rotated"
    /\ s \notin revoked /\ (\A j \in Issued(s) : j <= k) => verifier[s][k] = "active"

\* A session that was revoked stays out, also while its revocation is half done or was
\* cut short: it is neither served nor given another verifier (revokeSession,
\* revokeOtherSessions, authenticateSession, rotateSession).
StaysOut ==
  [][\A s \in revoked :
       /\ s \in revoked' /\ served'[s] = served[s]
       /\ \A k \in Verifiers : verifier'[s][k] = "active" => verifier[s][k] = "active"]_vars

\* docs/operations/knotline/authentication-security.md: a verifier presented again after
\* it was superseded ends the session, whichever browser holds the newer one.
ReplayEndsIt ==
  \A s \in replayed : s \in revoked /\ \A k \in Verifiers : verifier[s][k] # "active"

\* The idle expiry, however often it is advanced, stays within the absolute one
\* (rotateSession; the CHECK of migration 0002).
IdleWithinAbsolute == \A s \in Sessions : Open(s) => idleUntil[s] <= AbsoluteUntil(s)

=============================================================================
