--------------------------- MODULE SessionsProofs ---------------------------
(***************************************************************************)
(* What holds of a user's sessions for any number of sessions, refreshes   *)
(* and lifetimes, in every order of requests, revocations and crashes.     *)
(***************************************************************************)
EXTENDS Sessions, TLAPS

-----------------------------------------------------------------------------
(* Types. *)

\* A verifier, a revocation and a replay belong to a session that was opened; only a
\* revoked one is between the two statements of its revocation.
SessionsOK ==
  /\ \A s \in Sessions : Issued(s) # {} \/ s \in revoked \/ s \in replayed => Open(s)
  /\ revoking \subseteq revoked

SessionsInv == TypeOK /\ SessionsOK /\ OneWayIn /\ ReplayEndsIt /\ IdleWithinAbsolute

\* The steps, by what they do to verifiers.
LEMMA CreateStep ==
  ASSUME SessionsInv, NEW s \in Sessions, CreateSession(s)
  PROVE  SessionsInv'
<1> USE SessionsAssumption DEF TypeOK
<1>0. TypeOK /\ now \in Nat /\ 1 \in Verifiers
  BY DEF SessionsInv, Verifiers
<1>1. /\ Issued(s) = {} /\ s \notin revoked /\ s \notin replayed /\ s \notin revoking
      /\ opened[s] = -1
  BY DEF CreateSession, Open, SessionsInv, SessionsOK
<1>2. /\ opened' = [opened EXCEPT ![s] = now] /\ idleUntil' = [idleUntil EXCEPT ![s] = now + Idle]
      /\ verifier' = [verifier EXCEPT ![s] = [verifier[s] EXCEPT ![1] = "active"]]
      /\ UNCHANGED <<now, revoked, revoking, status, served, replayed>>
  BY DEF CreateSession
<1>3. TypeOK'
  <2>1. opened' \in [Sessions -> {-1} \cup 0..MaxTime] /\ idleUntil' \in [Sessions -> Nat]
    BY <1>0, <1>2
  <2>2. verifier' \in [Sessions -> [Verifiers -> {"none", "active", "rotated", "revoked"}]]
    BY <1>0, <1>2
  <2> QED BY <1>0, <1>2, <2>1, <2>2
<1>4. Issued(s)' = {1} /\ verifier'[s][1] = "active"
  BY <1>0, <1>1, <1>2 DEF Issued
<1>5. \A o \in Sessions \ {s} : /\ verifier'[o] = verifier[o] /\ Issued(o)' = Issued(o)
                               /\ opened'[o] = opened[o] /\ idleUntil'[o] = idleUntil[o]
  BY <1>0, <1>2 DEF Issued
<1>6. opened'[s] = now /\ now # -1
  BY <1>0, <1>2
<1>7. SessionsOK'
  BY <1>1, <1>2, <1>5, <1>6 DEF SessionsInv, SessionsOK, Open
<1>8. OneWayIn'
  <2> SUFFICES ASSUME NEW o \in Sessions, NEW k \in Issued(o)'
               PROVE  /\ verifier'[o][k] = "active" => \A j \in Issued(o)' : j <= k
                      /\ (\E j \in Issued(o)' : j > k) => verifier'[o][k] = "rotated"
                      /\ o \notin revoked' /\ (\A j \in Issued(o)' : j <= k) => verifier'[o][k] = "active"
    BY DEF OneWayIn
  <2>1. CASE o = s
    BY <1>4, <2>1
  <2>2. CASE o # s
    BY <1>2, <1>5, <2>2 DEF SessionsInv, OneWayIn
  <2> QED BY <2>1, <2>2
<1>9. ReplayEndsIt'
  BY <1>1, <1>2, <1>5 DEF SessionsInv, ReplayEndsIt
<1>10. IdleWithinAbsolute'
  <2> SUFFICES ASSUME NEW o \in Sessions, Open(o)' PROVE idleUntil'[o] <= opened'[o] + Absolute
    BY DEF IdleWithinAbsolute, AbsoluteUntil
  <2>1. CASE o = s
    BY <1>0, <1>2, <2>1
  <2>2. CASE o # s
    BY <1>5, <2>2 DEF SessionsInv, IdleWithinAbsolute, AbsoluteUntil, Open
  <2> QED BY <2>1, <2>2
<1> QED BY <1>3, <1>7, <1>8, <1>9, <1>10 DEF SessionsInv

\* A session is revoked, with its active verifier or without.
LEMMA RevokedStep ==
  ASSUME SessionsInv, NEW S \in SUBSET Sessions, NEW s \in Sessions,
         UNCHANGED <<opened, idleUntil>>, revoked' = revoked \cup S, TypeOK',
         \A o \in S : Open(o), revoking' \subseteq revoked',
         \/ verifier' = verifier
         \/ s \in revoked' /\ verifier' = [verifier EXCEPT ![s] = Withdrawn(s)],
         \/ replayed' = replayed
         \/ /\ replayed' = replayed \cup {s} /\ s \in revoked'
            /\ verifier' = [verifier EXCEPT ![s] = Withdrawn(s)]
  PROVE  SessionsInv'
<1> USE DEF SessionsInv
<1>0. verifier \in [Sessions -> [Verifiers -> {"none", "active", "rotated", "revoked"}]]
  BY DEF TypeOK
<1>1. ASSUME NEW o \in Sessions, NEW k \in Verifiers
      PROVE  /\ verifier'[o][k] = "none" <=> verifier[o][k] = "none"
             /\ verifier'[o][k] = "rotated" <=> verifier[o][k] = "rotated"
             /\ verifier'[o][k] = "active" => verifier[o][k] = "active"
             /\ o \notin revoked' => verifier'[o][k] = verifier[o][k]
  <2>1. CASE verifier' = verifier
    BY <2>1
  <2>2. CASE s \in revoked' /\ verifier' = [verifier EXCEPT ![s] = Withdrawn(s)]
    BY <1>0, <2>2 DEF Withdrawn
  <2> QED BY <2>1, <2>2
<1>2. \A o \in Sessions : Issued(o)' = Issued(o)
  BY <1>1 DEF Issued
<1>3. \A o \in Sessions : Open(o)' = Open(o)
  BY DEF Open
<1>4. SessionsOK'
  <2>1. \A o \in Sessions : o \in replayed' => o \in replayed \/ o \in revoked'
    OBVIOUS
  <2>2. \A o \in Sessions : o \in revoked' => Open(o)
    BY DEF SessionsOK
  <2> QED BY <1>2, <1>3, <2>1, <2>2 DEF SessionsOK
<1>5. OneWayIn'
  <2> SUFFICES ASSUME NEW o \in Sessions, NEW k \in Issued(o)'
               PROVE  /\ verifier'[o][k] = "active" => \A j \in Issued(o)' : j <= k
                      /\ (\E j \in Issued(o)' : j > k) => verifier'[o][k] = "rotated"
                      /\ o \notin revoked' /\ (\A j \in Issued(o)' : j <= k) => verifier'[o][k] = "active"
    BY DEF OneWayIn
  <2>1. k \in Issued(o) /\ k \in Verifiers
    BY <1>2 DEF Issued
  <2>2. /\ verifier[o][k] = "active" => \A j \in Issued(o) : j <= k
        /\ (\E j \in Issued(o) : j > k) => verifier[o][k] = "rotated"
        /\ o \notin revoked /\ (\A j \in Issued(o) : j <= k) => verifier[o][k] = "active"
    BY <2>1 DEF OneWayIn
  <2> QED BY <1>1, <1>2, <2>1, <2>2
<1>6. ReplayEndsIt'
  <2>1. ASSUME verifier' = [verifier EXCEPT ![s] = Withdrawn(s)], NEW k \in Verifiers
        PROVE  verifier'[s][k] # "active"
    BY <1>0, <2>1 DEF Withdrawn
  <2>2. \A o \in replayed : o \in revoked' /\ \A k \in Verifiers : verifier'[o][k] # "active"
    BY <1>1 DEF ReplayEndsIt, TypeOK
  <2> QED BY <2>1, <2>2 DEF ReplayEndsIt
<1>7. IdleWithinAbsolute'
  BY <1>3 DEF IdleWithinAbsolute, AbsoluteUntil
<1> QED BY <1>4, <1>5, <1>6, <1>7

\* A refresh: the last verifier is superseded by the next.
LEMMA RotateStep ==
  ASSUME SessionsInv, NEW s \in Sessions, NEW k \in Verifiers, Rotate(s, k), ~Expired(s)
  PROVE  SessionsInv'
<1> USE SessionsAssumption DEF SessionsInv
<1>0. /\ TypeOK /\ now \in Nat /\ k \in Nat /\ k < MaxVerifiers /\ k + 1 \in Verifiers /\ k # k + 1
      /\ verifier[s][k] = "active" /\ s \notin revoked
      /\ UNCHANGED <<now, opened, status, revoked, revoking, replayed>>
  BY DEF TypeOK, Verifiers, Rotate, Live, user
<1>1. verifier \in [Sessions -> [Verifiers -> {"none", "active", "rotated", "revoked"}]]
  BY DEF TypeOK
<1>2. verifier' = [verifier EXCEPT ![s] =
                     [[verifier[s] EXCEPT ![k] = "rotated"] EXCEPT ![k + 1] = "active"]]
  BY <1>1 DEF Rotate
<1>3. /\ verifier'[s][k] = "rotated" /\ verifier'[s][k + 1] = "active"
      /\ \A j \in Verifiers \ {k, k + 1} : verifier'[s][j] = verifier[s][j]
      /\ \A o \in Sessions \ {s} : verifier'[o] = verifier[o]
  BY <1>0, <1>1, <1>2
<1>4. Open(s) /\ opened[s] \in Nat
  <2>1. k \in Issued(s)
    BY <1>0 DEF Issued
  <2> QED BY <2>1 DEF SessionsOK, TypeOK, Open
<1>5. idleUntil' = [idleUntil EXCEPT ![s] =
        IF now + Idle < opened[s] + Absolute THEN now + Idle ELSE opened[s] + Absolute]
  BY DEF Rotate, AbsoluteUntil
<1>6. idleUntil' \in [Sessions -> Nat] /\ idleUntil'[s] <= opened[s] + Absolute
  <2>1. now + Idle \in Nat /\ opened[s] + Absolute \in Nat
    BY <1>0, <1>4
  <2> QED BY <1>5, <2>1 DEF TypeOK
<1>7. TypeOK'
  <2>1. verifier' \in [Sessions -> [Verifiers -> {"none", "active", "rotated", "revoked"}]]
    BY <1>0, <1>1, <1>2
  <2>2. served' \in [Sessions -> 0..MaxVerifiers]
    BY <1>0 DEF Rotate, TypeOK
  <2> QED BY <1>0, <1>6, <2>1, <2>2 DEF TypeOK
<1>8. \A o \in Sessions \ {s} : Issued(o)' = Issued(o)
  BY <1>3 DEF Issued
<1>9. Issued(s)' = Issued(s) \cup {k + 1} /\ k \in Issued(s)
  BY <1>0, <1>3 DEF Issued
<1>10. \A j \in Issued(s) : j \in Verifiers /\ j \in Int /\ j <= k /\ (j # k => verifier[s][j] = "rotated")
  <2> SUFFICES ASSUME NEW j \in Issued(s)
               PROVE  j \in Verifiers /\ j \in Int /\ j <= k /\ (j # k => verifier[s][j] = "rotated")
    OBVIOUS
  <2>1. j \in Verifiers /\ j \in Int
    BY DEF Issued, Verifiers
  <2>2. j <= k
    BY <1>0, <1>9 DEF OneWayIn
  <2>3. j # k => k > j
    BY <1>0, <2>1, <2>2
  <2>4. k > j => verifier[s][j] = "rotated"
    BY <1>9 DEF OneWayIn
  <2> QED BY <2>1, <2>2, <2>3, <2>4
<1>11. SessionsOK'
  BY <1>0, <1>4, <1>8 DEF SessionsOK, Open
<1>12. OneWayIn'
  <2> SUFFICES ASSUME NEW o \in Sessions, NEW i \in Issued(o)'
               PROVE  /\ verifier'[o][i] = "active" => \A j \in Issued(o)' : j <= i
                      /\ (\E j \in Issued(o)' : j > i) => verifier'[o][i] = "rotated"
                      /\ o \notin revoked' /\ (\A j \in Issued(o)' : j <= i) => verifier'[o][i] = "active"
    BY DEF OneWayIn
  <2>1. CASE o # s
    <3>1. Issued(o)' = Issued(o) /\ verifier'[o] = verifier[o] /\ revoked' = revoked
      BY <1>0, <1>3, <1>8, <2>1
    <3>2. i \in Issued(o)
      BY <3>1
    <3> QED BY <3>1, <3>2 DEF OneWayIn
  <2>2. CASE o = s /\ i = k + 1
    <3>0. ASSUME NEW j \in Issued(s)' PROVE j \in Int /\ (j <= k \/ j = k + 1)
      <4>1. j \in Issued(s) \/ j = k + 1
        BY <1>9
      <4>2. k + 1 \in Int
        BY <1>0
      <4> QED BY <1>10, <4>1, <4>2
    <3>1. \A j \in Issued(s)' : j <= k + 1
      BY <1>0, <3>0
    <3>2. \A j \in Issued(s)' : ~ (j > k + 1)
      BY <1>0, <3>0
    <3> QED BY <1>3, <2>2, <3>1, <3>2
  <2>3. CASE o = s /\ i # k + 1
    <3>1. i \in Issued(s) /\ i \in Int /\ i <= k /\ i \in Verifiers
      BY <1>9, <1>10, <2>3
    <3>2. verifier'[s][i] = "rotated"
      BY <1>3, <1>10, <2>3, <3>1
    <3>3. ~ (k + 1 <= i) /\ k + 1 \in Issued(s)'
      BY <1>0, <1>9, <3>1
    <3> QED BY <2>3, <3>2, <3>3
  <2> QED BY <2>1, <2>2, <2>3
<1>13. ReplayEndsIt'
  <2>1. s \notin replayed /\ replayed \subseteq Sessions
    BY <1>0 DEF ReplayEndsIt, TypeOK
  <2>2. \A o \in replayed : verifier'[o] = verifier[o]
    BY <1>3, <2>1
  <2> QED BY <1>0, <2>2 DEF ReplayEndsIt
<1>14. IdleWithinAbsolute'
  <2> SUFFICES ASSUME NEW o \in Sessions, Open(o)' PROVE idleUntil'[o] <= opened'[o] + Absolute
    BY DEF IdleWithinAbsolute, AbsoluteUntil
  <2>1. CASE o # s
    BY <1>0, <1>5, <2>1 DEF IdleWithinAbsolute, AbsoluteUntil, Open, TypeOK
  <2> QED BY <1>0, <1>6, <2>1
<1> QED BY <1>7, <1>11, <1>12, <1>13, <1>14

-----------------------------------------------------------------------------
(* The theorems. *)

LEMMA SessionsInvHolds == Spec => []SessionsInv
<1> USE SessionsAssumption
<1>1. Init => SessionsInv
  <2> SUFFICES ASSUME Init PROVE SessionsInv
    OBVIOUS
  <2>1. \A s \in Sessions : Issued(s) = {} /\ ~Open(s)
    BY DEF Init, Issued, Open
  <2> QED BY <2>1 DEF Init, SessionsInv, TypeOK, SessionsOK, OneWayIn, ReplayEndsIt, IdleWithinAbsolute
<1>2. SessionsInv /\ [Next]_vars => SessionsInv'
  <2> SUFFICES ASSUME SessionsInv, [Next]_vars PROVE SessionsInv'
    OBVIOUS
  <2>0. /\ TypeOK /\ revoking \subseteq revoked
        /\ \A s \in Sessions : Withdrawn(s) \in [Verifiers -> {"none", "active", "rotated", "revoked"}]
    BY DEF SessionsInv, SessionsOK, TypeOK, Withdrawn
  <2>1. ASSUME NEW s \in Sessions, CreateSession(s) PROVE SessionsInv'
    BY <2>1, CreateStep
  <2>2. ASSUME NEW s \in Sessions, NEW k \in Verifiers, verifier[s][k] # "none" PROVE Open(s)
    BY <2>2 DEF SessionsInv, SessionsOK, Issued
  <2>3. ASSUME NEW s \in Sessions, NEW k \in Verifiers, verifier[s][k] # "none", Close(s)
        PROVE  SessionsInv'
    <3>1. TypeOK'
      BY <2>0, <2>3 DEF TypeOK, Close, user
    <3>2. /\ UNCHANGED <<opened, idleUntil, verifier, replayed, revoking>> /\ revoked' = revoked \cup {s}
          /\ {s} \in SUBSET Sessions /\ \A o \in {s} : Open(o)
      BY <2>2, <2>3 DEF Close, user
    <3>3. revoking' \subseteq revoked'
      BY <2>0, <3>2
    <3> QED BY <3>1, <3>2, <3>3, RevokedStep
  <2>4. ASSUME NEW s \in Sessions, NEW k \in Verifiers, Replay(s, k) PROVE SessionsInv'
    <3>1. /\ UNCHANGED <<now, status, opened, idleUntil, served, revoking>> /\ revoked' = revoked \cup {s}
          /\ {s} \in SUBSET Sessions /\ \A o \in {s} : Open(o)
          /\ verifier' = [verifier EXCEPT ![s] = Withdrawn(s)] /\ replayed' = replayed \cup {s}
      BY <2>2, <2>4 DEF Replay, user
    <3>2. TypeOK'
      BY <2>0, <3>1 DEF TypeOK
    <3>3. revoking' \subseteq revoked' /\ s \in revoked'
      BY <2>0, <3>1
    <3> QED BY <3>1, <3>2, <3>3, RevokedStep
  <2>5. ASSUME NEW s \in Sessions, NEW k \in Verifiers, Authenticate(s, k) PROVE SessionsInv'
    <3>1. verifier[s][k] # "none" /\ k \in 0..MaxVerifiers
      BY <2>5 DEF Authenticate, Live, Verifiers
    <3>2. CASE Close(s)
      BY <2>3, <3>1, <3>2
    <3>3. CASE /\ served' = [served EXCEPT ![s] = k]
               /\ UNCHANGED <<user, idleUntil, revoked, verifier, revoking, replayed>>
      <4>1. TypeOK'
        BY <2>0, <3>1, <3>3 DEF TypeOK, user
      <4> QED BY <3>3, <4>1 DEF user, SessionsInv, SessionsOK, OneWayIn, ReplayEndsIt,
                     IdleWithinAbsolute, Issued, Open, AbsoluteUntil
    <3> QED BY <2>5, <3>2, <3>3 DEF Authenticate
  <2>6. ASSUME NEW s \in Sessions, NEW k \in Verifiers, Rotate(s, k) PROVE SessionsInv'
    <3>1. CASE ~Expired(s)
      BY <2>6, <3>1, RotateStep
    <3>2. CASE Expired(s)
      <4>1. Close(s) /\ verifier[s][k] # "none"
        BY <2>6, <3>2 DEF Rotate, Live
      <4> QED BY <2>3, <4>1
    <3> QED BY <3>1, <3>2
  <2>7. ASSUME NEW S \in SUBSET Sessions, Revoke(S) PROVE SessionsInv'
    <3>1. /\ UNCHANGED <<now, status, opened, idleUntil, verifier, served, replayed>>
          /\ revoked' = revoked \cup S /\ revoking' = revoking \cup S /\ \A o \in S : Open(o)
          /\ \E s \in Sessions : s \in S
      BY <2>7 DEF Revoke, user
    <3>2. TypeOK'
      BY <2>0, <3>1 DEF TypeOK
    <3>3. revoking' \subseteq revoked'
      BY <2>0, <3>1
    <3> QED BY <3>1, <3>2, <3>3, RevokedStep
  <2>8. ASSUME NEW s \in Sessions, RevokeVerifiers(s) \/ RevokeCutShort(s) PROVE SessionsInv'
    <3>1. /\ UNCHANGED <<now, status, opened, idleUntil, revoked, served, replayed>>
          /\ s \in revoking /\ revoking' = revoking \ {s}
          /\ verifier' = verifier \/ verifier' = [verifier EXCEPT ![s] = Withdrawn(s)]
      BY <2>8 DEF RevokeVerifiers, RevokeCutShort, user
    <3>2. TypeOK'
      BY <2>0, <3>1 DEF TypeOK
    <3>3. revoking' \subseteq revoked' /\ s \in revoked' /\ revoked' = revoked \cup {}
      BY <2>0, <3>1
    <3>4. {} \in SUBSET Sessions /\ \A o \in {} : Open(o)
      OBVIOUS
    <3> QED BY <3>1, <3>2, <3>3, <3>4, RevokedStep
  <2>9. CASE Suspend \/ Tick \/ UNCHANGED vars
    <3>1. TypeOK'
      BY <2>0, <2>9 DEF TypeOK, Suspend, Tick, vars
    <3>2. UNCHANGED <<opened, idleUntil, revoked, verifier, revoking, replayed>>
      BY <2>9 DEF Suspend, Tick, vars
    <3> QED BY <3>1, <3>2 DEF SessionsInv, SessionsOK, OneWayIn, ReplayEndsIt,
                 IdleWithinAbsolute, Issued, Open, AbsoluteUntil
  <2>10. RevokeOne \/ RevokeOthers => \E S \in SUBSET Sessions : Revoke(S)
    BY DEF RevokeOne, RevokeOthers
  <2> QED BY <2>1, <2>4, <2>5, <2>6, <2>7, <2>8, <2>9, <2>10 DEF Next
<1> QED BY <1>1, <1>2, PTL DEF Spec

\* Every reachable session, verifier and revocation is well formed.
THEOREM SessionTypes == Spec => []TypeOK
BY SessionsInvHolds, PTL DEF SessionsInv

\* A session has one verifier that may be let in at most, the one issued last.
THEOREM OneVerifier == Spec => []OneWayIn
BY SessionsInvHolds, PTL DEF SessionsInv

\* A verifier presented after it was superseded ends the session for good.
THEOREM ReplaysEnd == Spec => []ReplayEndsIt
BY SessionsInvHolds, PTL DEF SessionsInv

\* No refresh carries the idle expiry beyond the absolute one.
THEOREM IdleBounded == Spec => []IdleWithinAbsolute
BY SessionsInvHolds, PTL DEF SessionsInv

\* A revoked session is neither served nor refreshed again, also when its revocation was
\* cut short between its two statements.
THEOREM RevokedStaysOut == Spec => StaysOut
<1>1. SessionsInv /\ [Next]_vars =>
        [\A s \in revoked :
           /\ s \in revoked' /\ served'[s] = served[s]
           /\ \A k \in Verifiers : verifier'[s][k] = "active" => verifier[s][k] = "active"]_vars
  <2> SUFFICES ASSUME SessionsInv, Next, NEW s \in revoked
               PROVE  /\ s \in revoked' /\ served'[s] = served[s]
                      /\ \A k \in Verifiers : verifier'[s][k] = "active" => verifier[s][k] = "active"
    OBVIOUS
  <2>0. /\ s \in Sessions /\ Open(s) /\ served \in [Sessions -> 0..MaxVerifiers]
        /\ verifier \in [Sessions -> [Verifiers -> {"none", "active", "rotated", "revoked"}]]
    BY DEF SessionsInv, SessionsOK, TypeOK
  <2>1. ASSUME NEW o \in Sessions, CreateSession(o)
        PROVE  revoked' = revoked /\ served' = served /\ verifier'[s] = verifier[s]
    BY <2>0, <2>1 DEF CreateSession
  <2>2. ASSUME NEW o \in Sessions, RevokeVerifiers(o) \/ RevokeCutShort(o)
        PROVE  /\ revoked' = revoked /\ served' = served
               /\ \A k \in Verifiers : verifier'[s][k] = "active" => verifier[s][k] = "active"
    BY <2>0, <2>2 DEF RevokeVerifiers, RevokeCutShort, Withdrawn
  <2>3. ASSUME NEW o \in Sessions, NEW k \in Verifiers, Replay(o, k)
        PROVE  /\ revoked \subseteq revoked' /\ served' = served
               /\ \A j \in Verifiers : verifier'[s][j] = "active" => verifier[s][j] = "active"
    BY <2>0, <2>3 DEF Replay, Withdrawn
  <2>4. ASSUME NEW o \in Sessions, NEW k \in Verifiers, Authenticate(o, k) \/ Rotate(o, k)
        PROVE  revoked \subseteq revoked' /\ served'[s] = served[s] /\ verifier'[s] = verifier[s]
    <3>1. o # s
      BY <2>4 DEF Authenticate, Rotate, Live
    <3>2. CASE Authenticate(o, k)
      BY <2>0, <3>1, <3>2 DEF Authenticate, Close
    <3>3. CASE Rotate(o, k)
      <4>1. verifier' = verifier \/ \E f : verifier' = [verifier EXCEPT ![o] = f]
        BY <3>3 DEF Rotate, Close
      <4> QED BY <2>0, <3>1, <3>3, <4>1 DEF Rotate, Close
    <3> QED BY <2>4, <3>2, <3>3
  <2>5. RevokeOne \/ RevokeOthers \/ Suspend \/ Tick
          => revoked \subseteq revoked' /\ served' = served /\ verifier' = verifier
    BY DEF RevokeOne, RevokeOthers, Revoke, Suspend, Tick
  <2> QED BY <2>1, <2>2, <2>3, <2>4, <2>5 DEF Next
<1> QED BY <1>1, SessionsInvHolds, PTL DEF Spec, StaysOut

=============================================================================
