------------------------ MODULE ClientSession_proofs ------------------------
(***************************************************************************)
(* Refreshes are shared and a token that brought a new pair is never       *)
(* presented again, for any number of calls and streams and any bounds:    *)
(* TypeOK, SingleFlight, WaitersHaveTrip and RenewedOnce are invariants of *)
(* ClientSession.                                                          *)
(*                                                                         *)
(* None of the last three is inductive.  What carries them is SessionInv:  *)
(* the one open round trip is the one of refreshInFlight (OneTrip), the    *)
(* stored pair has brought no new one yet (Unspent), and a pair on its way *)
(* to the browser is one that nobody has used (Fresh, Ancestry).           *)
(***************************************************************************)
EXTENDS ClientSession, FiniteSetTheorems, TLAPS

(* The bounds are numbers.                                                 *)
LEMMA BoundsAreNat == MaxPairs \in Nat /\ MaxCalls \in Nat /\ MaxDrops \in Nat
BY ClientAssumption

(* The page as it is loaded first.                                         *)
LEMMA InitKeeps == Init => SessionInv
<1> SUFFICES ASSUME Init PROVE SessionInv
  OBVIOUS
<1>1. TypeOK
  <2>1. signingIn \in BOOLEAN
    BY DEF Init
  <2>2. /\ storage \in 0 .. issued /\ issued \in 0 .. MaxPairs
        /\ calls \in 0 .. MaxCalls /\ drops \in 0 .. MaxDrops
    BY BoundsAreNat DEF Init
  <2>3. parent \in [Pair -> 0 .. MaxPairs]
    BY BoundsAreNat DEF Init
  <2>4. staleRefresh \subseteq staleAccess /\ staleAccess \subseteq 1 .. issued
    BY DEF Init
  <2>5. /\ refreshInFlight \in Actor \cup {None} /\ trip \in [Actor -> 0 .. issued]
        /\ requests \in [Pair -> Nat] /\ granted \in [Actor -> 0 .. issued]
        /\ received \subseteq 1 .. issued
        /\ waitsOn \in [Actor -> Actor \cup {None}]
    BY DEF Init
  <2>6. /\ pc \in [Caller -> {"idle", "first", "second", "waiting"}]
        /\ \A c \in Caller : pc[c] = "waiting" <=> waitsOn[c] # None
        /\ sent \in [Caller -> 0 .. issued]
    BY DEF Init, Actor
  <2>7. /\ conn \in [Stream -> {"closed", "open", "refused", "refreshing"}]
        /\ retried \in [Stream -> BOOLEAN]
    BY DEF Init
  <2> QED
    BY <2>1, <2>2, <2>3, <2>4, <2>5, <2>6, <2>7 DEF TypeOK
<1>2. OneTrip /\ WaitersHaveTrip
  BY DEF Init, OneTrip, WaitersHaveTrip
<1>3. Ancestry /\ Fresh /\ Unspent /\ RenewedOnce
  BY BoundsAreNat DEF Init, Ancestry, Fresh, Unspent, RenewedOnce, Pair
<1> QED
  BY <1>1, <1>2, <1>3 DEF SessionInv

(* A received pair, and the pair it came from, were issued.                *)
LEMMA ReceivedIsIssued ==
  ASSUME SessionInv, NEW p \in received
  PROVE  p \in Pair /\ p <= issued /\ parent[p] \in Nat /\ parent[p] < p
BY BoundsAreNat DEF SessionInv, TypeOK, Ancestry, Pair

(* What a step keeps when it leaves the refresh alone: it can only store a *)
(* pair nobody has seen, or none.                                          *)
LEMMA CalmKeeps ==
  ASSUME SessionInv, TypeOK', UNCHANGED <<refreshVars, parent>>,
         issued' >= issued,
         storage' \in {storage, 0} \/ storage' > issued
  PROVE  SessionInv'
<1>1. UNCHANGED <<refreshInFlight, trip, waitsOn, requests, granted, received, parent>>
  BY DEF refreshVars, netVars
<1>2. issued \in Nat /\ issued' \in Nat /\ storage \in Nat /\ storage' \in Nat
  BY BoundsAreNat DEF SessionInv, TypeOK
<1>3. OneTrip' /\ WaitersHaveTrip' /\ RenewedOnce'
  BY <1>1 DEF SessionInv, OneTrip, WaitersHaveTrip, RenewedOnce
<1>4. Ancestry'
  BY <1>1, <1>2 DEF SessionInv, Ancestry, Pair
<1>5. Fresh'
  BY <1>1, <1>2 DEF SessionInv, TypeOK, Fresh
<1>6. \A p \in received :
        parent[p] # storage /\ parent[p] # 0 /\ parent[p] < p /\ p <= issued /\ p \in Nat
  BY ReceivedIsIssued DEF SessionInv, Ancestry, Unspent, Pair
<1>7. \A p \in received : parent[p] # storage'
  BY <1>2, <1>6, ReceivedIsIssued
<1>8. Unspent'
  BY <1>1, <1>7 DEF Unspent
<1> QED
  BY <1>3, <1>4, <1>5, <1>8 DEF SessionInv

(* A caller or stream that starts to wait.                                 *)
LEMMA AwaitKeeps ==
  ASSUME SessionInv, TypeOK', NEW a \in Actor, AwaitRefresh(a),
         UNCHANGED <<storage, issued, parent>>
  PROVE  SessionInv'
<1>1. CASE JoinRefresh(a)
  <2>1. UNCHANGED <<refreshInFlight, trip, requests, granted, received>>
    BY <1>1 DEF JoinRefresh, netVars
  <2>2. OneTrip' /\ Ancestry' /\ Fresh' /\ Unspent' /\ RenewedOnce'
    BY <2>1 DEF SessionInv, OneTrip, Ancestry, Fresh, Unspent, RenewedOnce
  <2>3. WaitersHaveTrip'
    BY <1>1, <2>1 DEF JoinRefresh, Settled, SessionInv, WaitersHaveTrip, TypeOK
  <2> QED
    BY <2>2, <2>3 DEF SessionInv
<1>2. CASE StartRefresh(a)
  <2> USE DEF StartRefresh, SendRefresh
  <2>1. \A x \in Actor : trip[x] = 0 /\ waitsOn[x] = None /\ granted[x] = 0
    BY <1>2, ClientAssumption DEF SessionInv, OneTrip, WaitersHaveTrip, Fresh, Actor
  <2>2. storage \in 1 .. issued /\ issued \in Nat /\ storage \in Pair
    BY <1>2, BoundsAreNat DEF SessionInv, TypeOK, Pair
  <2>3. OneTrip'
    BY <1>2, <2>1 DEF SessionInv, TypeOK, OneTrip
  <2>4. WaitersHaveTrip'
    BY <1>2, <2>1 DEF SessionInv, TypeOK, WaitersHaveTrip
  <2>5. Ancestry'
    BY <1>2, <2>2 DEF SessionInv, TypeOK, Ancestry, Pair
  <2>6. Fresh' /\ Unspent'
    BY <1>2, <2>1 DEF SessionInv, Fresh, Unspent
  <2>7. RenewedOnce'
    BY <1>2 DEF SessionInv, TypeOK, Unspent, RenewedOnce
  <2> QED
    BY <2>3, <2>4, <2>5, <2>6, <2>7 DEF SessionInv
<1> QED
  BY <1>1, <1>2 DEF AwaitRefresh

(* A refresh that answers false at once.                                   *)
LEMMA FalseKeeps ==
  ASSUME SessionInv, TypeOK', NEW a \in Actor, RefreshFalse(a),
         UNCHANGED <<issued, parent>>, storage' \in {storage, 0}
  PROVE  SessionInv'
<1>1. CASE Settled
  <2>1. UNCHANGED refreshVars
    BY <1>1 DEF RefreshFalse, refreshVars
  <2> QED
    BY <2>1, CalmKeeps DEF SessionInv, TypeOK
<1>2. CASE ~Settled
  <2>1. \A x \in Actor : trip[x] = 0 /\ waitsOn[x] = None /\ granted[x] = 0
    BY <1>2, ClientAssumption DEF RefreshFalse, SessionInv, OneTrip, WaitersHaveTrip, Fresh, Actor
  <2>2. UNCHANGED <<trip, waitsOn, requests, granted, received>>
    BY DEF RefreshFalse, netVars
  <2>3. OneTrip' /\ WaitersHaveTrip' /\ Fresh'
    BY <2>1, <2>2 DEF OneTrip, WaitersHaveTrip, Fresh
  <2>4. Ancestry' /\ RenewedOnce' /\ Unspent'
    BY <2>2 DEF SessionInv, Ancestry, RenewedOnce, Unspent
  <2> QED
    BY <2>3, <2>4 DEF SessionInv
<1> QED
  BY <1>1, <1>2

(* The server exchanges a token, for whoever asked and may still listen.   *)
LEMMA ExchangeKeeps ==
  ASSUME SessionInv, TypeOK', NEW q \in Pair, Exchange(q)
  PROVE  SessionInv'
<1> DEFINE new == issued + 1
<1>1. /\ requests[q] > 0 /\ issued' = new
      /\ requests' = [requests EXCEPT ![q] = @ - 1]
      /\ parent' = [parent EXCEPT ![new] = q]
      /\ granted' = [x \in Actor |-> IF trip[x] = q /\ granted[x] = 0 THEN new ELSE granted[x]]
      /\ UNCHANGED <<storage, refreshInFlight, trip, waitsOn, received>>
  BY DEF Exchange
<1>2. /\ issued \in Nat /\ new \in Pair /\ q \in Nat /\ q <= issued /\ q # 0
      /\ storage \in Nat /\ storage <= issued
      /\ requests \in [Pair -> Nat] /\ parent \in [Pair -> Nat]
  BY <1>1, BoundsAreNat DEF Exchange, SessionInv, TypeOK, Ancestry, Pair
<1>3. OneTrip' /\ WaitersHaveTrip'
  BY <1>1 DEF SessionInv, OneTrip, WaitersHaveTrip
<1>4. \A p \in received : p # new /\ p \in Pair /\ parent'[p] = parent[p]
  BY <1>1, <1>2, ReceivedIsIssued
<1>5. Ancestry'
  BY <1>1, <1>2, <1>4 DEF SessionInv, Ancestry, Pair
<1>6. Unspent' /\ RenewedOnce'
  BY <1>1, <1>4 DEF SessionInv, Unspent, RenewedOnce
<1>7. ASSUME NEW x \in Actor, granted'[x] # 0
      PROVE  /\ trip[x] # 0 /\ parent'[granted'[x]] = trip[x]
             /\ granted'[x] # storage /\ requests'[granted'[x]] = 0
             /\ \A p \in Pair : parent'[p] # granted'[x]
  <2>1. CASE granted[x] = 0
    <3>1. granted'[x] = new /\ trip[x] = q
      BY <1>1, <1>7, <2>1
    <3>2. requests'[new] = 0
      BY <1>1, <1>2 DEF SessionInv, Ancestry
    <3>3. \A p \in Pair : parent'[p] # new
      BY <1>1, <1>2 DEF SessionInv, Ancestry, Pair
    <3> QED
      BY <1>1, <1>2, <3>1, <3>2, <3>3
  <2>2. CASE granted[x] # 0
    <3>0. granted \in [Actor -> 0 .. issued]
      BY DEF SessionInv, TypeOK
    <3>1. granted'[x] = granted[x] /\ granted[x] \in Nat /\ granted[x] <= issued
      BY <1>1, <1>2, <2>2, <3>0
    <3>2. /\ trip[x] # 0 /\ parent[granted[x]] = trip[x]
          /\ granted[x] # storage /\ requests[granted[x]] = 0
          /\ \A p \in Pair : parent[p] # granted[x]
      BY <2>2 DEF SessionInv, Fresh
    <3>3. q # granted[x] /\ new # granted[x]
      BY <1>1, <1>2, <3>1, <3>2
    <3> QED
      BY <1>1, <1>2, <3>1, <3>2, <3>3
  <2> QED
    BY <2>1, <2>2
<1>8. Fresh'
  BY <1>1, <1>7 DEF Fresh
<1> QED
  BY <1>3, <1>5, <1>6, <1>8 DEF SessionInv

(* The end of a round trip: nobody waits and none is open any more.        *)
LEMMA ReleaseQuiets ==
  ASSUME SessionInv, NEW a \in Actor, trip[a] # 0, Release(a)
  PROVE  \A x \in Actor : trip'[x] = 0 /\ waitsOn'[x] = None /\ granted'[x] = 0
BY ClientAssumption
   DEF SessionInv, TypeOK, OneTrip, WaitersHaveTrip, Fresh, Release, Waiting, Actor

(* What a step keeps that leaves no round trip open and receives nothing.  *)
LEMMA QuietKeeps ==
  ASSUME SessionInv, TypeOK', storage' \in {storage, 0},
         UNCHANGED <<issued, parent, requests, received>>,
         \A x \in Actor : trip'[x] = 0 /\ waitsOn'[x] = None /\ granted'[x] = 0
  PROVE  SessionInv'
<1>1. OneTrip' /\ WaitersHaveTrip' /\ Fresh'
  BY DEF OneTrip, WaitersHaveTrip, Fresh
<1>2. Ancestry' /\ Unspent' /\ RenewedOnce'
  BY DEF SessionInv, Ancestry, Unspent, RenewedOnce
<1> QED
  BY <1>1, <1>2 DEF SessionInv

(* The new pair arrives: nobody has used it, and its parent was the only   *)
(* pair presented.                                                         *)
LEMMA GrantKeeps ==
  ASSUME SessionInv, TypeOK', NEW a \in Actor, RefreshGranted(a)
  PROVE  SessionInv'
<1> DEFINE new == granted[a]
<1>1. /\ storage' = new /\ received' = received \cup {new} /\ Release(a)
      /\ UNCHANGED <<issued, parent, requests>>
  BY DEF RefreshGranted, StorePair, serverVars, Release
<1>2. /\ new # 0 /\ trip[a] # 0 /\ parent[new] = trip[a]
      /\ \A p \in Pair : parent[p] # new
  BY DEF RefreshGranted, SessionInv, Fresh
<1>3. \A x \in Actor : trip'[x] = 0 /\ waitsOn'[x] = None /\ granted'[x] = 0
  BY <1>1, <1>2, ReleaseQuiets
<1>4. OneTrip' /\ WaitersHaveTrip' /\ Fresh'
  BY <1>3 DEF OneTrip, WaitersHaveTrip, Fresh
<1>5. Ancestry'
  BY <1>1, <1>2 DEF SessionInv, Ancestry
<1>6. Unspent'
  <2>1. received' \subseteq Pair
    BY BoundsAreNat DEF TypeOK, Pair
  <2> QED
    BY <1>1, <1>2, <2>1 DEF Unspent
<1>7. \A p \in received : parent[p] # trip[a] /\ parent[p] # 0
  BY DEF SessionInv, RenewedOnce, Ancestry
<1>8. \A p \in received' : parent'[p] # 0
  BY <1>5 DEF Ancestry
<1>9. RenewedOnce'
  BY <1>1, <1>2, <1>3, <1>7, <1>8 DEF SessionInv, RenewedOnce
<1> QED
  BY <1>4, <1>5, <1>6, <1>9 DEF SessionInv

(* A refresh that fails, whatever the server did.                          *)
LEMMA FailKeeps ==
  ASSUME SessionInv, TypeOK', NEW a \in Actor, RefreshFailed(a)
  PROVE  SessionInv'
<1>1. /\ trip[a] # 0 /\ storage' \in {storage, 0}
      /\ UNCHANGED <<issued, parent, requests, received>> /\ Release(a)
  BY DEF RefreshFailed, ClearSession, serverVars, Release
<1> QED
  BY <1>1, ReleaseQuiets, QuietKeeps

----------------------------------------------------------------------------
(* Types: of a caller or stream that starts to wait, then of every action. *)
LEMMA AwaitTypes ==
  ASSUME TypeOK, NEW a \in Actor, AwaitRefresh(a)
  PROVE  /\ refreshInFlight' \in Actor /\ trip' \in [Actor -> 0 .. issued]
         /\ requests' \in [Pair -> Nat] /\ UNCHANGED <<granted, received>>
         /\ \E b \in Actor : waitsOn' = [waitsOn EXCEPT ![a] = b]
<1>1. CASE JoinRefresh(a)
  BY <1>1 DEF TypeOK, JoinRefresh, netVars
<1>2. CASE StartRefresh(a)
  <2>1. storage \in Pair /\ storage \in 0 .. issued
    BY <1>2, BoundsAreNat DEF TypeOK, StartRefresh, SendRefresh, Pair
  <2>2. requests' \in [Pair -> Nat]
    BY <1>2, <2>1 DEF TypeOK, StartRefresh, SendRefresh
  <2> QED
    BY <1>2, <2>1, <2>2 DEF TypeOK, StartRefresh, SendRefresh
<1> QED
  BY <1>1, <1>2 DEF AwaitRefresh

LEMMA TypeKeeps == SessionInv /\ [Next]_vars => TypeOK'
<1> SUFFICES ASSUME SessionInv, [Next]_vars PROVE TypeOK'
  OBVIOUS
<1> USE BoundsAreNat, ClientAssumption
<1>0. TypeOK
  BY DEF SessionInv
<1> USE DEF netVars
<1>1. CASE SubmitLogin \/ LoginGranted \/ LoginFailed
  <2>1. CASE SubmitLogin \/ LoginFailed
    BY <1>0, <2>1 DEF TypeOK, SubmitLogin, LoginFailed,
       serverVars, refreshVars, callVars, streamVars, countVars
  <2>2. CASE LoginGranted
    <3>1. /\ issued \in Nat /\ issued' = issued + 1 /\ issued' \in 0 .. MaxPairs
          /\ storage' \in 0 .. issued' /\ 0 .. issued \subseteq 0 .. issued'
          /\ staleAccess' \subseteq 1 .. issued'
      BY <1>0, <2>2 DEF TypeOK, LoginGranted, StorePair
    <3>2. /\ trip' \in [Actor -> 0 .. issued'] /\ granted' \in [Actor -> 0 .. issued']
          /\ sent' \in [Caller -> 0 .. issued'] /\ received' \subseteq 1 .. issued'
      BY <1>0, <2>2, <3>1 DEF TypeOK, LoginGranted, refreshVars, callVars
    <3>3. signingIn' \in BOOLEAN
      BY <2>2 DEF LoginGranted
    <3> QED
      BY <1>0, <2>2, <3>1, <3>2, <3>3 DEF TypeOK, LoginGranted, refreshVars, callVars,
         streamVars, countVars
  <2> QED
    BY <1>1, <2>1, <2>2
<1>2. CASE Logout
  BY <1>0, <1>2 DEF TypeOK, Logout, ClearSession, CloseStreams,
     serverVars, refreshVars, callVars, countVars
<1>3. ASSUME NEW p \in Pair, ExpireAccess(p) \/ ExpireRefresh(p)
      PROVE  TypeOK'
  BY <1>0, <1>3 DEF TypeOK, ExpireAccess, ExpireRefresh,
     refreshVars, callVars, streamVars, countVars
<1>4. ASSUME NEW c \in Caller, Call(c) \/ Answered(c)
      PROVE  TypeOK'
  <2>1. CASE Call(c)
    BY <1>0, <2>1 DEF TypeOK, Call, Actor, serverVars, refreshVars, streamVars
  <2>2. CASE Answered(c)
    BY <1>0, <2>2 DEF TypeOK, Answered, Return, Actor, serverVars, refreshVars, streamVars, countVars
  <2> QED
    BY <1>4, <2>1, <2>2
<1>5. ASSUME NEW c \in Caller, FirstRefusal(c)
      PROVE  TypeOK'
  <2> PICK b \in Actor : waitsOn' = [waitsOn EXCEPT ![c] = b]
    BY <1>0, <1>5, AwaitTypes DEF FirstRefusal, Actor
  <2>1. c \in Actor /\ AwaitRefresh(c)
    BY <1>5 DEF FirstRefusal, Actor
  <2> QED
    BY <1>0, <1>5, <2>1, AwaitTypes DEF TypeOK, FirstRefusal, Actor, serverVars, streamVars, countVars
<1>6. ASSUME NEW c \in Caller, GiveUp(c)
      PROVE  TypeOK'
  BY <1>0, <1>6 DEF TypeOK, GiveUp, Return, RefreshFalse, ClearSession, CloseStreams, Actor,
     serverVars, countVars
<1>7. ASSUME NEW c \in Caller, SecondRefusal(c)
      PROVE  TypeOK'
  BY <1>0, <1>7 DEF TypeOK, SecondRefusal, Return, ClearSession, CloseStreams, Actor,
     serverVars, refreshVars, countVars
<1>8. ASSUME NEW a \in Actor, RefreshGranted(a)
      PROVE  TypeOK'
  <2> DEFINE new == granted[a]
  <2>1. new \in 1 .. issued /\ new \in 0 .. issued /\ UNCHANGED issued
    BY <1>0, <1>8 DEF TypeOK, RefreshGranted, serverVars
  <2>2. storage' \in 0 .. issued /\ received' \subseteq 1 .. issued
    BY <1>0, <1>8, <2>1 DEF TypeOK, RefreshGranted, StorePair
  <2>3. Release(a)
    BY <1>8 DEF RefreshGranted
  <2>4. /\ trip' \in [Actor -> 0 .. issued] /\ granted' \in [Actor -> 0 .. issued]
        /\ refreshInFlight' \in Actor \cup {None} /\ requests' \in [Pair -> Nat]
    BY <1>0, <2>1, <2>3 DEF TypeOK, Release
  <2>5. waitsOn' \in [Actor -> Actor \cup {None}]
    BY <1>0, <2>3 DEF TypeOK, Release
  <2>6. /\ pc' \in [Caller -> {"idle", "first", "second", "waiting"}]
        /\ sent' \in [Caller -> 0 .. issued]
    BY <1>0, <1>8, <2>1 DEF TypeOK, RefreshGranted
  <2>7. \A c \in Caller : pc'[c] = "waiting" <=> waitsOn'[c] # None
    BY <1>0, <1>8 DEF TypeOK, RefreshGranted, Release, Waiting, Actor
  <2>8. /\ conn' \in [Stream -> {"closed", "open", "refused", "refreshing"}]
        /\ retried' \in [Stream -> BOOLEAN]
    BY <1>0, <1>8 DEF TypeOK, RefreshGranted, Connected
  <2> QED
    BY <1>0, <1>8, <2>1, <2>2, <2>4, <2>5, <2>6, <2>7, <2>8
       DEF TypeOK, RefreshGranted, serverVars, countVars
<1>9. ASSUME NEW a \in Actor, RefreshFailed(a)
      PROVE  TypeOK'
  BY <1>0, <1>9 DEF TypeOK, RefreshFailed, Return, Release, Waiting, ClearSession, CloseStreams, Actor,
     serverVars, countVars
<1>10. ASSUME NEW s \in Stream, OpenStream(s) \/ StreamData(s) \/ StreamClose(s)
       PROVE  TypeOK'
  BY <1>0, <1>10 DEF TypeOK, OpenStream, StreamData, StreamClose, Connected, Pair,
     serverVars, refreshVars, callVars, countVars
<1>11. ASSUME NEW s \in Stream, StreamError(s)
       PROVE  TypeOK'
  <2>1. s \in Actor /\ AwaitRefresh(s) /\ s \notin Caller
    BY <1>11 DEF StreamError, Actor
  <2> PICK b \in Actor : waitsOn' = [waitsOn EXCEPT ![s] = b]
    BY <1>0, <2>1, AwaitTypes
  <2>2. /\ waitsOn' \in [Actor -> Actor \cup {None}]
        /\ \A c \in Caller : waitsOn'[c] = waitsOn[c]
    BY <1>0, <2>1 DEF TypeOK, Actor
  <2>3. /\ refreshInFlight' \in Actor \cup {None} /\ trip' \in [Actor -> 0 .. issued]
        /\ requests' \in [Pair -> Nat] /\ UNCHANGED <<granted, received>>
    BY <1>0, <2>1, AwaitTypes
  <2>4. conn' \in [Stream -> {"closed", "open", "refused", "refreshing"}] /\ drops' \in 0 .. MaxDrops
    BY <1>0, <1>11 DEF TypeOK, StreamError, Dropping
  <2> QED
    BY <1>0, <1>11, <2>2, <2>3, <2>4 DEF TypeOK, StreamError, serverVars, callVars
<1>12. ASSUME NEW s \in Stream, StreamLost(s)
       PROVE  TypeOK'
  <2>1. refreshInFlight' \in Actor \cup {None} /\ UNCHANGED <<trip, waitsOn, requests, granted, received>>
    BY <1>0, <1>12 DEF TypeOK, StreamLost, RefreshFalse, refreshVars, Actor
  <2> QED
    BY <1>0, <1>12, <2>1 DEF TypeOK, StreamLost, Dropping, serverVars, callVars
<1>13. CASE UNCHANGED vars
  BY <1>0, <1>13 DEF TypeOK, vars
<1>14. ASSUME NEW p \in Pair, Exchange(p)
       PROVE  TypeOK'
  <2>1. /\ issued \in Nat /\ issued' = issued + 1 /\ issued' \in 0 .. MaxPairs
        /\ 0 .. issued \subseteq 0 .. issued' /\ 1 .. issued \subseteq 1 .. issued'
    BY <1>0, <1>14 DEF TypeOK, Exchange
  <2>2. requests' \in [Pair -> Nat] /\ parent' \in [Pair -> 0 .. MaxPairs]
    <3>1. issued + 1 \in Pair /\ parent \in [Pair -> 0 .. MaxPairs] /\ p \in 0 .. MaxPairs
      BY <1>0, <1>14 DEF TypeOK, Exchange, Pair
    <3>2. requests \in [Pair -> Nat] /\ requests[p] - 1 \in Nat
      BY <1>0, <1>14 DEF TypeOK, Exchange
    <3> QED
      BY <1>14, <3>1, <3>2 DEF Exchange
  <2>3. /\ trip' \in [Actor -> 0 .. issued'] /\ granted' \in [Actor -> 0 .. issued']
        /\ sent' \in [Caller -> 0 .. issued']
    BY <1>0, <1>14, <2>1 DEF TypeOK, Exchange, callVars
  <2> QED
    BY <1>0, <1>14, <2>1, <2>2, <2>3 DEF TypeOK, Exchange, callVars, streamVars, countVars
<1>15. CASE Reload
  <2>1. /\ trip' \in [Actor -> 0 .. issued] /\ granted' \in [Actor -> 0 .. issued]
        /\ waitsOn' \in [Actor -> Actor \cup {None}] /\ sent' \in [Caller -> 0 .. issued]
    BY <1>0, <1>15 DEF TypeOK, Reload, Return
  <2>2. /\ pc' \in [Caller -> {"idle", "first", "second", "waiting"}]
        /\ \A c \in Caller : pc'[c] = "waiting" <=> waitsOn'[c] # None
    BY <1>0, <1>15 DEF TypeOK, Reload, Return, Actor
  <2> QED
    BY <1>0, <1>15, <2>1, <2>2 DEF TypeOK, Reload, CloseStreams, serverVars, countVars
<1> QED
  BY <1>1, <1>2, <1>3, <1>4, <1>5, <1>6, <1>7, <1>8, <1>9, <1>10, <1>11, <1>12, <1>13, <1>14,
     <1>15 DEF Next

(* Every step keeps the invariant.                                         *)
LEMMA NextKeeps == SessionInv /\ [Next]_vars => SessionInv'
<1> SUFFICES ASSUME SessionInv, [Next]_vars PROVE SessionInv'
  OBVIOUS
<1> USE BoundsAreNat, ClientAssumption
<1>0. TypeOK' /\ issued \in Nat /\ storage \in Nat
  BY TypeKeeps DEF SessionInv, TypeOK
<1>1. CASE SubmitLogin \/ LoginGranted \/ LoginFailed \/ Logout
  <2>1. /\ UNCHANGED <<refreshVars, parent>>
        /\ issued' >= issued
        /\ storage' \in {storage, 0} \/ storage' > issued
    BY <1>0, <1>1 DEF SubmitLogin, LoginGranted, LoginFailed, Logout, StorePair, ClearSession,
       serverVars
  <2> QED
    BY <1>0, <2>1, CalmKeeps
<1>2. ASSUME NEW p \in Pair, ExpireAccess(p) \/ ExpireRefresh(p)
      PROVE  SessionInv'
  BY <1>0, <1>2, CalmKeeps DEF ExpireAccess, ExpireRefresh
<1>3. ASSUME NEW c \in Caller, Call(c) \/ Answered(c) \/ SecondRefusal(c)
      PROVE  SessionInv'
  BY <1>0, <1>3, CalmKeeps DEF Call, Answered, SecondRefusal, ClearSession, serverVars
<1>4. ASSUME NEW c \in Caller, FirstRefusal(c)
      PROVE  SessionInv'
  BY <1>0, <1>4, AwaitKeeps DEF FirstRefusal, Actor, serverVars
<1>5. ASSUME NEW c \in Caller, GiveUp(c)
      PROVE  SessionInv'
  BY <1>0, <1>5, FalseKeeps DEF GiveUp, ClearSession, Actor, serverVars
<1>6. ASSUME NEW a \in Actor, RefreshGranted(a) \/ RefreshFailed(a)
      PROVE  SessionInv'
  BY <1>0, <1>6, GrantKeeps, FailKeeps
<1>7. ASSUME NEW s \in Stream, OpenStream(s) \/ StreamData(s) \/ StreamClose(s)
      PROVE  SessionInv'
  BY <1>0, <1>7, CalmKeeps DEF OpenStream, StreamData, StreamClose, serverVars
<1>8. ASSUME NEW s \in Stream, StreamError(s)
      PROVE  SessionInv'
  BY <1>0, <1>8, AwaitKeeps DEF StreamError, Actor, serverVars
<1>9. ASSUME NEW s \in Stream, StreamLost(s)
      PROVE  SessionInv'
  <2>1. CASE RefreshFalse(s)
    BY <1>0, <1>9, <2>1, FalseKeeps DEF StreamLost, Actor, serverVars
  <2>2. CASE UNCHANGED refreshVars
    BY <1>0, <1>9, <2>2, CalmKeeps DEF StreamLost, serverVars
  <2> QED
    BY <1>9, <2>1, <2>2 DEF StreamLost
<1>10. CASE UNCHANGED vars
  BY <1>0, <1>10, CalmKeeps DEF vars, refreshVars, netVars
<1>11. ASSUME NEW p \in Pair, Exchange(p)
       PROVE  SessionInv'
  BY <1>0, <1>11, ExchangeKeeps
<1>12. CASE Reload
  BY <1>0, <1>12, QuietKeeps DEF Reload, serverVars
<1> QED
  BY <1>1, <1>2, <1>3, <1>4, <1>5, <1>6, <1>7, <1>8, <1>9, <1>10, <1>11, <1>12 DEF Next

----------------------------------------------------------------------------
(* The invariant of the session store, of its refresh and of the pairs.    *)
THEOREM Invariance == Spec => []SessionInv
BY InitKeeps, NextKeeps, PTL DEF Spec

(* Types of the session: whoever waits for a refresh is known, no actor    *)
(* refreshes with a pair that was never issued (frontend lib/api.ts).      *)
THEOREM TypesKept == Spec => []TypeOK
<1>1. SessionInv => TypeOK
  BY DEF SessionInv
<1> QED BY <1>1, Invariance, PTL

(* However many calls and streams meet an expired token, at most one       *)
(* refresh round trip is open.                                             *)
THEOREM SharesOneRefresh == Spec => []SingleFlight
<1>1. SessionInv => SingleFlight
  <2> SUFFICES ASSUME SessionInv PROVE SingleFlight
    OBVIOUS
  <2> DEFINE open == {a \in Actor : trip[a] # 0}
  <2>1. open \subseteq {refreshInFlight}
    BY DEF SessionInv, OneTrip
  <2>2. IsFiniteSet({refreshInFlight}) /\ Cardinality({refreshInFlight}) = 1
    BY FS_Singleton
  <2>3. Cardinality(open) <= 1
    BY <2>1, <2>2, FS_Subset
  <2> QED
    BY <2>3 DEF SingleFlight
<1> QED
  BY <1>1, Invariance, PTL

(* Whoever awaits a refresh awaits the open round trip of refreshInFlight. *)
THEOREM NobodyWaitsInVain == Spec => []WaitersHaveTrip
<1>1. SessionInv => WaitersHaveTrip
  BY DEF SessionInv
<1> QED
  BY <1>1, Invariance, PTL

(* A refresh token whose new pair reached the browser is never presented   *)
(* again, and brings no second pair; one whose exchange was lost on the    *)
(* way back may be (frontend lib/api.ts, the catch of refreshOnce).        *)
THEOREM RenewsOnce == Spec => []RenewedOnce
<1>1. SessionInv => RenewedOnce
  BY DEF SessionInv
<1> QED
  BY <1>1, Invariance, PTL
=============================================================================
