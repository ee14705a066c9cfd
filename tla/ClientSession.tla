---------------------------- MODULE ClientSession ----------------------------
(***************************************************************************)
(* The browser's session: the token pair in sessionStorage, the single-    *)
(* flight refresh, apiFetch with its one retry (frontend/src/lib/api.ts)   *)
(* and the event streams that refresh and reconnect (lib/sse.ts).          *)
(*                                                                         *)
(* The page is one JavaScript thread: between two awaits nothing else      *)
(* runs, and everybody who awaits one promise is resumed before the next   *)
(* task.  One action is therefore one task: a click, an answer from the    *)
(* network and all that it sets off.                                       *)
(*                                                                         *)
(* A token pair is a number, in the order the server issues them.  The     *)
(* server keeps no session: it exchanges a refresh token that has not      *)
(* expired as often as it is presented (backend api/auth.py), also for a   *)
(* request whose answer nobody will receive any more.                      *)
(***************************************************************************)
EXTENDS Naturals, FiniteSets

CONSTANTS
  Caller,     \* calls of apiFetch that may be in progress together
  Stream,     \* run and demo streams of the mounted screen
  None,       \* nobody has created the refresh promise
  MaxPairs,   \* bound: token pairs the server issues
  MaxCalls,   \* bound: calls of apiFetch
  MaxDrops    \* bound: stream connections lost

ASSUME ClientAssumption ==
  /\ None \notin Caller \cup Stream
  /\ Caller \cap Stream = {}
  /\ {MaxPairs, MaxCalls, MaxDrops} \subseteq Nat

VARIABLES
  storage,         \* the pair in sessionStorage, 0 when there is none
  signingIn,       \* POST /auth/login is on its way: the form's `pending`
  issued,          \* pairs issued so far: 1 .. issued
  parent,          \* the pair whose refresh token a pair was exchanged for, 0: a login
  staleAccess,     \* pairs whose access token has expired
  staleRefresh,    \* pairs whose refresh token has expired
  refreshInFlight, \* the module variable: whose promise it holds, or None
  trip,            \* the pair each caller's own POST /auth/refresh presents, 0: none open
  requests,        \* how many refresh requests present a pair, and wait or are lost
  granted,         \* the pair in the server's answer to an open trip, 0: not answered
  received,        \* history: the pairs that reached the browser by a refresh
  waitsOn,         \* whose promise a caller or stream awaits, or None
  pc,              \* apiFetch: idle, its first or second attempt sent, awaiting the refresh
  sent,            \* the pair whose access token the attempt carries
  conn,            \* a stream: closed, open, refused by the server, or refreshing
  retried,         \* openRunStream's refreshRetried
  calls, drops     \* how often the bounded events have happened

vars == <<storage, signingIn, issued, parent, staleAccess, staleRefresh, refreshInFlight, trip,
          requests, granted, received, waitsOn, pc, sent, conn, retried, calls, drops>>

(* What the user, the server and the clock own, and what belongs to the    *)
(* refresh: the parts most actions leave alone.                            *)
serverVars  == <<issued, parent, staleAccess, staleRefresh>>
netVars     == <<requests, granted, received>>
refreshVars == <<refreshInFlight, trip, waitsOn, netVars>>
callVars    == <<pc, sent>>
streamVars  == <<conn, retried>>
countVars   == <<calls, drops>>

Actor == Caller \cup Stream
Pair  == 1 .. MaxPairs

TypeOK ==
  /\ storage \in 0 .. issued
  /\ signingIn \in BOOLEAN
  /\ issued \in 0 .. MaxPairs
  /\ parent \in [Pair -> 0 .. MaxPairs]
  /\ staleRefresh \subseteq staleAccess
  /\ staleAccess \subseteq 1 .. issued
  /\ refreshInFlight \in Actor \cup {None}
  /\ trip \in [Actor -> 0 .. issued]
  /\ requests \in [Pair -> Nat]
  /\ granted \in [Actor -> 0 .. issued]
  /\ received \subseteq 1 .. issued
  /\ waitsOn \in [Actor -> Actor \cup {None}]
  /\ pc \in [Caller -> {"idle", "first", "second", "waiting"}]
  /\ \A c \in Caller : pc[c] = "waiting" <=> waitsOn[c] # None
  /\ sent \in [Caller -> 0 .. issued]
  /\ conn \in [Stream -> {"closed", "open", "refused", "refreshing"}]
  /\ retried \in [Stream -> BOOLEAN]
  /\ calls \in 0 .. MaxCalls
  /\ drops \in 0 .. MaxDrops

Init ==
  /\ storage = 0 /\ signingIn = FALSE /\ issued = 0
  /\ parent = [p \in Pair |-> 0]
  /\ staleAccess = {} /\ staleRefresh = {}
  /\ refreshInFlight = None
  /\ trip = [a \in Actor |-> 0]
  /\ requests = [p \in Pair |-> 0]
  /\ granted = [a \in Actor |-> 0]
  /\ received = {}
  /\ waitsOn = [a \in Actor |-> None]
  /\ pc = [c \in Caller |-> "idle"]
  /\ sent = [c \in Caller |-> 0]
  /\ conn = [s \in Stream |-> "closed"]
  /\ retried = [s \in Stream |-> FALSE]
  /\ calls = 0 /\ drops = 0

----------------------------------------------------------------------------
(* The parts the handlers are built from.                                  *)

(* Mutant: a refresh that leaves the old refresh token in the store.       *)
StoreKeepsOld(p) == storage' = IF storage = 0 THEN p ELSE storage

(* storePair: the access and the refresh token always change together.     *)
StorePair(p) == storage' = p

(* The streams of a screen end with it: their effect's cleanup closes the  *)
(* handle, and a closed handle ignores the answer it was waiting for.      *)
CloseStreams == conn' = [s \in Stream |-> "closed"]

(* clearSession: the route guard leaves the screens when the token goes.   *)
ClearSession == storage' = 0 /\ CloseStreams

(* connect: the stream carries the stored access token of that moment.     *)
Connected(p) == IF p \in Pair \ staleAccess THEN "open" ELSE "refused"

(* The promise of refreshInFlight has settled: its round trip is not open. *)
Settled == refreshInFlight # None /\ trip[refreshInFlight] = 0

(* refreshOnce up to the caller's await.  Three ways: the promise in       *)
(* flight is shared; it has settled already, and answers false at once;    *)
(* or there is none and the caller creates it, with a round trip when a    *)
(* refresh token is stored and with the answer false when it is not.       *)
JoinRefresh(a) ==
  /\ refreshInFlight # None /\ ~Settled
  /\ waitsOn' = [waitsOn EXCEPT ![a] = refreshInFlight]
  /\ UNCHANGED <<refreshInFlight, trip, netVars>>

(* POST /auth/refresh with the stored refresh token.                       *)
SendRefresh(a) ==
  /\ storage # 0
  /\ refreshInFlight' = a
  /\ trip' = [trip EXCEPT ![a] = storage]
  /\ requests' = [requests EXCEPT ![storage] = @ + 1]
  /\ waitsOn' = [waitsOn EXCEPT ![a] = a]
  /\ UNCHANGED <<granted, received>>

(* Mutant: refreshOnce without its first line, a round trip per 401.       *)
AwaitOwnRefresh(a) == SendRefresh(a)

StartRefresh(a) == refreshInFlight = None /\ SendRefresh(a)

AwaitRefresh(a) == JoinRefresh(a) \/ StartRefresh(a)

(* The early return for a missing refresh token stands before the `try`    *)
(* whose `finally` resets refreshInFlight: the settled promise stays.      *)
RefreshFalse(a) ==
  /\ Settled \/ (refreshInFlight = None /\ storage = 0)
  /\ refreshInFlight' = IF Settled THEN refreshInFlight ELSE a
  /\ UNCHANGED <<trip, waitsOn, netVars>>

----------------------------------------------------------------------------
(* The user and the clock.                                                 *)

(* The login form is shown while the tab holds no session.  Its answer     *)
(* comes later, whatever the tab holds by then.                            *)
SubmitLogin ==
  /\ storage = 0 /\ ~signingIn
  /\ signingIn' = TRUE
  /\ UNCHANGED <<storage, serverVars, refreshVars, callVars, streamVars, countVars>>

LoginGranted ==
  /\ signingIn /\ issued < MaxPairs
  /\ signingIn' = FALSE
  /\ issued' = issued + 1
  /\ StorePair(issued + 1)
  /\ UNCHANGED <<parent, staleAccess, staleRefresh, refreshVars, callVars,
                 streamVars, countVars>>

(* Mutant: a logout that also forgets the promise in flight.               *)
LogoutForgetsRefresh ==
  /\ storage # 0
  /\ ClearSession
  /\ refreshInFlight' = None
  /\ UNCHANGED <<signingIn, serverVars, trip, waitsOn, netVars, callVars, retried, countVars>>

LoginFailed ==
  /\ signingIn
  /\ signingIn' = FALSE
  /\ UNCHANGED <<storage, serverVars, refreshVars, callVars, streamVars, countVars>>

Logout ==
  /\ storage # 0
  /\ ClearSession
  /\ UNCHANGED <<signingIn, serverVars, refreshVars, callVars, retried, countVars>>

(* The access token of a pair expires first: its lifetime is the shorter.  *)
ExpireAccess(p) ==
  /\ p \in (1 .. issued) \ staleAccess
  /\ staleAccess' = staleAccess \cup {p}
  /\ UNCHANGED <<storage, signingIn, issued, parent, staleRefresh, refreshVars,
                 callVars, streamVars, countVars>>

ExpireRefresh(p) ==
  /\ p \in staleAccess \ staleRefresh
  /\ staleRefresh' = staleRefresh \cup {p}
  /\ UNCHANGED <<storage, signingIn, issued, parent, staleAccess, refreshVars,
                 callVars, streamVars, countVars>>

----------------------------------------------------------------------------
(* apiFetch.                                                               *)

(* The first attempt carries the token stored at this moment; the screens  *)
(* that call are mounted only with a session.                              *)
Call(c) ==
  /\ pc[c] = "idle" /\ storage # 0 /\ calls < MaxCalls
  /\ calls' = calls + 1
  /\ pc' = [pc EXCEPT ![c] = "first"]
  /\ sent' = [sent EXCEPT ![c] = storage]
  /\ UNCHANGED <<storage, signingIn, serverVars, refreshVars, streamVars, drops>>

(* apiFetch returns or throws, and its request is forgotten.               *)
Return(C) ==
  /\ pc' = [c \in Caller |-> IF c \in C THEN "idle" ELSE pc[c]]
  /\ sent' = [c \in Caller |-> IF c \in C THEN 0 ELSE sent[c]]

(* An answer that is no 401, or a request that fails on the way: the call  *)
(* returns or throws and the session is left alone.                        *)
Answered(c) ==
  /\ pc[c] \in {"first", "second"}
  /\ Return({c})
  /\ UNCHANGED <<storage, signingIn, serverVars, refreshVars, streamVars, countVars>>

(* The server refuses the token: it has expired.                           *)
Refused(c) == sent[c] \in staleAccess

(* A 401 to the first attempt: the call awaits the shared refresh ...      *)
FirstRefusal(c) ==
  /\ pc[c] = "first" /\ Refused(c)
  /\ AwaitRefresh(c)
  /\ pc' = [pc EXCEPT ![c] = "waiting"]
  /\ UNCHANGED <<storage, signingIn, serverVars, sent, streamVars, countVars>>

(* ... or, when that answers false at once, signs the user out.            *)
GiveUp(c) ==
  /\ pc[c] = "first" /\ Refused(c)
  /\ RefreshFalse(c)
  /\ ClearSession
  /\ Return({c})
  /\ UNCHANGED <<signingIn, serverVars, retried, countVars>>

(* A 401 to the retry signs the user out.                                  *)
SecondRefusal(c) ==
  /\ pc[c] = "second" /\ Refused(c)
  /\ ClearSession
  /\ Return({c})
  /\ UNCHANGED <<signingIn, serverVars, refreshVars, retried, countVars>>

----------------------------------------------------------------------------
(* The round trip of the refresh: the server's part, then the browser's,   *)
(* whose task resumes every waiter.                                        *)

Waiting(a) == {x \in Actor : waitsOn[x] = a}

(* finally: the promise is forgotten, and its waiters are released.        *)
Release(a) ==
  /\ trip' = [trip EXCEPT ![a] = 0]
  /\ granted' = [granted EXCEPT ![a] = 0]
  /\ refreshInFlight' = None
  /\ waitsOn' = [x \in Actor |-> IF x \in Waiting(a) THEN None ELSE waitsOn[x]]
  /\ UNCHANGED requests

(* The server handles a request that presents p: it issues a new pair.     *)
(* The browser may have given the request up: then its answer goes nowhere.*)
(* A request that is never handled is lost, or waits for p to expire.      *)
Exchange(p) ==
  /\ requests[p] > 0 /\ p \notin staleRefresh
  /\ issued < MaxPairs
  /\ requests' = [requests EXCEPT ![p] = @ - 1]
  /\ issued' = issued + 1
  /\ parent' = [parent EXCEPT ![issued + 1] = p]
  /\ granted' = [a \in Actor |-> IF trip[a] = p /\ granted[a] = 0
                                  THEN issued + 1 ELSE granted[a]]
  /\ UNCHANGED <<storage, signingIn, staleAccess, staleRefresh, refreshInFlight, trip,
                 waitsOn, received, callVars, streamVars, countVars>>

(* The answer arrives with a new pair: the calls retry with it, and the    *)
(* streams still open reconnect with it, once.                             *)
RefreshGranted(a) ==
  /\ granted[a] # 0
  /\ StorePair(granted[a])
  /\ received' = received \cup {granted[a]}
  /\ Release(a)
  /\ pc' = [c \in Caller |-> IF c \in Waiting(a) THEN "second" ELSE pc[c]]
  /\ sent' = [c \in Caller |-> IF c \in Waiting(a) THEN granted[a] ELSE sent[c]]
  /\ LET back == {s \in Stream : s \in Waiting(a) /\ conn[s] = "refreshing"}
     IN /\ conn' = [s \in Stream |-> IF s \in back THEN Connected(granted[a]) ELSE conn[s]]
        /\ retried' = [s \in Stream |-> s \in back \/ retried[s]]
  /\ UNCHANGED <<signingIn, serverVars, countVars>>

(* Mutant: the usual queue of waiting requests, resumed by a grant only.   *)
RefreshFailedDropsQueue(a) ==
  /\ trip[a] # 0
  /\ trip' = [trip EXCEPT ![a] = 0]
  /\ granted' = [granted EXCEPT ![a] = 0]
  /\ refreshInFlight' = None
  /\ waitsOn' = [waitsOn EXCEPT ![a] = None]
  /\ Return({a})
  /\ ClearSession
  /\ UNCHANGED <<signingIn, serverVars, requests, received, retried, countVars>>

(* The refresh token is refused, the round trip fails on its way there or  *)
(* on its way back, or the body cannot be read: the browser cannot tell    *)
(* whether the token was exchanged.  A waiting call signs the user out; a  *)
(* waiting stream shows its error and stays closed, and the old pair stays *)
(* stored when no call waits.                                              *)
RefreshFailed(a) ==
  /\ trip[a] # 0
  /\ Release(a)
  /\ Return(Waiting(a))
  /\ \/ Waiting(a) \cap Caller # {} /\ ClearSession
     \/ /\ Waiting(a) \cap Caller = {}
        /\ conn' = [s \in Stream |-> IF s \in Waiting(a) THEN "closed" ELSE conn[s]]
        /\ UNCHANGED storage
  /\ UNCHANGED <<signingIn, serverVars, received, retried, countVars>>

(* The page is loaded again: sessionStorage and the requests on their way  *)
(* are all that is left of it.                                             *)
Reload ==
  /\ signingIn' = FALSE
  /\ refreshInFlight' = None
  /\ trip' = [a \in Actor |-> 0]
  /\ granted' = [a \in Actor |-> 0]
  /\ waitsOn' = [a \in Actor |-> None]
  /\ Return(Caller)
  /\ CloseStreams
  /\ UNCHANGED <<storage, serverVars, requests, received, retried, countVars>>

----------------------------------------------------------------------------
(* The streams.                                                            *)

(* A screen opens a stream: a handle whose refresh is still on its way     *)
(* belongs to a stream that was closed, and is not reused before it ends.  *)
OpenStream(s) ==
  /\ conn[s] = "closed" /\ waitsOn[s] = None /\ storage # 0
  /\ conn' = [conn EXCEPT ![s] = Connected(storage)]
  /\ retried' = [retried EXCEPT ![s] = FALSE]
  /\ UNCHANGED <<storage, signingIn, serverVars, refreshVars, callVars, countVars>>

(* An event arrives: data is flowing, a later refresh is allowed again.    *)
StreamData(s) ==
  /\ conn[s] = "open" /\ retried[s]
  /\ retried' = [retried EXCEPT ![s] = FALSE]
  /\ UNCHANGED <<storage, signingIn, serverVars, refreshVars, callVars, conn, countVars>>

(* A terminal event, or the screen leaves: the stream is closed for good.  *)
StreamClose(s) ==
  /\ conn[s] # "closed"
  /\ conn' = [conn EXCEPT ![s] = "closed"]
  /\ UNCHANGED <<storage, signingIn, serverVars, refreshVars, callVars, retried, countVars>>

(* onerror: the connection is lost, the stream awaits the shared refresh.  *)
Dropping(s) == conn[s] \in {"open", "refused"} /\ drops < MaxDrops /\ drops' = drops + 1

StreamError(s) ==
  /\ Dropping(s) /\ ~retried[s]
  /\ AwaitRefresh(s)
  /\ conn' = [conn EXCEPT ![s] = "refreshing"]
  /\ UNCHANGED <<storage, signingIn, serverVars, callVars, retried, calls>>

(* onerror with no refresh to wait for: after a retry that delivered       *)
(* nothing, or when the refresh answers false at once.                     *)
StreamLost(s) ==
  /\ Dropping(s)
  /\ \/ retried[s] /\ UNCHANGED refreshVars
     \/ ~retried[s] /\ RefreshFalse(s)
  /\ conn' = [conn EXCEPT ![s] = "closed"]
  /\ UNCHANGED <<storage, signingIn, serverVars, callVars, retried, calls>>

----------------------------------------------------------------------------
Next ==
  \/ SubmitLogin \/ LoginGranted \/ LoginFailed \/ Logout \/ Reload
  \/ \E p \in Pair : ExpireAccess(p) \/ ExpireRefresh(p) \/ Exchange(p)
  \/ \E c \in Caller : \/ Call(c) \/ Answered(c) \/ FirstRefusal(c)
                       \/ GiveUp(c) \/ SecondRefusal(c)
  \/ \E a \in Actor : RefreshGranted(a) \/ RefreshFailed(a)
  \/ \E s \in Stream : \/ OpenStream(s) \/ StreamData(s) \/ StreamClose(s)
                       \/ StreamError(s) \/ StreamLost(s)

(* Every request is answered or fails: fetch settles in the end.  Nothing  *)
(* obliges the user, the clock, the server or the streams.                 *)
Fairness ==
  /\ \A c \in Caller : WF_vars(Answered(c) \/ FirstRefusal(c) \/ GiveUp(c) \/ SecondRefusal(c))
  /\ \A a \in Actor : WF_vars(RefreshGranted(a) \/ RefreshFailed(a))

Spec == Init /\ [][Next]_vars /\ Fairness

----------------------------------------------------------------------------
(* Properties.                                                             *)

(* However many calls and streams meet an expired token at once, one       *)
(* refresh round trip is under way: refreshOnce shares its promise.        *)
SingleFlight == Cardinality({a \in Actor : trip[a] # 0}) <= 1

(* Nobody waits for a refresh that will not answer: whoever awaits a       *)
(* promise awaits the one refreshInFlight holds, whose round trip is open, *)
(* across logouts, logins and screens that close in between.               *)
WaitersHaveTrip ==
  \A a \in Actor : waitsOn[a] # None =>
    waitsOn[a] = refreshInFlight /\ trip[refreshInFlight] # 0

(* A token that has brought a new pair is used up: once the browser has    *)
(* received the pair, its refresh token is never presented again and so    *)
(* brings no second one, however many calls and streams met the expiry at  *)
(* different moments.  A refresh whose answer is lost or unreadable is the *)
(* exception the code makes: the token stays, and is presented again.      *)
RenewedOnce ==
  \A p \in received : /\ \A a \in Actor : trip[a] # parent[p]
                      /\ \A q \in received : parent[q] = parent[p] => q = p

(* apiFetch returns or throws: no call is left waiting for its answer, for *)
(* the shared refresh or for its retry.                                    *)
CallsEnd == \A c \in Caller : pc[c] # "idle" ~> pc[c] = "idle"

(* The inductive invariant of the session, in parts.                       *)

(* Only the creator of the promise in flight has a round trip open.        *)
OneTrip == \A a \in Actor : trip[a] # 0 => refreshInFlight = a

(* Pairs are exchanged for later ones, and only pairs that were issued.    *)
Ancestry ==
  /\ \A p \in Pair : parent[p] < p
  /\ \A p \in Pair : p > issued => parent[p] = 0 /\ requests[p] = 0
  /\ \A p \in received : parent[p] # 0

(* A pair on its way to the browser answers the open trip, and nobody has  *)
(* used it.                                                                *)
Fresh ==
  \A a \in Actor : granted[a] # 0 =>
    /\ trip[a] # 0 /\ parent[granted[a]] = trip[a]
    /\ granted[a] # storage /\ requests[granted[a]] = 0
    /\ \A p \in Pair : parent[p] # granted[a]

(* The stored pair has not brought a new one.                              *)
Unspent == \A p \in received : parent[p] # storage

SessionInv ==
  /\ TypeOK
  /\ OneTrip
  /\ WaitersHaveTrip
  /\ Ancestry
  /\ Fresh
  /\ Unspent
  /\ RenewedOnce

(* api.ts, lines 5 to 8: a 401 triggers one refresh attempt.  A call that  *)
(* is refused for the first time while a refresh token is stored does not  *)
(* sign the user out before a refresh has been attempted.                  *)
RefreshIsAttempted ==
  [][\A c \in Caller : pc[c] = "first" /\ pc'[c] = "idle" => storage' = storage]_vars
=============================================================================
