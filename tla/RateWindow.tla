----------------------------- MODULE RateWindow -----------------------------
(***************************************************************************)
(* The limit per minute: middleware/clientRateLimiter.ts over the node     *)
(* cache of its process.  A counter is a value with a lifetime; every      *)
(* accepted request writes it again with a whole window to live, a refused *)
(* one leaves it alone.  The read and the write of one request follow each *)
(* other without another request in between: the cache answers in memory.  *)
(***************************************************************************)
EXTENDS Integers

CONSTANTS
    Counters,   \* cache keys: of the client on each process, or of a path
    Window,     \* the 60 s of a counter
    Plans       \* limits a tier or a custom limiter may have

ASSUME WindowAssumption == Window \in Nat \ {0}
\* The column is an INT: of the limits it may hold one is the greatest.
ASSUME PlansAssumption == Plans \subseteq Nat /\ \E n \in Plans : \A m \in Plans : m <= n

VARIABLES
    limit,      \* max_api_calls_per_minute of the client's tier
    sincePlan,  \* history: time since the limit changed
    counter,    \* [Counters -> [count, left]]
    accepted    \* history: [Counters -> [age -> requests accepted since then]]

rateVars == <<limit, sincePlan, counter, accepted>>

NoCounter == [count |-> 0, left |-> 0]
MaxPlan == CHOOSE n \in Plans : \A m \in Plans : m <= n
Ages == 0..(Window - 1)

\* nodeCache.get(key) || 0: an entry whose lifetime is over is no entry.
CurrentCount(k) == IF counter[k].left > 0 THEN counter[k].count ELSE 0

\* Mutant: a window that is not renewed.
StoreCountFixed(k, n) ==
    counter' = [counter EXCEPT ![k] = [count |-> n, left |-> IF @.left > 0 THEN @.left ELSE Window]]

\* nodeCache.set(key, value, 60).
StoreCount(k, n) == counter' = [counter EXCEPT ![k] = [count |-> n, left |-> Window]]

\* Requests accepted in the last Window.
AcceptedLately(k) == accepted[k][Window - 1]

-----------------------------------------------------------------------------
RateInit ==
    /\ limit \in Plans
    /\ sincePlan = Window
    /\ counter = [k \in Counters |-> NoCounter]
    /\ accepted = [k \in Counters |-> [age \in Ages |-> 0]]

Refuses(k) == CurrentCount(k) >= limit

AcceptRequest(k) ==
    /\ ~Refuses(k)
    /\ StoreCount(k, CurrentCount(k) + 1)
    /\ accepted' = [accepted EXCEPT ![k] = [age \in Ages |-> @[age] + 1]]
    /\ UNCHANGED <<limit, sincePlan>>

\* Mutant: a refusal that writes the counter again too.
RefuseAndRenew(k) ==
    /\ Refuses(k)
    /\ StoreCount(k, CurrentCount(k))
    /\ UNCHANGED <<limit, sincePlan, accepted>>

RefuseRequest(k) ==
    /\ Refuses(k)
    /\ UNCHANGED rateVars

\* The client is given another tier, or the tier another limit.
ChangePlan(n) ==
    /\ n # limit
    /\ limit' = n
    /\ sincePlan' = 0
    /\ UNCHANGED <<counter, accepted>>

\* The process of a counter starts again.
CounterLost(k) ==
    /\ counter' = [counter EXCEPT ![k] = NoCounter]
    /\ accepted' = [accepted EXCEPT ![k] = [age \in Ages |-> 0]]
    /\ UNCHANGED <<limit, sincePlan>>

RateTick ==
    /\ counter' = [k \in Counters |-> IF counter[k].left > 1 THEN [counter[k] EXCEPT !.left = @ - 1]
                                      ELSE NoCounter]
    /\ accepted' = [k \in Counters |-> [age \in Ages |-> IF age = 0 THEN 0 ELSE accepted[k][age - 1]]]
    /\ sincePlan' = IF sincePlan < Window THEN sincePlan + 1 ELSE Window
    /\ UNCHANGED limit

RateNext ==
    \/ \E k \in Counters : AcceptRequest(k) \/ RefuseRequest(k) \/ CounterLost(k)
    \/ \E n \in Plans : ChangePlan(n)
    \/ RateTick

RateSpec == RateInit /\ [][RateNext]_rateVars

-----------------------------------------------------------------------------
\* Types.
RateTypeOK ==
    /\ limit \in Plans
    /\ sincePlan \in 0..Window
    /\ counter \in [Counters -> [count : 0..MaxPlan, left : 0..Window]]
    /\ accepted \in [Counters -> [Ages -> 0..MaxPlan]]

\* Whatever the times of the requests, a process accepts in no window more than
\* the plan allows, once the plan has been the same for a window.
RateBound == sincePlan = Window => \A k \in Counters : AcceptedLately(k) <= limit

\* "or wait": a client that has been served nothing for a window is served,
\* however many requests it has been refused meanwhile.
WaitingHelps == limit > 0 => \A k \in Counters : AcceptedLately(k) = 0 => ~Refuses(k)
=============================================================================
