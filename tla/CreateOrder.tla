----------------------------- MODULE CreateOrder -----------------------------
(***************************************************************************)
(* Making an order through OnSinch's API (apiCreateOrder and the client's  *)
(* createOrder): the client's company is found or made, then the order is  *)
(* posted once, and an answer that was lost is settled by looking for the  *)
(* order by its name.  OnSinch has no idempotency key, may apply a request *)
(* whose answer is lost or a 5xx, and may show an order only later.        *)
(*                                                                         *)
(* Several calls run at once, in several warm processes: bookings, their   *)
(* retries under the same name, and the bot's daily canary, which makes a  *)
(* bench order by the same call and deletes it.  Time is in ticks of five  *)
(* minutes, the life of the company list in a process and the tolerance of *)
(* the search.                                                             *)
(***************************************************************************)
EXTENDS Integers, FiniteSets, Sequences, FiniteSetsExt

CONSTANTS
    Call,       \* calls of createOrder
    Name,       \* Name[c] is what the order of c is called
    Canary,     \* the calls the canary makes
    NewClient,  \* the calls for the one client that OnSinch may not hold yet
    Process,    \* Process[c] is the process c runs in
    Warm,       \* the processes that hold a list pulled before
    MaxCalls,   \* bound on the calls that begin
    MaxTime     \* bound on time

Processes == {Process[c] : c \in Call}

ASSUME CreateAssumption ==
    /\ DOMAIN Name = Call /\ DOMAIN Process = Call
    /\ Canary \subseteq Call /\ NewClient \subseteq Call /\ Warm \subseteq Processes
    /\ \A c \in Call, k \in Canary : Name[c] = Name[k] => c \in Canary
    /\ {MaxCalls, MaxTime} \subseteq Nat

VARIABLES
    now,
    orders,     \* OnSinch's orders, by id
    companies,  \* OnSinch's records of the new client
    cache,      \* each process's list of companies, and when it was pulled
    call        \* the locals of each call

createVars == <<now, orders, companies, cache, call>>

NoList == [at |-> -1, ids |-> {}]
NotBegun == [pc |-> "idle", began |-> 0, since |-> 0, reads |-> 0, unseen |-> {}, order |-> 0]

CreatePC == {"idle", "company", "prepare", "post", "lost", "probe", "repost", "done", "threw"}

CreateTypeOK ==
    /\ now \in 0..MaxTime
    /\ \A i \in DOMAIN orders : orders[i] \in [by : Call, at : 0..now, shown : BOOLEAN, live : BOOLEAN]
    /\ \A i \in DOMAIN companies : companies[i] \in [by : Call, at : 0..now]
    /\ \A s \in Processes : cache[s].at \in -1..now /\ cache[s].ids \subseteq DOMAIN companies
    /\ \A c \in Call :
         LET l == call[c] IN
         /\ l.pc \in CreatePC /\ l.began \in 0..now /\ l.since \in 0..now /\ l.reads \in 0..1
         /\ l.unseen \subseteq DOMAIN orders
         /\ l.order \in {0} \cup DOMAIN orders
         /\ l.pc = "done" => l.order # 0

CreateInit ==
    /\ now = 0
    /\ orders = <<>>
    /\ companies = <<>>
    /\ cache = [s \in Processes |-> [at |-> IF s \in Warm THEN 0 ELSE -1, ids |-> {}]]
    /\ call = [c \in Call |-> NotBegun]

Begun == {c \in Call : call[c].pc # "idle"}
Running(c) == call[c].pc \notin {"idle", "done", "threw"}

Goto(c, pc) == call' = [call EXCEPT ![c].pc = pc]
Throw(c) == call' = [call EXCEPT ![c] = [NotBegun EXCEPT !.pc = "threw", !.unseen = call[c].unseen]]
Return(c, order) ==
    call' = [call EXCEPT ![c] = [NotBegun EXCEPT !.pc = "done", !.since = call[c].since, !.unseen = call[c].unseen, !.order = order]]

(* An invocation comes to the create: for a new client with the company list, otherwise with the client's defaults. *)
Starts(c, step) ==
    \/ call[c].pc = step
    \/ /\ call[c].pc = "idle" /\ step = IF c \in NewClient THEN "list" ELSE "prepare"
       /\ Cardinality(Begun) < MaxCalls

Began(c) == IF call[c].pc = "idle" THEN now ELSE call[c].began

-----------------------------------------------------------------------------
(* The company: found in the list (a process keeps the list it pulled for a tick) or made.  A list that *)
(* cannot be read is a throw, never an empty one.                                                       *)

(* Mutant: a list is kept for the life of the process. *)
FreshEver(list) == list.at # -1
Fresh(list) == list.at # -1 /\ now - list.at <= 1

Chosen(c, ids) ==
    call' = [call EXCEPT ![c].pc = IF ids = {} THEN "company" ELSE "prepare", ![c].began = now]

CachedList(c) ==
    /\ Starts(c, "list") /\ Fresh(cache[Process[c]])
    /\ Chosen(c, cache[Process[c]].ids)
    /\ UNCHANGED <<now, orders, companies, cache>>

PullList(c) ==
    /\ Starts(c, "list") /\ ~Fresh(cache[Process[c]])
    /\ \/ /\ cache' = [cache EXCEPT ![Process[c]] = [at |-> now, ids |-> DOMAIN companies]]
          /\ Chosen(c, DOMAIN companies)
       \/ /\ Throw(c)
          /\ UNCHANGED cache
    /\ UNCHANGED <<now, orders, companies>>

(* A POST is never repeated; one that threw may have been applied. *)
CreateCompany(c) ==
    LET made == Append(companies, [by |-> c, at |-> now])
        known == cache[Process[c]]
    IN
    /\ call[c].pc = "company"
    /\ \/ /\ companies' = made
          /\ cache' = [cache EXCEPT ![Process[c]] = IF known = NoList THEN known ELSE [known EXCEPT !.ids = @ \cup {Len(made)}]]
          /\ Goto(c, "prepare")
       \/ /\ companies' \in {companies, made}
          /\ Throw(c)
          /\ UNCHANGED cache
    /\ UNCHANGED <<now, orders>>

(* The client's contact and card are read and the venues OnSinch lacks are made, each a request that may throw. *)
Prepare(c) ==
    /\ Starts(c, "prepare")
    /\ \/ call' = [call EXCEPT ![c].pc = "post", ![c].began = Began(c), ![c].since = now]
       \/ Throw(c)
    /\ UNCHANGED <<now, orders, companies, cache>>

-----------------------------------------------------------------------------
(* The order. *)

Made(c, shown) == Append(orders, [by |-> c, at |-> now, shown |-> shown, live |-> TRUE])

(* POST /orders: what OnSinch did, and what the caller hears of it. *)
PostOrder(c, onThrow, on5xx) ==
    \/ \E shown \in BOOLEAN :
         /\ orders' = Made(c, shown)
         /\ Return(c, Len(orders) + 1)
    \/ /\ orders' \in {orders} \cup {Made(c, shown) : shown \in BOOLEAN}
       /\ onThrow \/ Goto(c, on5xx)
    \/ /\ orders' = orders  \* refused, or a 201 without an id
       /\ Throw(c)

Post(c) ==
    /\ call[c].pc = "post"
    /\ PostOrder(c, Goto(c, "lost"), "probe")
    /\ UNCHANGED <<now, companies, cache>>

(* Mutants: any order of the name; any order of about that time. *)
MatchesEver(c) == {i \in DOMAIN orders : orders[i].shown /\ orders[i].live /\ Name[orders[i].by] = Name[c]}
MatchesAnyName(c) == {i \in DOMAIN orders : orders[i].shown /\ orders[i].live /\ orders[i].at >= call[c].since - 1}

(* findLostCreate: the orders of that name, no older than five minutes before the call. *)
Matches(c) ==
    {i \in DOMAIN orders :
        /\ orders[i].shown /\ orders[i].live
        /\ Name[orders[i].by] = Name[c]
        /\ orders[i].at >= call[c].since - 1}

Adopt(c, ids) == Return(c, Max(ids))

(* After an answer that never came: one look, and its failure is taken for absence. *)
LookForLost(c) ==
    /\ call[c].pc = "lost"
    /\ \/ Matches(c) # {} /\ Adopt(c, Matches(c))
       \/ Throw(c)
    /\ UNCHANGED <<now, orders, companies, cache>>

(* Mutant: a look that failed is an answer of "absent". *)
ProbeAnyway(c) ==
    LET ids == Matches(c) IN
    /\ call[c].pc = "probe"
    /\ \/ /\ ids # {} /\ Adopt(c, ids)
       \/ /\ call' = [call EXCEPT ![c].reads = (@ + 1) % 2, ![c].pc = IF call[c].reads = 1 THEN "repost" ELSE "probe"]
    /\ UNCHANGED <<now, orders, companies, cache>>

(* After a 5xx: two looks, a failed one ends the call, and only two answers of "absent" let it post again. *)
Probe(c) ==
    LET ids == Matches(c) IN
    /\ call[c].pc = "probe"
    /\ \/ /\ ids # {} /\ Adopt(c, ids)
       \/ /\ ids = {}
          /\ call' = [call EXCEPT ![c].reads = (@ + 1) % 2,
                                  ![c].pc = IF call[c].reads = 1 THEN "repost" ELSE "probe",
                                  ![c].unseen = {i \in DOMAIN orders : orders[i].by = c /\ ~orders[i].shown}]
       \/ Throw(c)
    /\ UNCHANGED <<now, orders, companies, cache>>

(* The one re-post: an answer that never comes is thrown on, a 5xx is looked for once. *)
Repost(c) ==
    /\ call[c].pc = "repost"
    /\ PostOrder(c, Throw(c), "lost")
    /\ UNCHANGED <<now, companies, cache>>

(* The canary deletes what it was given; a failure to is swallowed. *)
Drop(c) ==
    /\ c \in Canary /\ call[c].pc = "done" /\ orders[call[c].order].live
    /\ orders' = [orders EXCEPT ![call[c].order].live = FALSE]
    /\ UNCHANGED <<now, companies, cache, call>>

-----------------------------------------------------------------------------
(* OnSinch shows an order it had applied; it matters while a call may look for it. *)
Show(i) ==
    /\ ~orders[i].shown /\ \E c \in Call : Running(c) /\ Name[c] = Name[orders[i].by]
    /\ orders' = [orders EXCEPT ![i].shown = TRUE]
    /\ UNCHANGED <<now, companies, cache, call>>

(* An invocation lives a tick at most; time matters while a call runs or is to come. *)
CreateTick ==
    /\ now < MaxTime
    /\ Cardinality(Begun) < MaxCalls \/ \E c \in Call : Running(c)
    /\ \A c \in Call : Running(c) => call[c].began = now
    /\ now' = now + 1
    /\ UNCHANGED <<orders, companies, cache, call>>

CallStep(c) ==
    \/ CachedList(c) \/ PullList(c) \/ CreateCompany(c) \/ Prepare(c)
    \/ Post(c) \/ LookForLost(c) \/ Probe(c) \/ Repost(c) \/ Drop(c)

CreateNext ==
    \/ CreateTick
    \/ \E i \in DOMAIN orders : Show(i)
    \/ \E c \in Call : CallStep(c)

CreateSpec == CreateInit /\ [][CreateNext]_createVars

-----------------------------------------------------------------------------
OrdersOf(c) == {i \in DOMAIN orders : orders[i].by = c}

(* A booking's call makes a second order only when OnSinch had applied the first, answered 5xx and hidden it  *)
(* from both reads: the residual risk createOrder states (onsinch.ts:307-309).  A search that was not         *)
(* answered, or an answer that never came, never lets it post again.  (Every canary's order has one name,     *)
(* canary.ts:29: a second canary may delete the order that the first still looks for.)                        *)
OneOrderPerCall ==
    \A c \in Call \ Canary :
        /\ Cardinality(OrdersOf(c)) <= 2
        /\ Cardinality(OrdersOf(c)) = 2 => Min(OrdersOf(c)) \in call[c].unseen

(* What a call returns is an order of its own booking made about then, be it by another call of the same name: *)
(* a name used long ago is not adopted.                                                                        *)
ReturnsItsBooking ==
    \A c \in Call :
        call[c].pc = "done" =>
            LET o == orders[call[c].order] IN
            Name[o.by] = Name[c] /\ (o.by = c \/ o.at >= call[c].since - 1)

(* The canary deletes nobody's booking, although what it deletes is whatever its create came back with. *)
NoBookingDropped == \A i \in DOMAIN orders : ~orders[i].live => orders[i].by \in Canary

(* A client is made twice only by calls within minutes of each other: one that begins when the lists that lack *)
(* it have run out finds it, whoever made it and whether or not the answer arrived (onsinch.ts:138-150).       *)
FoundTheNextTime ==
    \A i, j \in DOMAIN companies : companies[i].at - companies[j].at <= 2
=============================================================================
