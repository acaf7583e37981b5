---------------------------- MODULE OnSinch_proofs ----------------------------
(***************************************************************************)
(* Proofs about what is kept with OnSinch.  First CreateOrder, for any     *)
(* calls in any processes, any names and any stretch of time: an order     *)
(* belongs to the call that posted it; what a step of a call adds is the   *)
(* newest order and its own (Grown), so the invariant is a part for each   *)
(* call (Mine) and one for the tables.  Then Mirror, for any timeline, any *)
(* page size and page limit and any number of overlapping pulls that stop  *)
(* anywhere.  Two invariants: RowsCovered, that every place a pull or the      *)
(* cursor has come to has all the rows behind it stored, and Known, that a *)
(* pull marks only what it saw was deleted.                                *)
(***************************************************************************)
EXTENDS CreateOrder, Mirror, FiniteSetTheorems, WellFoundedInduction, TLAPS

Order == [by : Call, at : 0..MaxTime, shown : BOOLEAN, live : BOOLEAN]
Company == [by : Call, at : 0..MaxTime]
CompanyList == [at : -1..MaxTime, ids : SUBSET Nat]
CallState == [pc : CreatePC, began : 0..MaxTime, since : 0..MaxTime, reads : 0..1,
              unseen : SUBSET Nat, order : Nat]

OrdersTyped ==
  /\ now \in 0..MaxTime
  /\ orders \in Seq(Order) /\ \A i \in DOMAIN orders : orders[i].at <= now
  /\ companies \in Seq(Company) /\ \A i \in DOMAIN companies : companies[i].at <= now
  /\ cache \in [Processes -> CompanyList]
  /\ call \in [Call -> CallState]

\* A list is of companies there are; one without any was pulled before the first was made.
CacheOk ==
  \A s \in Processes :
    /\ cache[s].at <= now /\ cache[s].ids \subseteq DOMAIN companies
    /\ cache[s].at # -1 /\ cache[s].ids = {} => \A j \in DOMAIN companies : cache[s].at <= companies[j].at

\* No other call deletes what c makes: it is a booking's, or there is no second canary.
Alone(c) == \A k \in Canary : Name[k] = Name[c] => k = c

\* The second order of a call was posted when the first was hidden, and there is no third.
Twice(c) ==
  \A i, j \in OrdersOf(c) : i < j => i \in call[c].unseen /\ OrdersOf(c) = {i, j}

\* Where a call stands.
Local(c) ==
  /\ call[c].began <= now /\ call[c].since <= now
  /\ call[c].unseen \subseteq DOMAIN orders /\ call[c].order \in {0} \cup DOMAIN orders
  /\ Running(c) => now <= call[c].began + 1
  /\ call[c].pc = "company" => \A j \in DOMAIN companies : call[c].began <= companies[j].at + 1

\* What a call has posted.
Posted(c) ==
  /\ call[c].pc \in {"idle", "company", "prepare", "post"} => OrdersOf(c) = {}
  /\ call[c].pc \in {"probe", "repost"} => \A i, j \in OrdersOf(c) : i = j
  /\ \A i \in OrdersOf(c) : call[c].since <= orders[i].at
  /\ Alone(c) => /\ call[c].pc # "done" => \A i \in OrdersOf(c) : orders[i].live
                 /\ call[c].pc = "repost" => OrdersOf(c) \subseteq call[c].unseen
                 /\ Twice(c)

\* What a call returned.
Answered(c) ==
  call[c].pc = "done" =>
    /\ call[c].order \in DOMAIN orders
    /\ Name[orders[call[c].order].by] = Name[c]
    /\ orders[call[c].order].by = c \/ orders[call[c].order].at >= call[c].since - 1

Mine(c) == Local(c) /\ Posted(c) /\ Answered(c)

OrdersInv == /\ OrdersTyped /\ CacheOk /\ NoBookingDropped /\ FoundTheNextTime
        /\ \A c \in Call : Mine(c)

-----------------------------------------------------------------------------
LEMMA LeastRow ==
  ASSUME NEW S, S \subseteq Nat, S # {}
  PROVE  \E x \in S : \A y \in S : x <= y
<1> DEFINE R == OpToRel(<, Nat)
<1>1. IsWellFoundedOn(R, Nat)
  BY NatLessThanWellFounded
<1>2. \A x, y \in Nat : y < x => <<y, x>> \in R
  BY DEF OpToRel
<1> HIDE DEF R
<1>3. PICK x \in S : \A y \in S : ~ (<<y, x>> \in R)
  BY <1>1, WFMin
<1>4. \A y \in S : ~ (y < x)
  BY <1>2, <1>3
<1>5. \A y \in S : x <= y
  BY <1>4
<1>6. QED BY <1>3, <1>5

\* The newest of some orders is one of them.
LEMMA NewestIsOne ==
  ASSUME NEW n \in Nat, NEW S, S \subseteq 1..n, S # {}
  PROVE  Max(S) \in S
<1> DEFINE T == {k \in Nat : n - k \in S}
<1>1. PICK x \in S : TRUE
  OBVIOUS
<1>2. n - x \in Nat /\ n - (n - x) = x
  OBVIOUS
<1>3. n - x \in T
  BY <1>2
<1>4. PICK t \in T : \A y \in T : t <= y
  BY <1>3, LeastRow
<1>5. ASSUME NEW y \in S PROVE n - t >= y
  <2>1. n - y \in T /\ y \in Nat
    OBVIOUS
  <2>2. t <= n - y /\ t \in Nat
    BY <2>1, <1>4
  <2>3. QED BY <2>1, <2>2
<1>6. n - t \in S /\ \A y \in S : n - t >= y
  BY <1>4, <1>5
<1>7. QED BY <1>6 DEF Max

\* Of the records in the tables.
LEMMA OrdersTypes ==
  ASSUME OrdersTyped
  PROVE  /\ now \in Nat /\ MaxTime \in Nat /\ MaxCalls \in Nat /\ now <= MaxTime
         /\ Len(orders) \in Nat /\ DOMAIN orders = 1..Len(orders)
         /\ Len(companies) \in Nat /\ DOMAIN companies = 1..Len(companies)
         /\ \A i \in DOMAIN orders : /\ i \in Nat \ {0} /\ orders[i] \in Order
                                     /\ orders[i].by \in Call /\ orders[i].at \in Nat
                                     /\ orders[i].shown \in BOOLEAN /\ orders[i].live \in BOOLEAN
         /\ \A i \in DOMAIN companies : /\ i \in Nat \ {0} /\ companies[i] \in Company
                                        /\ companies[i].at \in Nat
         /\ \A s \in Processes : cache[s] \in CompanyList
         /\ \A c \in Call : call[c] \in CallState
<1>1. now \in Nat /\ MaxTime \in Nat /\ MaxCalls \in Nat /\ now <= MaxTime
  BY CreateAssumption DEF OrdersTyped
<1>2. Len(orders) \in Nat /\ DOMAIN orders = 1..Len(orders) /\ \A i \in DOMAIN orders : orders[i] \in Order
  BY DEF OrdersTyped
<1>3. Len(companies) \in Nat /\ DOMAIN companies = 1..Len(companies)
      /\ \A i \in DOMAIN companies : companies[i] \in Company
  BY DEF OrdersTyped
<1>4. \A i \in DOMAIN orders : /\ i \in Nat \ {0} /\ orders[i].by \in Call /\ orders[i].at \in Nat
                               /\ orders[i].shown \in BOOLEAN /\ orders[i].live \in BOOLEAN
  BY <1>1, <1>2 DEF Order
<1>5. \A i \in DOMAIN companies : i \in Nat \ {0} /\ companies[i].at \in Nat
  BY <1>1, <1>3 DEF Company
<1>6. (\A s \in Processes : cache[s] \in CompanyList) /\ \A c \in Call : call[c] \in CallState
  BY DEF OrdersTyped
<1>7. QED BY <1>1, <1>2, <1>3, <1>4, <1>5, <1>6

LEMMA LocalTypes ==
  ASSUME OrdersTyped, NEW c \in Call
  PROVE  /\ call[c].pc \in CreatePC /\ call[c].began \in Nat /\ call[c].since \in Nat
         /\ call[c].began <= MaxTime /\ call[c].since <= MaxTime
         /\ call[c].reads \in 0..1 /\ call[c].unseen \subseteq Nat /\ call[c].order \in Nat
         /\ Process[c] \in Processes
<1>1. call[c] \in CallState /\ MaxTime \in Nat
  BY OrdersTypes
<1>2. QED BY <1>1 DEF CallState, Processes

LEMMA OrdersInitInv == CreateInit => OrdersInv
<1> SUFFICES ASSUME CreateInit PROVE OrdersInv
  OBVIOUS
<1> USE CreateAssumption DEF CreateInit
<1>1. NotBegun \in CallState
  BY DEF NotBegun, CallState, CreatePC
<1>2. orders = <<>> /\ companies = <<>> /\ DOMAIN orders = {} /\ DOMAIN companies = {}
  OBVIOUS
<1>3. cache \in [Processes -> CompanyList]
  BY DEF CompanyList
<1>4. now \in 0..MaxTime /\ orders \in Seq(Order) /\ companies \in Seq(Company)
  OBVIOUS
<1>5. call \in [Call -> CallState]
  BY <1>1
<1>6. OrdersTyped
  BY <1>2, <1>3, <1>4, <1>5 DEF OrdersTyped
<1>7. CacheOk
  BY <1>2, <1>3 DEF CacheOk
<1>8. NoBookingDropped /\ FoundTheNextTime
  BY <1>2 DEF NoBookingDropped, FoundTheNextTime
<1>9. ASSUME NEW c \in Call PROVE Mine(c)
  <2>1. call[c] = NotBegun /\ OrdersOf(c) = {}
    BY <1>2 DEF OrdersOf
  <2>2. QED BY <2>1, <1>2 DEF Mine, Local, Posted, Answered, Twice, NotBegun, Running
<1>10. QED BY <1>6, <1>7, <1>8, <1>9 DEF OrdersInv

-----------------------------------------------------------------------------
(* A step of a call.                                                        *)

\* What is new in the tables is the call's own, of now, and comes last.
Grown(c) ==
  /\ orders' \in Seq(Order) /\ DOMAIN orders \subseteq DOMAIN orders'
  /\ \A i \in DOMAIN orders : orders'[i] = orders[i]
  /\ \A i \in DOMAIN orders' \ DOMAIN orders :
       /\ orders'[i].by = c /\ orders'[i].at = now /\ orders'[i].live = TRUE
       /\ \A j \in DOMAIN orders : j < i
       /\ \A j \in DOMAIN orders' \ DOMAIN orders : j = i

CompaniesGrown ==
  /\ companies' \in Seq(Company) /\ DOMAIN companies \subseteq DOMAIN companies'
  /\ \A i \in DOMAIN companies : companies'[i] = companies[i]
  /\ \A i \in DOMAIN companies' \ DOMAIN companies : companies'[i].at = now

LEMMA NoneAdded == ASSUME OrdersTyped, NEW c \in Call, orders' = orders PROVE Grown(c)
BY DEF Grown, OrdersTyped

LEMMA NoCompanyAdded == ASSUME OrdersTyped, companies' = companies PROVE CompaniesGrown
BY DEF CompaniesGrown, OrdersTyped

LEMMA OrderAdded ==
  ASSUME OrdersTyped, NEW c \in Call, NEW shown \in BOOLEAN, orders' = Made(c, shown)
  PROVE  /\ Grown(c)
         /\ DOMAIN orders' = DOMAIN orders \cup {Len(orders) + 1}
         /\ Len(orders) + 1 \notin DOMAIN orders
         /\ orders'[Len(orders) + 1].by = c
<1> DEFINE o == [by |-> c, at |-> now, shown |-> shown, live |-> TRUE]
<1>1. o \in Order /\ o.by = c /\ o.at = now /\ o.live = TRUE
  BY DEF Order, OrdersTyped
<1>2. orders' = Append(orders, o) /\ orders \in Seq(Order)
  BY DEF Made, OrdersTyped
<1> HIDE DEF o
<1>3. /\ orders' \in Seq(Order) /\ Len(orders') = Len(orders) + 1 /\ Len(orders) \in Nat
      /\ \A i \in 1..Len(orders) : orders'[i] = orders[i]
      /\ orders'[Len(orders) + 1] = o
  BY <1>1, <1>2
<1>4. DOMAIN orders' = 1..Len(orders) + 1 /\ DOMAIN orders = 1..Len(orders)
  BY <1>2, <1>3
<1>5. DOMAIN orders' = DOMAIN orders \cup {Len(orders) + 1} /\ Len(orders) + 1 \notin DOMAIN orders
  BY <1>3, <1>4
<1>6. Grown(c)
  BY <1>1, <1>3, <1>4, <1>5 DEF Grown
<1>7. QED BY <1>1, <1>3, <1>5, <1>6

LEMMA CompanyAdded ==
  ASSUME OrdersTyped, NEW c \in Call, companies' = Append(companies, [by |-> c, at |-> now])
  PROVE  /\ CompaniesGrown
         /\ DOMAIN companies' = DOMAIN companies \cup {Len(companies) + 1}
         /\ Len(Append(companies, [by |-> c, at |-> now])) = Len(companies) + 1
<1> DEFINE o == [by |-> c, at |-> now]
<1>1. o \in Company /\ o.at = now
  BY DEF Company, OrdersTyped
<1>2. companies' = Append(companies, o) /\ companies \in Seq(Company)
  BY DEF OrdersTyped
<1> HIDE DEF o
<1>3. /\ companies' \in Seq(Company) /\ Len(companies') = Len(companies) + 1 /\ Len(companies) \in Nat
      /\ \A i \in 1..Len(companies) : companies'[i] = companies[i]
      /\ companies'[Len(companies) + 1] = o
  BY <1>1, <1>2
<1>4. DOMAIN companies' = 1..Len(companies) + 1 /\ DOMAIN companies = 1..Len(companies)
  BY <1>2, <1>3
<1>5. DOMAIN companies' = DOMAIN companies \cup {Len(companies) + 1}
  BY <1>3, <1>4
<1>6. CompaniesGrown
  BY <1>1, <1>3, <1>4, <1>5 DEF CompaniesGrown
<1>7. QED BY <1>2, <1>3, <1>5, <1>6 DEF o

\* The orders of another call are what they were.
LEMMA OthersOrders ==
  ASSUME OrdersTyped, NEW c \in Call, Grown(c), NEW d \in Call, d # c
  PROVE  /\ OrdersOf(d)' = OrdersOf(d)
         /\ \A i \in OrdersOf(d) : orders'[i] = orders[i]
BY DEF Grown, OrdersOf

LEMMA OthersKept ==
  ASSUME OrdersInv, now' = now, NEW c \in Call, Grown(c), CompaniesGrown,
         NEW d \in Call, d # c, call'[d] = call[d]
  PROVE  Mine(d)'
<1>1. OrdersTyped /\ Mine(d)
  BY DEF OrdersInv
<1>2. OrdersOf(d)' = OrdersOf(d) /\ \A i \in OrdersOf(d) : orders'[i] = orders[i]
  BY <1>1, OthersOrders
<1>3. call[d].began \in Nat /\ now \in Nat
  BY <1>1, LocalTypes, OrdersTypes
<1>4. Local(d)'
  BY <1>1, <1>3 DEF Mine, Local, Running, Grown, CompaniesGrown
<1>5. Posted(d)'
  BY <1>1, <1>2 DEF Mine, Posted, Alone, Twice
<1>6. Answered(d)'
  BY <1>1 DEF Mine, Answered, Grown
<1>7. QED BY <1>4, <1>5, <1>6 DEF Mine

\* A step of c that leaves c where the invariant says keeps it.
LEMMA CallMoves ==
  ASSUME OrdersInv, now' = now, NEW c \in Call, Grown(c), CompaniesGrown,
         NEW l \in CallState, call' = [call EXCEPT ![c] = l],
         cache' \in [Processes -> CompanyList], CacheOk', FoundTheNextTime', Mine(c)'
  PROVE  OrdersInv'
<1>1. OrdersTyped
  BY DEF OrdersInv
<1>2. call' \in [Call -> CallState] /\ \A d \in Call : d # c => call'[d] = call[d]
  BY <1>1 DEF OrdersTyped
<1>3. \A d \in Call : Mine(d)'
  BY <1>2, OthersKept
<1>4. \A i \in DOMAIN orders' : orders'[i].at <= now
  BY <1>1, OrdersTypes DEF OrdersTyped, Grown
<1>5. \A i \in DOMAIN companies' : companies'[i].at <= now
  BY <1>1, OrdersTypes DEF OrdersTyped, CompaniesGrown
<1>6. OrdersTyped'
  BY <1>1, <1>2, <1>4, <1>5 DEF OrdersTyped, Grown, CompaniesGrown
<1>7. NoBookingDropped'
  BY DEF OrdersInv, NoBookingDropped, Grown
<1>8. QED BY <1>3, <1>6, <1>7 DEF OrdersInv

\* A step of c that adds no company and leaves the lists alone.
LEMMA OrderMoves ==
  ASSUME OrdersInv, now' = now, companies' = companies, cache' = cache, NEW c \in Call, Grown(c),
         NEW l \in CallState, call' = [call EXCEPT ![c] = l], Mine(c)'
  PROVE  OrdersInv'
<1>1. OrdersTyped /\ CompaniesGrown
  BY NoCompanyAdded DEF OrdersInv
<1>2. cache' \in [Processes -> CompanyList] /\ CacheOk' /\ FoundTheNextTime'
  BY <1>1 DEF OrdersInv, OrdersTyped, CacheOk, FoundTheNextTime
<1>3. QED BY <1>1, <1>2, CallMoves

-----------------------------------------------------------------------------
(* How a call ends.                                                         *)

LEMMA StillLive ==
  ASSUME OrdersInv, NEW c \in Call, Grown(c), call[c].pc # "done", Alone(c)
  PROVE  \A i \in OrdersOf(c)' : orders'[i].live
<1>1. \A i \in OrdersOf(c) : orders[i].live
  BY DEF OrdersInv, Mine, Posted
<1>2. QED BY <1>1 DEF Grown, OrdersOf

\* With at most one order, and that one known to have been hidden, another may be made.
LEMMA TwiceStays ==
  ASSUME OrdersInv, NEW c \in Call, Grown(c), \A i, j \in OrdersOf(c) : i = j,
         OrdersOf(c) \subseteq call'[c].unseen \/ orders' = orders
  PROVE  Twice(c)'
<1>1. CASE orders' = orders
  <2>1. OrdersOf(c)' = OrdersOf(c)
    BY <1>1 DEF OrdersOf
  <2>2. \A i \in DOMAIN orders : i \in Nat
    BY OrdersTypes DEF OrdersInv
  <2>3. QED BY <2>1, <2>2 DEF Twice, OrdersOf
<1>2. CASE OrdersOf(c) \subseteq call'[c].unseen
  <2> SUFFICES ASSUME NEW i \in OrdersOf(c)', NEW j \in OrdersOf(c)', i < j
               PROVE  i \in call'[c].unseen /\ OrdersOf(c)' = {i, j}
    BY DEF Twice
  <2>1. \A k \in OrdersOf(c)' : k \in DOMAIN orders' /\ (k \in DOMAIN orders => k \in OrdersOf(c))
    BY DEF OrdersOf, Grown
  <2>2. OrdersTyped /\ orders' \in Seq(Order)
    BY DEF OrdersInv, Grown
  <2>3. (\A k \in DOMAIN orders : k \in Nat) /\ \A k \in DOMAIN orders' : k \in Nat
    BY <2>2, OrdersTypes
  <2>4. i \in DOMAIN orders
    BY <2>1, <2>3 DEF Grown
  <2>5. j \notin DOMAIN orders
    BY <2>1, <2>3, <2>4
  <2>6. \A k \in OrdersOf(c)' : k = i \/ k = j
    BY <2>1, <2>4, <2>5 DEF Grown
  <2>7. QED BY <1>2, <2>1, <2>4, <2>6
<1>3. QED BY <1>1, <1>2

LEMMA ThrowMine ==
  ASSUME OrdersInv, now' = now, NEW c \in Call, Grown(c), CompaniesGrown, call[c].pc # "done",
         Throw(c), Alone(c) => Twice(c)'
  PROVE  Mine(c)' /\ \E l \in CallState : call' = [call EXCEPT ![c] = l]
<1> DEFINE l == [NotBegun EXCEPT !.pc = "threw", !.unseen = call[c].unseen]
<1>1. OrdersTyped /\ Mine(c)
  BY DEF OrdersInv
<1>2. call' = [call EXCEPT ![c] = l] /\ call'[c] = l
  BY <1>1 DEF Throw, OrdersTyped
<1>3. l \in [pc : {"threw"}, began : {0}, since : {0}, reads : {0}, unseen : {call[c].unseen}, order : {0}]
  BY DEF NotBegun
<1> HIDE DEF l
<1>4. l \in CallState
  BY <1>1, <1>3, LocalTypes, OrdersTypes DEF CallState, CreatePC
<1>5. Local(c)'
  BY <1>1, <1>2, <1>3, OrdersTypes DEF Mine, Local, Running, Grown
<1>6. \A i \in OrdersOf(c)' : orders'[i].at \in Nat
  <2>1. orders' \in Seq(Order)
    BY DEF Grown
  <2>2. \A i \in DOMAIN orders' : orders'[i] \in Order
    BY <2>1
  <2>3. QED BY <1>1, <2>2, OrdersTypes DEF OrdersOf, Order
<1>7. Posted(c)'
  BY <1>2, <1>3, <1>6, StillLive DEF Posted, Alone
<1>8. Answered(c)'
  BY <1>2, <1>3 DEF Answered
<1>9. QED BY <1>2, <1>4, <1>5, <1>7, <1>8 DEF Mine

LEMMA ReturnMine ==
  ASSUME OrdersInv, now' = now, NEW c \in Call, Grown(c), CompaniesGrown, call[c].pc # "done",
         NEW o \in DOMAIN orders', Return(c, o), Alone(c) => Twice(c)',
         Name[orders'[o].by] = Name[c], orders'[o].by = c \/ orders'[o].at >= call[c].since - 1
  PROVE  Mine(c)' /\ \E l \in CallState : call' = [call EXCEPT ![c] = l]
<1> DEFINE l == [NotBegun EXCEPT !.pc = "done", !.since = call[c].since, !.unseen = call[c].unseen, !.order = o]
<1>1. OrdersTyped /\ Mine(c)
  BY DEF OrdersInv
<1>2. call' = [call EXCEPT ![c] = l] /\ call'[c] = l
  BY <1>1 DEF Return, OrdersTyped
<1>3. l \in [pc : {"done"}, began : {0}, since : {call[c].since}, reads : {0}, unseen : {call[c].unseen}, order : {o}]
  BY DEF NotBegun
<1> HIDE DEF l
<1>4. \A i \in DOMAIN orders' : i \in Nat /\ orders'[i] \in Order
  BY DEF Grown
<1>5. l \in CallState
  BY <1>1, <1>3, <1>4, LocalTypes, OrdersTypes DEF CallState, CreatePC
<1>6. Local(c)'
  BY <1>1, <1>2, <1>3, OrdersTypes DEF Mine, Local, Running, Grown
<1>7. \A i \in OrdersOf(c)' : call[c].since <= orders'[i].at
  BY <1>1 DEF Mine, Posted, Local, OrdersOf, Grown
<1>8. Posted(c)'
  BY <1>2, <1>3, <1>7 DEF Posted, Alone
<1>9. Answered(c)'
  BY <1>2, <1>3 DEF Answered
<1>10. QED BY <1>2, <1>5, <1>6, <1>8, <1>9 DEF Mine

\* A call that goes on from one step to another with its locals.
LEMMA GotoMine ==
  ASSUME OrdersInv, now' = now, NEW c \in Call, Grown(c), CompaniesGrown, call[c].pc # "done",
         NEW pc \in {"prepare", "lost", "probe"}, Goto(c, pc), Running(c), Alone(c) => Twice(c)',
         pc = "prepare" => OrdersOf(c)' = {},
         pc = "probe" => \A i, j \in OrdersOf(c)' : i = j
  PROVE  Mine(c)' /\ \E l \in CallState : call' = [call EXCEPT ![c] = l]
<1> DEFINE l == [call[c] EXCEPT !.pc = pc]
<1>1. OrdersTyped /\ Mine(c) /\ call[c] \in CallState
  BY DEF OrdersInv, OrdersTyped
<1>2. call' = [call EXCEPT ![c] = l] /\ call'[c] = l
  BY <1>1 DEF Goto, OrdersTyped
<1>3. /\ l.pc = pc /\ l.began = call[c].began /\ l.since = call[c].since /\ l.order = call[c].order
      /\ l.unseen = call[c].unseen /\ l \in CallState
  BY <1>1 DEF CallState, CreatePC
<1> HIDE DEF l
<1>4. Local(c)'
  BY <1>1, <1>2, <1>3 DEF Mine, Local, Running, Grown
<1>5. \A i \in OrdersOf(c)' : call[c].since <= orders'[i].at
  BY <1>1 DEF Mine, Posted, Local, OrdersOf, Grown
<1>6. Posted(c)'
  BY <1>2, <1>3, <1>5, StillLive DEF Posted, Alone
<1>7. Answered(c)'
  BY <1>2, <1>3 DEF Answered
<1>8. QED BY <1>2, <1>3, <1>4, <1>6, <1>7 DEF Mine

-----------------------------------------------------------------------------
(* The company.                                                             *)

LEMMA ChosenMine ==
  ASSUME OrdersInv, now' = now, orders' = orders, companies' = companies, NEW c \in Call, call[c].pc = "idle",
         NEW ids, Chosen(c, ids), ids = {} => \A j \in DOMAIN companies : now <= companies[j].at + 1
  PROVE  Mine(c)' /\ \E l \in CallState : call' = [call EXCEPT ![c] = l]
<1> DEFINE l == [call[c] EXCEPT !.pc = IF ids = {} THEN "company" ELSE "prepare", !.began = now]
<1>1. OrdersTyped /\ Mine(c) /\ call[c] \in CallState /\ now \in Nat
  BY OrdersTypes DEF OrdersInv, OrdersTyped
<1>2. call' = [call EXCEPT ![c] = l] /\ call'[c] = l
  BY <1>1 DEF Chosen, OrdersTyped
<1>3. /\ l.pc = (IF ids = {} THEN "company" ELSE "prepare") /\ l.began = now /\ l.since = call[c].since
      /\ l.order = call[c].order /\ l.unseen = call[c].unseen
  BY <1>1 DEF CallState
<1>4. l \in CallState
  BY <1>1 DEF CallState, CreatePC, OrdersTyped
<1> HIDE DEF l
<1>5. OrdersOf(c) = {} /\ OrdersOf(c)' = {}
  BY <1>1 DEF Mine, Posted, OrdersOf
<1>6. Local(c)'
  BY <1>1, <1>2, <1>3 DEF Mine, Local, Running
<1>7. Posted(c)'
  BY <1>2, <1>3, <1>5 DEF Posted, Twice
<1>8. Answered(c)'
  BY <1>2, <1>3 DEF Answered
<1>9. QED BY <1>2, <1>4, <1>6, <1>7, <1>8 DEF Mine

LEMMA CachedListInv == ASSUME OrdersInv, NEW c \in Call, CachedList(c) PROVE OrdersInv'
<1> DEFINE ids == cache[Process[c]].ids
<1>1. OrdersTyped /\ Grown(c) /\ call[c].pc = "idle"
  <2>1. call[c].pc \in CreatePC
    BY LocalTypes DEF OrdersInv
  <2>2. QED BY <2>1, NoneAdded DEF OrdersInv, CachedList, Starts, CreatePC
<1>2. Process[c] \in Processes /\ cache[Process[c]] \in CompanyList /\ now \in Nat
  BY <1>1, LocalTypes, OrdersTypes
<1>3. ids = {} => \A j \in DOMAIN companies : now <= companies[j].at + 1
  <2>1. cache[Process[c]].at # -1 /\ now - cache[Process[c]].at <= 1 /\ cache[Process[c]].at \in Int
    BY <1>2 DEF CachedList, Fresh, CompanyList
  <2>2. ids = {} => \A j \in DOMAIN companies : cache[Process[c]].at <= companies[j].at
    BY <1>2, <2>1 DEF OrdersInv, CacheOk
  <2>3. \A j \in DOMAIN companies : companies[j].at \in Nat
    BY <1>1, OrdersTypes
  <2>4. QED BY <1>2, <2>1, <2>2, <2>3
<1>4. Mine(c)' /\ \E l \in CallState : call' = [call EXCEPT ![c] = l]
  BY <1>1, <1>3, ChosenMine DEF CachedList
<1>5. QED
  BY <1>1, <1>4, OrderMoves DEF CachedList

LEMMA PullListInv == ASSUME OrdersInv, NEW c \in Call, PullList(c) PROVE OrdersInv'
<1>1. OrdersTyped /\ Grown(c) /\ CompaniesGrown /\ call[c].pc = "idle"
  <2>1. call[c].pc \in CreatePC
    BY LocalTypes DEF OrdersInv
  <2>2. QED BY <2>1, NoneAdded, NoCompanyAdded DEF OrdersInv, PullList, Starts, CreatePC
<1>2. Process[c] \in Processes /\ now \in Nat /\ now <= MaxTime /\ MaxTime \in Nat
  BY <1>1, LocalTypes, OrdersTypes
<1>3. OrdersOf(c) = {} /\ Twice(c)'
  <2>1. OrdersOf(c) = {} /\ OrdersOf(c)' = {}
    BY <1>1 DEF OrdersInv, Mine, Posted, OrdersOf, PullList
  <2>2. QED BY <2>1 DEF Twice
<1>4. FoundTheNextTime'
  BY DEF OrdersInv, FoundTheNextTime, PullList
<1>5. CASE cache' = [cache EXCEPT ![Process[c]] = [at |-> now, ids |-> DOMAIN companies]] /\ Chosen(c, DOMAIN companies)
  <2>1. Mine(c)' /\ \E l \in CallState : call' = [call EXCEPT ![c] = l]
    BY <1>1, <1>5, ChosenMine DEF PullList
  <2>2. [at |-> now, ids |-> DOMAIN companies] \in CompanyList
    BY <1>1, <1>2, OrdersTypes DEF CompanyList
  <2>3. cache' \in [Processes -> CompanyList]
    BY <1>1, <1>5, <2>2 DEF OrdersTyped
  <2>4. CacheOk'
    <3> SUFFICES ASSUME NEW s \in Processes
                 PROVE  /\ cache'[s].at <= now /\ cache'[s].ids \subseteq DOMAIN companies
                        /\ cache'[s].at # -1 /\ cache'[s].ids = {} => \A j \in DOMAIN companies : cache'[s].at <= companies[j].at
      BY DEF CacheOk, PullList
    <3>1. CASE s = Process[c]
      <4>1. cache'[s] = [at |-> now, ids |-> DOMAIN companies]
        BY <1>1, <1>5, <3>1 DEF OrdersTyped
      <4>2. QED BY <1>2, <4>1
    <3>2. CASE s # Process[c]
      <4>1. cache'[s] = cache[s]
        BY <1>1, <1>5, <3>2 DEF OrdersTyped
      <4>2. QED BY <4>1 DEF OrdersInv, CacheOk
    <3>3. QED BY <3>1, <3>2
  <2>5. QED BY <1>1, <1>4, <2>1, <2>3, <2>4, CallMoves DEF PullList
<1>6. CASE Throw(c) /\ cache' = cache
  <2>1. Mine(c)' /\ \E l \in CallState : call' = [call EXCEPT ![c] = l]
    BY <1>1, <1>3, <1>6, ThrowMine DEF PullList
  <2>2. QED BY <1>1, <1>6, <2>1, OrderMoves DEF PullList
<1>7. QED BY <1>5, <1>6 DEF PullList

\* A company made by a call that is at it: the others are no older than its list.
LEMMA NearInTime ==
  ASSUME OrdersInv, now' = now, NEW c \in Call, call[c].pc = "company", CompaniesGrown
  PROVE  FoundTheNextTime' /\ \A j \in DOMAIN companies' : call[c].began <= companies'[j].at + 1
<1>1. OrdersTyped /\ Local(c) /\ Running(c)
  BY DEF OrdersInv, Mine, Running
<1>2. now \in Nat /\ call[c].began \in Nat /\ call[c].began <= now /\ now <= call[c].began + 1
  BY <1>1, OrdersTypes, LocalTypes DEF Local
<1>3. \A j \in DOMAIN companies : /\ companies[j].at \in Nat /\ companies[j].at <= now
                                  /\ call[c].began <= companies[j].at + 1
  BY <1>1, OrdersTypes DEF OrdersTyped, Local
<1>4. \A j \in DOMAIN companies' : /\ companies'[j].at \in Nat /\ companies'[j].at <= now
                                   /\ call[c].began <= companies'[j].at + 1
  BY <1>2, <1>3 DEF CompaniesGrown
<1>5. FoundTheNextTime'
  BY <1>2, <1>4 DEF FoundTheNextTime
<1>6. QED BY <1>4, <1>5

LEMMA CreateCompanyInv == ASSUME OrdersInv, NEW c \in Call, CreateCompany(c) PROVE OrdersInv'
<1> DEFINE made == Append(companies, [by |-> c, at |-> now])
           known == cache[Process[c]]
<1>1. OrdersTyped /\ Grown(c) /\ call[c].pc = "company" /\ Running(c) /\ now' = now /\ orders' = orders
  BY NoneAdded DEF OrdersInv, CreateCompany, Running
<1>2. Process[c] \in Processes /\ known \in CompanyList /\ now \in Nat
  BY <1>1, LocalTypes, OrdersTypes
<1>3. OrdersOf(c) = {} /\ OrdersOf(c)' = {} /\ Twice(c)'
  <2>1. OrdersOf(c) = {} /\ OrdersOf(c)' = {}
    BY <1>1 DEF OrdersInv, Mine, Posted, OrdersOf
  <2>2. QED BY <2>1 DEF Twice
<1>4. companies' = made \/ companies' = companies
  BY DEF CreateCompany
<1>5. CompaniesGrown
  BY <1>1, <1>4, NoCompanyAdded, CompanyAdded
<1>6. FoundTheNextTime'
  BY <1>1, <1>5, NearInTime
<1>7. CASE /\ companies' = made /\ Goto(c, "prepare")
           /\ cache' = [cache EXCEPT ![Process[c]] = IF known = NoList THEN known ELSE [known EXCEPT !.ids = @ \cup {Len(made)}]]
  <2>1. Mine(c)' /\ \E l \in CallState : call' = [call EXCEPT ![c] = l]
    BY <1>1, <1>3, <1>5, <1>7, GotoMine
  <2>2. /\ DOMAIN companies' = DOMAIN companies \cup {Len(companies) + 1} /\ Len(made) = Len(companies) + 1
        /\ Len(companies) \in Nat
    BY <1>1, <1>7, CompanyAdded, OrdersTypes
  <2> DEFINE next == IF known = NoList THEN known ELSE [known EXCEPT !.ids = @ \cup {Len(made)}]
  <2>3. /\ next \in CompanyList /\ next.at = known.at /\ known.ids \subseteq next.ids
        /\ next.ids \subseteq known.ids \cup {Len(made)}
    <3> DEFINE n == Len(made)
               k == known
    <3>1. k \in CompanyList /\ n \in Nat
      BY <1>2, <2>2
    <3> HIDE DEF n, k
    <3>2. /\ [k EXCEPT !.ids = @ \cup {n}] \in CompanyList
          /\ [k EXCEPT !.ids = @ \cup {n}].at = k.at
          /\ [k EXCEPT !.ids = @ \cup {n}].ids = k.ids \cup {n}
      BY <3>1 DEF CompanyList
    <3>3. next = k \/ next = [k EXCEPT !.ids = @ \cup {n}]
      BY DEF n, k
    <3> HIDE DEF next
    <3>4. /\ next \in CompanyList /\ next.at = k.at /\ k.ids \subseteq next.ids
          /\ next.ids \subseteq k.ids \cup {n}
      BY <3>1, <3>2, <3>3
    <3>5. QED BY <3>4 DEF n, k
  <2>4. cache' = [cache EXCEPT ![Process[c]] = next]
    BY <1>7
  <2> HIDE DEF next
  <2>5. cache' \in [Processes -> CompanyList]
    BY <1>1, <2>3, <2>4 DEF OrdersTyped
  <2>6. ASSUME NEW s \in Processes
        PROVE  /\ cache'[s].at = cache[s].at /\ cache[s].ids \subseteq cache'[s].ids
               /\ cache'[s].ids \subseteq cache[s].ids \cup {Len(made)}
    <3>1. cache'[s] = IF s = Process[c] THEN next ELSE cache[s]
      BY <1>1, <1>2, <2>4 DEF OrdersTyped
    <3>2. QED BY <2>3, <3>1
  <2>7. CacheOk'
    <3> SUFFICES ASSUME NEW s \in Processes
                 PROVE  /\ cache'[s].at <= now /\ cache'[s].ids \subseteq DOMAIN companies'
                        /\ cache'[s].at # -1 /\ cache'[s].ids = {} => \A j \in DOMAIN companies' : cache'[s].at <= companies'[j].at
      BY <1>1 DEF CacheOk
    <3>1. cache[s].at <= now /\ cache[s].ids \subseteq DOMAIN companies
      BY DEF OrdersInv, CacheOk
    <3>2. cache'[s].at # -1 /\ cache'[s].ids = {} => \A j \in DOMAIN companies : cache[s].at <= companies[j].at
      BY <2>6 DEF OrdersInv, CacheOk
    <3>3. \A j \in DOMAIN companies' : (j \in DOMAIN companies /\ companies'[j] = companies[j]) \/ companies'[j].at = now
      BY <1>5 DEF CompaniesGrown
    <3>4. QED BY <2>2, <2>6, <3>1, <3>2, <3>3
  <2>8. QED BY <1>1, <1>5, <1>6, <2>1, <2>5, <2>7, CallMoves
<1>8. CASE Throw(c) /\ cache' = cache
  <2>1. Mine(c)' /\ \E l \in CallState : call' = [call EXCEPT ![c] = l]
    BY <1>1, <1>3, <1>5, <1>8, ThrowMine
  <2>2. cache' \in [Processes -> CompanyList]
    BY <1>1, <1>8 DEF OrdersTyped
  <2>3. CacheOk'
    <3>1. \A j \in DOMAIN companies' : (j \in DOMAIN companies /\ companies'[j] = companies[j]) \/ companies'[j].at = now
      BY <1>5 DEF CompaniesGrown
    <3>2. DOMAIN companies \subseteq DOMAIN companies'
      BY <1>5 DEF CompaniesGrown
    <3>3. QED BY <1>1, <1>8, <3>1, <3>2 DEF OrdersInv, CacheOk
  <2>4. QED BY <1>1, <1>5, <1>6, <2>1, <2>2, <2>3, CallMoves
<1>9. QED BY <1>7, <1>8 DEF CreateCompany

LEMMA PrepareInv == ASSUME OrdersInv, NEW c \in Call, Prepare(c) PROVE OrdersInv'
<1>1. OrdersTyped /\ Grown(c) /\ Mine(c) /\ call[c].pc \in {"idle", "prepare"}
  BY NoneAdded DEF OrdersInv, Prepare, Starts
<1>2. OrdersOf(c) = {} /\ OrdersOf(c)' = {} /\ Twice(c)'
  <2>1. OrdersOf(c) = {} /\ OrdersOf(c)' = {}
    BY <1>1 DEF Mine, Posted, OrdersOf, Prepare
  <2>2. QED BY <2>1 DEF Twice
<1>3. CASE call' = [call EXCEPT ![c].pc = "post", ![c].began = Began(c), ![c].since = now]
  <2> DEFINE l == [call[c] EXCEPT !.pc = "post", !.began = Began(c), !.since = now]
  <2>1. call[c] \in CallState /\ now \in 0..MaxTime /\ now \in Nat
    BY <1>1, OrdersTypes DEF OrdersTyped
  <2>2. Began(c) \in 0..MaxTime /\ Began(c) <= now /\ now <= Began(c) + 1
    BY <1>1, <2>1 DEF Began, CallState, Mine, Local, Running
  <2>3. call' = [call EXCEPT ![c] = l] /\ call'[c] = l
    BY <1>1, <1>3 DEF OrdersTyped
  <2>4. /\ l.pc = "post" /\ l.began = Began(c) /\ l.since = now
        /\ l.order = call[c].order /\ l.unseen = call[c].unseen
    BY <2>1 DEF CallState
  <2>5. l \in CallState
    BY <2>1, <2>2 DEF CallState, CreatePC
  <2> HIDE DEF l
  <2>6. Local(c)'
    BY <1>1, <2>1, <2>2, <2>3, <2>4 DEF Mine, Local, Running, Prepare
  <2>7. Posted(c)'
    BY <1>2, <2>3, <2>4 DEF Posted
  <2>8. Answered(c)'
    BY <2>3, <2>4 DEF Answered
  <2>9. QED BY <1>1, <2>3, <2>5, <2>6, <2>7, <2>8, OrderMoves DEF Prepare, Mine
<1>4. CASE Throw(c)
  <2>1. CompaniesGrown
    BY <1>1, NoCompanyAdded DEF Prepare
  <2>2. Mine(c)' /\ \E l \in CallState : call' = [call EXCEPT ![c] = l]
    BY <1>1, <1>2, <1>4, <2>1, ThrowMine DEF Prepare
  <2>3. QED BY <1>1, <2>2, OrderMoves DEF Prepare
<1>5. QED BY <1>3, <1>4 DEF Prepare

-----------------------------------------------------------------------------
(* The order.                                                               *)

LEMMA UnseenKept ==
  ASSUME OrdersTyped, NEW c \in Call,
         Throw(c) \/ (\E pc \in CreatePC : Goto(c, pc)) \/ (\E o \in DOMAIN orders' : Return(c, o))
  PROVE  call'[c].unseen = call[c].unseen
<1>1. call[c] \in CallState
  BY DEF OrdersTyped
<1>2. CASE Throw(c)
  BY <1>2 DEF Throw, OrdersTyped, NotBegun
<1>3. CASE \E pc \in CreatePC : Goto(c, pc)
  BY <1>1, <1>3 DEF Goto, OrdersTyped, CallState
<1>4. CASE \E o \in DOMAIN orders' : Return(c, o)
  BY <1>4 DEF Return, OrdersTyped, NotBegun
<1>5. QED BY <1>2, <1>3, <1>4

\* POST /orders, the first and the second time.
LEMMA PostOrderInv ==
  ASSUME OrdersInv, NEW c \in Call, call[c].pc \in {"post", "repost"}, UNCHANGED <<now, companies, cache>>,
         \/ \E shown \in BOOLEAN : orders' = Made(c, shown) /\ Return(c, Len(orders) + 1)
         \/ /\ orders' = orders \/ \E shown \in BOOLEAN : orders' = Made(c, shown)
            /\ Throw(c) \/ Goto(c, "lost") \/ (call[c].pc = "post" /\ Goto(c, "probe"))
  PROVE  OrdersInv'
<1>1. OrdersTyped /\ Mine(c) /\ CompaniesGrown /\ Running(c) /\ call[c].pc # "done"
  BY NoCompanyAdded DEF OrdersInv, Running
<1>2. orders' = orders \/ \E shown \in BOOLEAN : orders' = Made(c, shown)
  OBVIOUS
<1>3. Grown(c)
  BY <1>1, <1>2, NoneAdded, OrderAdded
<1>4. /\ \A i, j \in OrdersOf(c) : i = j
      /\ Alone(c) => OrdersOf(c) \subseteq call[c].unseen
      /\ call[c].pc = "post" => OrdersOf(c) = {}
  BY <1>1 DEF Mine, Posted
<1>5. call'[c].unseen = call[c].unseen
  <2>1. CASE \E shown \in BOOLEAN : orders' = Made(c, shown) /\ Return(c, Len(orders) + 1)
    <3>1. Len(orders) + 1 \in DOMAIN orders'
      BY <1>1, <2>1, OrderAdded
    <3>2. QED BY <1>1, <2>1, <3>1, UnseenKept
  <2>2. CASE Throw(c) \/ Goto(c, "lost") \/ Goto(c, "probe")
    BY <1>1, <2>2, UnseenKept DEF CreatePC
  <2>3. QED BY <2>1, <2>2
<1>6. Alone(c) => Twice(c)'
  BY <1>3, <1>4, <1>5, TwiceStays
<1>7. Mine(c)' /\ \E l \in CallState : call' = [call EXCEPT ![c] = l]
  <2>1. CASE \E shown \in BOOLEAN : orders' = Made(c, shown) /\ Return(c, Len(orders) + 1)
    <3>1. Len(orders) + 1 \in DOMAIN orders' /\ orders'[Len(orders) + 1].by = c
      BY <1>1, <2>1, OrderAdded
    <3>2. Return(c, Len(orders) + 1)
      BY <2>1
    <3>3. QED BY <1>1, <1>3, <1>6, <3>1, <3>2, ReturnMine
  <2>2. CASE Throw(c)
    BY <1>1, <1>3, <1>6, <2>2, ThrowMine
  <2>3. CASE Goto(c, "lost")
    BY <1>1, <1>3, <1>6, <2>3, GotoMine
  <2>4. CASE call[c].pc = "post" /\ Goto(c, "probe")
    <3>1. OrdersOf(c)' \subseteq DOMAIN orders' \ DOMAIN orders
      BY <1>3, <1>4, <2>4 DEF OrdersOf, Grown
    <3>2. \A i, j \in OrdersOf(c)' : i = j
      BY <1>3, <3>1 DEF Grown
    <3>3. QED BY <1>1, <1>3, <1>6, <2>4, <3>2, GotoMine
  <2>5. QED BY <2>1, <2>2, <2>3, <2>4
<1>8. QED BY <1>3, <1>7, OrderMoves

LEMMA PostInv == ASSUME OrdersInv, NEW c \in Call, Post(c) PROVE OrdersInv'
BY PostOrderInv DEF Post, PostOrder

LEMMA RepostInv == ASSUME OrdersInv, NEW c \in Call, Repost(c) PROVE OrdersInv'
BY PostOrderInv DEF Repost, PostOrder

\* What a look finds is of the booking's name and about that old.
LEMMA AdoptMine ==
  ASSUME OrdersInv, NEW c \in Call, UNCHANGED <<now, orders, companies, cache>>, call[c].pc # "done",
         Matches(c) # {}, Adopt(c, Matches(c)), Alone(c) => Twice(c)'
  PROVE  Mine(c)' /\ \E l \in CallState : call' = [call EXCEPT ![c] = l]
<1> DEFINE o == Max(Matches(c))
<1>1. OrdersTyped /\ CompaniesGrown /\ Grown(c)
  BY NoneAdded, NoCompanyAdded DEF OrdersInv
<1>2. o \in Matches(c)
  <2>1. Matches(c) \subseteq 1..Len(orders) /\ Len(orders) \in Nat
    BY <1>1, OrdersTypes DEF Matches
  <2>2. QED BY <2>1, NewestIsOne
<1>3. o \in DOMAIN orders' /\ Name[orders'[o].by] = Name[c] /\ orders'[o].at >= call[c].since - 1
  BY <1>2 DEF Matches
<1>4. Return(c, o)
  BY DEF Adopt
<1> HIDE DEF o
<1>5. QED BY <1>1, <1>3, <1>4, ReturnMine

LEMMA SameTwice ==
  ASSUME OrdersInv, NEW c \in Call, orders' = orders, call'[c].unseen = call[c].unseen, Alone(c)
  PROVE  Twice(c)'
<1>1. OrdersOf(c)' = OrdersOf(c) /\ Twice(c)
  BY DEF OrdersInv, Mine, Posted, OrdersOf
<1>2. QED BY <1>1 DEF Twice

LEMMA LookForLostInv == ASSUME OrdersInv, NEW c \in Call, LookForLost(c) PROVE OrdersInv'
<1>1. OrdersTyped /\ CompaniesGrown /\ Grown(c) /\ call[c].pc # "done"
  BY NoneAdded, NoCompanyAdded DEF OrdersInv, LookForLost
<1>2. CASE Matches(c) # {} /\ Adopt(c, Matches(c))
  <2>1. call'[c].unseen = call[c].unseen
    BY <1>1, <1>2 DEF Adopt, Return, OrdersTyped, NotBegun
  <2>2. Alone(c) => Twice(c)'
    BY <2>1, SameTwice DEF LookForLost
  <2>3. Mine(c)' /\ \E l \in CallState : call' = [call EXCEPT ![c] = l]
    BY <1>1, <1>2, <2>2, AdoptMine DEF LookForLost
  <2>4. QED BY <1>1, <2>3, OrderMoves DEF LookForLost
<1>3. CASE Throw(c)
  <2>1. Alone(c) => Twice(c)'
    BY <1>1, <1>3, UnseenKept, SameTwice DEF LookForLost
  <2>2. Mine(c)' /\ \E l \in CallState : call' = [call EXCEPT ![c] = l]
    BY <1>1, <1>3, <2>1, ThrowMine DEF LookForLost
  <2>3. QED BY <1>1, <2>2, OrderMoves DEF LookForLost
<1>4. QED BY <1>2, <1>3 DEF LookForLost

\* A look that finds none, answered: every order of the call was hidden from it.
LEMMA AbsentMine ==
  ASSUME OrdersInv, NEW c \in Call, UNCHANGED <<now, orders, companies, cache>>, call[c].pc = "probe", Matches(c) = {},
         call' = [call EXCEPT ![c].reads = (@ + 1) % 2,
                              ![c].pc = IF call[c].reads = 1 THEN "repost" ELSE "probe",
                              ![c].unseen = {i \in DOMAIN orders : orders[i].by = c /\ ~orders[i].shown}]
  PROVE  Mine(c)' /\ \E l \in CallState : call' = [call EXCEPT ![c] = l]
<1> DEFINE hidden == {i \in DOMAIN orders : orders[i].by = c /\ ~orders[i].shown}
           l == [call[c] EXCEPT !.reads = (@ + 1) % 2, !.pc = IF call[c].reads = 1 THEN "repost" ELSE "probe",
                                !.unseen = hidden]
<1>1. OrdersTyped /\ Mine(c) /\ call[c] \in CallState /\ Running(c) /\ Grown(c)
  BY NoneAdded DEF OrdersInv, OrdersTyped, Running
<1>2. hidden \subseteq DOMAIN orders /\ hidden \subseteq Nat
  BY <1>1, OrdersTypes
<1>3. Alone(c) => OrdersOf(c) \subseteq hidden
  <2> SUFFICES ASSUME Alone(c), NEW i \in OrdersOf(c), orders[i].shown PROVE FALSE
    BY DEF OrdersOf
  <2>1. i \in DOMAIN orders /\ orders[i].by = c /\ orders[i].live /\ call[c].since <= orders[i].at
    BY <1>1 DEF Mine, Posted, OrdersOf
  <2>2. orders[i].at >= call[c].since - 1
    BY <1>1, <2>1, OrdersTypes, LocalTypes
  <2>3. i \in Matches(c)
    BY <2>1, <2>2 DEF Matches
  <2>4. QED BY <2>3
<1> HIDE DEF hidden
<1>4. call' = [call EXCEPT ![c] = l] /\ call'[c] = l
  BY <1>1 DEF OrdersTyped, hidden
<1>5. /\ l.pc = (IF call[c].reads = 1 THEN "repost" ELSE "probe") /\ l.began = call[c].began
      /\ l.since = call[c].since /\ l.order = call[c].order /\ l.unseen = hidden
  BY <1>1 DEF CallState
<1>6. l \in CallState
  <2>1. (call[c].reads + 1) % 2 \in 0..1
    BY <1>1 DEF CallState
  <2>2. QED BY <1>1, <1>2, <2>1 DEF CallState, CreatePC
<1> HIDE DEF l
<1>7. Local(c)'
  BY <1>1, <1>2, <1>4, <1>5 DEF Mine, Local, Running
<1>8. OrdersOf(c)' = OrdersOf(c) /\ (\A i, j \in OrdersOf(c) : i = j) /\ (\A i \in OrdersOf(c) : call[c].since <= orders[i].at)
  BY <1>1 DEF Mine, Posted, OrdersOf
<1>9. Alone(c) => Twice(c)'
  BY <1>1, <1>3, <1>4, <1>5, <1>8, TwiceStays
<1>10. Alone(c) => \A i \in OrdersOf(c) : orders[i].live
  BY <1>1 DEF Mine, Posted
<1>11. Posted(c)'
  BY <1>3, <1>4, <1>5, <1>8, <1>9, <1>10 DEF Posted, Alone
<1>12. Answered(c)'
  BY <1>4, <1>5 DEF Answered
<1>13. QED BY <1>4, <1>6, <1>7, <1>11, <1>12 DEF Mine

LEMMA ProbeInv == ASSUME OrdersInv, NEW c \in Call, Probe(c) PROVE OrdersInv'
<1>1. OrdersTyped /\ CompaniesGrown /\ Grown(c) /\ call[c].pc # "done"
  BY NoneAdded, NoCompanyAdded DEF OrdersInv, Probe
<1>2. CASE Matches(c) # {} /\ Adopt(c, Matches(c))
  <2>1. call'[c].unseen = call[c].unseen
    BY <1>1, <1>2 DEF Adopt, Return, OrdersTyped, NotBegun
  <2>2. Alone(c) => Twice(c)'
    BY <2>1, SameTwice DEF Probe
  <2>3. Mine(c)' /\ \E l \in CallState : call' = [call EXCEPT ![c] = l]
    BY <1>1, <1>2, <2>2, AdoptMine DEF Probe
  <2>4. QED BY <1>1, <2>3, OrderMoves DEF Probe
<1>3. CASE /\ Matches(c) = {}
           /\ call' = [call EXCEPT ![c].reads = (@ + 1) % 2,
                                   ![c].pc = IF call[c].reads = 1 THEN "repost" ELSE "probe",
                                   ![c].unseen = {i \in DOMAIN orders : orders[i].by = c /\ ~orders[i].shown}]
  <2>1. Mine(c)' /\ \E l \in CallState : call' = [call EXCEPT ![c] = l]
    BY <1>3, AbsentMine DEF Probe
  <2>2. QED BY <1>1, <2>1, OrderMoves DEF Probe
<1>4. CASE Throw(c)
  <2>1. Alone(c) => Twice(c)'
    BY <1>1, <1>4, UnseenKept, SameTwice DEF Probe
  <2>2. Mine(c)' /\ \E l \in CallState : call' = [call EXCEPT ![c] = l]
    BY <1>1, <1>4, <2>1, ThrowMine DEF Probe
  <2>3. QED BY <1>1, <2>2, OrderMoves DEF Probe
<1>5. QED BY <1>2, <1>3, <1>4 DEF Probe

-----------------------------------------------------------------------------
(* The steps of OnSinch and of the clock, and what the canary deletes.      *)

\* An order that is shown, or deleted by the call that got it: whose and when it was made stay.
LEMMA OrderEdited ==
  ASSUME OrdersInv, UNCHANGED <<now, companies, cache, call>>, NEW i \in DOMAIN orders, NEW o \in Order,
         orders' = [orders EXCEPT ![i] = o], o.by = orders[i].by, o.at = orders[i].at,
         o.live = orders[i].live \/ (o.by \in Canary /\ (Alone(o.by) => call[o.by].pc = "done"))
  PROVE  OrdersInv'
<1>1. OrdersTyped
  BY DEF OrdersInv
<1>2. orders' \in Seq(Order) /\ DOMAIN orders' = DOMAIN orders
      /\ \A k \in DOMAIN orders : orders'[k] = IF k = i THEN o ELSE orders[k]
  <2>1. orders \in Seq(Order)
    BY <1>1 DEF OrdersTyped
  <2>2. \A k \in DOMAIN orders : orders'[k] = IF k = i THEN o ELSE orders[k]
    OBVIOUS
  <2>3. DOMAIN orders' = DOMAIN orders
    OBVIOUS
  <2>4. orders' \in Seq(Order)
    BY <2>1
  <2>5. QED BY <2>2, <2>3, <2>4
<1>3. \A k \in DOMAIN orders : orders'[k].by = orders[k].by /\ orders'[k].at = orders[k].at
  BY <1>2
<1>4. \A c \in Call : OrdersOf(c)' = OrdersOf(c)
  BY <1>2, <1>3 DEF OrdersOf
<1>5. ASSUME NEW c \in Call, Alone(c), call[c].pc # "done"
      PROVE  \A k \in OrdersOf(c) : orders'[k].live
  <2>1. \A k \in OrdersOf(c) : k \in DOMAIN orders /\ orders[k].live /\ orders[k].by = c
    BY <1>5 DEF OrdersInv, Mine, Posted, OrdersOf
  <2>2. QED BY <1>2, <1>5, <2>1
<1>6. OrdersTyped'
  BY <1>1, <1>2, <1>3 DEF OrdersTyped
<1>7. ASSUME NEW c \in Call PROVE Mine(c)'
  <2>1. Mine(c)
    BY DEF OrdersInv
  <2>2. Local(c)'
    BY <1>2, <2>1 DEF Mine, Local, Running
  <2>3. Posted(c)'
    <3>1. \A k \in OrdersOf(c) : orders'[k].at = orders[k].at
      BY <1>3 DEF OrdersOf
    <3>2. Alone(c) => Twice(c)'
      BY <1>4, <2>1 DEF Mine, Posted, Twice
    <3>3. QED BY <1>4, <1>5, <2>1, <3>1, <3>2 DEF Mine, Posted, Alone
  <2>4. Answered(c)'
    BY <1>2, <1>3, <2>1 DEF Mine, Answered
  <2>5. QED BY <2>2, <2>3, <2>4 DEF Mine
<1>8. NoBookingDropped'
  BY <1>2, <1>3 DEF OrdersInv, NoBookingDropped
<1>9. CacheOk' /\ FoundTheNextTime'
  BY DEF OrdersInv, CacheOk, FoundTheNextTime
<1>10. QED BY <1>6, <1>7, <1>8, <1>9 DEF OrdersInv

LEMMA ShowInv == ASSUME OrdersInv, NEW i \in DOMAIN orders, Show(i) PROVE OrdersInv'
<1> DEFINE o == [orders[i] EXCEPT !.shown = TRUE]
<1>1. orders[i] \in Order
  BY OrdersTypes DEF OrdersInv
<1>2. o \in Order /\ o.by = orders[i].by /\ o.at = orders[i].at /\ o.live = orders[i].live
  BY <1>1 DEF Order
<1>3. orders' = [orders EXCEPT ![i] = o]
  BY DEF Show
<1> HIDE DEF o
<1>4. QED BY <1>2, <1>3, OrderEdited DEF Show

LEMMA DropInv == ASSUME OrdersInv, NEW c \in Call, Drop(c) PROVE OrdersInv'
<1> DEFINE i == call[c].order
           o == [orders[i] EXCEPT !.live = FALSE]
<1>1. c \in Canary /\ call[c].pc = "done" /\ i \in DOMAIN orders /\ Name[orders[i].by] = Name[c]
  BY DEF Drop, OrdersInv, Mine, Answered
<1>2. orders[i] \in Order /\ orders[i].by \in Call
  BY <1>1, OrdersTypes DEF OrdersInv
<1>3. o \in Order /\ o.by = orders[i].by /\ o.at = orders[i].at
  BY <1>2 DEF Order
<1>4. o.by \in Canary /\ (Alone(o.by) => o.by = c)
  BY <1>1, <1>2, <1>3, CreateAssumption DEF Alone
<1>5. orders' = [orders EXCEPT ![i] = o]
  BY DEF Drop
<1> HIDE DEF o
<1>6. UNCHANGED <<now, companies, cache, call>>
  BY DEF Drop
<1>7. o.live = orders[i].live \/ (o.by \in Canary /\ (Alone(o.by) => call[o.by].pc = "done"))
  BY <1>1, <1>4
<1> HIDE DEF i
<1>8. QED BY <1>1, <1>3, <1>5, <1>6, <1>7, OrderEdited

LEMMA CreateTickInv == ASSUME OrdersInv, CreateTick PROVE OrdersInv'
<1>1. OrdersTyped /\ now \in Nat /\ MaxTime \in Nat
  BY OrdersTypes DEF OrdersInv
<1>2. OrdersTyped'
  <2>1. now' \in 0..MaxTime /\ now' = now + 1
    BY <1>1 DEF CreateTick
  <2>2. \A i \in DOMAIN orders : orders[i].at <= now'
    BY <1>1, <2>1, OrdersTypes DEF OrdersTyped
  <2>3. \A i \in DOMAIN companies : companies[i].at <= now'
    BY <1>1, <2>1, OrdersTypes DEF OrdersTyped
  <2>4. QED BY <1>1, <2>1, <2>2, <2>3 DEF CreateTick, OrdersTyped
<1>3. CacheOk'
  <2>1. \A s \in Processes : cache[s].at \in Int /\ cache[s].at <= now
    BY <1>1, OrdersTypes DEF OrdersInv, CacheOk, CompanyList
  <2>2. \A s \in Processes : cache[s].at <= now + 1
    BY <1>1, <2>1
  <2>3. QED BY <2>2 DEF CreateTick, OrdersInv, CacheOk
<1>4. ASSUME NEW c \in Call PROVE Mine(c)'
  <2>1. Mine(c) /\ call[c].began \in Nat /\ call[c].since \in Nat
    BY <1>1, LocalTypes DEF OrdersInv
  <2>2. Local(c)'
    BY <1>1, <2>1 DEF CreateTick, Mine, Local, Running
  <2>3. Posted(c)'
    BY <2>1 DEF CreateTick, Mine, Posted, OrdersOf, Alone, Twice
  <2>4. Answered(c)'
    BY <2>1 DEF CreateTick, Mine, Answered
  <2>5. QED BY <2>2, <2>3, <2>4 DEF Mine
<1>5. QED BY <1>2, <1>3, <1>4 DEF OrdersInv, CreateTick, NoBookingDropped, FoundTheNextTime

LEMMA StutterInv == ASSUME OrdersInv, UNCHANGED createVars PROVE OrdersInv'
<1>1. OrdersTyped' /\ CacheOk' /\ NoBookingDropped' /\ FoundTheNextTime'
  BY DEF createVars, OrdersInv, OrdersTyped, CacheOk, NoBookingDropped, FoundTheNextTime
<1>2. ASSUME NEW c \in Call PROVE Mine(c)'
  <2>1. Mine(c)
    BY DEF OrdersInv
  <2>2. QED BY <2>1 DEF createVars, Mine, Local, Running, Posted, Answered, OrdersOf, Alone, Twice
<1>3. QED BY <1>1, <1>2 DEF OrdersInv

LEMMA OrdersNextInv == OrdersInv /\ [CreateNext]_createVars => OrdersInv'
<1> SUFFICES ASSUME OrdersInv, [CreateNext]_createVars PROVE OrdersInv'
  OBVIOUS
<1>1. CASE UNCHANGED createVars
  BY <1>1, StutterInv
<1>2. CASE CreateTick
  BY <1>2, CreateTickInv
<1>3. ASSUME NEW i \in DOMAIN orders, Show(i) PROVE OrdersInv'
  BY <1>3, ShowInv
<1>4. ASSUME NEW c \in Call, CallStep(c) PROVE OrdersInv'
  <2>1. CASE CachedList(c) \/ PullList(c) \/ CreateCompany(c) \/ Prepare(c)
    BY <2>1, CachedListInv, PullListInv, CreateCompanyInv, PrepareInv
  <2>2. CASE Post(c) \/ LookForLost(c) \/ Probe(c) \/ Repost(c) \/ Drop(c)
    BY <2>2, PostInv, LookForLostInv, ProbeInv, RepostInv, DropInv
  <2>3. QED BY <1>4, <2>1, <2>2 DEF CallStep
<1>5. QED BY <1>1, <1>2, <1>3, <1>4 DEF CreateNext

LEMMA OrdersAlways == CreateSpec => []OrdersInv
BY OrdersInitInv, OrdersNextInv, PTL DEF CreateSpec

-----------------------------------------------------------------------------
(* The theorems.                                                            *)

\* OnSinch's tables, every process's list and the locals of every call keep their
\* types, and nothing in them is of a time to come or of a record there is not.
THEOREM CreateTypeCorrect == CreateSpec => []CreateTypeOK
<1>1. OrdersInv => CreateTypeOK
  <2> SUFFICES ASSUME OrdersInv PROVE CreateTypeOK
    OBVIOUS
  <2>1. OrdersTyped /\ now \in 0..MaxTime /\ now \in Nat
    BY OrdersTypes DEF OrdersInv, OrdersTyped
  <2>2. ASSUME NEW i \in DOMAIN orders
        PROVE  orders[i] \in [by : Call, at : 0..now, shown : BOOLEAN, live : BOOLEAN]
    BY <2>1, OrdersTypes DEF OrdersTyped, Order
  <2>3. ASSUME NEW i \in DOMAIN companies PROVE companies[i] \in [by : Call, at : 0..now]
    BY <2>1, OrdersTypes DEF OrdersTyped, Company
  <2>4. ASSUME NEW s \in Processes PROVE cache[s].at \in -1..now /\ cache[s].ids \subseteq DOMAIN companies
    BY <2>1, OrdersTypes DEF OrdersInv, CacheOk, CompanyList
  <2>5. ASSUME NEW c \in Call
        PROVE  /\ call[c].pc \in CreatePC /\ call[c].began \in 0..now /\ call[c].since \in 0..now /\ call[c].reads \in 0..1
               /\ call[c].unseen \subseteq DOMAIN orders
               /\ call[c].order \in {0} \cup DOMAIN orders
               /\ call[c].pc = "done" => call[c].order # 0
    <3>1. Local(c) /\ Answered(c)
      BY DEF OrdersInv, Mine
    <3>2. 0 \notin DOMAIN orders
      BY <2>1, OrdersTypes
    <3>3. QED BY <2>1, <3>1, <3>2, LocalTypes DEF Local, Answered
  <2>6. QED BY <2>1, <2>2, <2>3, <2>4, <2>5 DEF CreateTypeOK
<1>2. QED BY OrdersAlways, <1>1, PTL

\* findLostCreate and createOrder: what a call returns is an order of its name, and
\* its own or one no older than the search allows, whoever else makes orders.
THEOREM OwnOrderReturned == CreateSpec => []ReturnsItsBooking
<1>1. OrdersInv => ReturnsItsBooking
  BY DEF OrdersInv, Mine, Answered, ReturnsItsBooking
<1>2. QED BY OrdersAlways, <1>1, PTL

\* The canary's delete: nothing that any number of canaries delete is a booking,
\* although each deletes whatever its create came back with.
THEOREM BookingsKept == CreateSpec => []NoBookingDropped
<1>1. OrdersInv => NoBookingDropped
  BY DEF OrdersInv
<1>2. QED BY OrdersAlways, <1>1, PTL

\* listAllCached and createCompany: two records of one client are made within two
\* ticks of each other or not at all, however many processes keep lists.
THEOREM ClientFoundAgain == CreateSpec => []FoundTheNextTime
<1>1. OrdersInv => FoundTheNextTime
  BY DEF OrdersInv
<1>2. QED BY OrdersAlways, <1>1, PTL

\* What OneOrderPerCall says of one call.
OnceOrHidden(c) ==
  /\ Cardinality(OrdersOf(c)) <= 2
  /\ Cardinality(OrdersOf(c)) = 2 => Min(OrdersOf(c)) \in call[c].unseen

LEMMA TwiceCounted ==
  ASSUME OrdersInv, NEW c \in Call, Alone(c)
  PROVE  OnceOrHidden(c)
<1> DEFINE S == OrdersOf(c)
<1>1. Twice(c) /\ \A i \in S : i \in Nat
  <2>1. OrdersTyped /\ Mine(c)
    BY DEF OrdersInv
  <2>2. QED BY <2>1, OrdersTypes DEF Mine, Posted, OrdersOf
<1>2. CASE S = {}
  BY <1>2, FS_EmptySet DEF OnceOrHidden
<1>3. CASE \E i \in S : S = {i}
  <2>1. Cardinality(S) = 1
    BY <1>3, FS_Singleton
  <2>2. QED BY <2>1 DEF OnceOrHidden
<1>4. CASE \E i, j \in S : i < j
  <2>1. PICK i \in S, j \in S : i < j
    BY <1>4
  <2>2. S = {i, j} /\ i \in call[c].unseen /\ i \in Nat /\ j \in Nat
    BY <1>1, <2>1 DEF Twice
  <2>3. Cardinality(S) = 2
    <3>1. IsFiniteSet({i}) /\ Cardinality({i}) = 1
      BY FS_Singleton
    <3>2. {i, j} = {i} \cup {j} /\ j \notin {i}
      BY <2>1, <2>2
    <3>3. Cardinality({i} \cup {j}) = 1 + 1
      BY <3>1, <3>2, FS_AddElement
    <3>4. QED BY <2>2, <3>2, <3>3
  <2>4. \A x \in S : (\A y \in S : x =< y) => x = i
    BY <2>1, <2>2
  <2>5. i \in S /\ \A y \in S : i =< y
    BY <2>1, <2>2
  <2>6. Min(S) = i
    BY <2>4, <2>5 DEF Min
  <2>7. QED BY <2>2, <2>3, <2>6 DEF OnceOrHidden
<1>5. S = {} \/ (\E i \in S : S = {i}) \/ \E i, j \in S : i < j
  <2>1. \A i, j \in S : i # j => i < j \/ j < i
    BY <1>1
  <2>2. QED BY <2>1
<1>6. QED BY <1>2, <1>3, <1>4, <1>5

\* createOrder, of every booking: its second order was posted only when OnSinch had
\* applied the first, answered 5xx and hidden it from both looks, and there is no
\* third, with any number of canaries and of other calls of the same name.
THEOREM OnceABooking == CreateSpec => []OneOrderPerCall
<1>1. OrdersInv => OneOrderPerCall
  <2> SUFFICES ASSUME OrdersInv, NEW c \in Call \ Canary PROVE OnceOrHidden(c)
    BY DEF OneOrderPerCall, OnceOrHidden
  <2>1. Alone(c)
    BY CreateAssumption DEF Alone
  <2>2. QED BY <2>1, TwiceCounted
<1>2. QED BY OrdersAlways, <1>1, PTL

-----------------------------------------------------------------------------
(* The copy of OnSinch. *)

Places == {"idle", "page", "cursor", "late", "complete", "contacts", "drop", "refreshed",
           "list", "confirm", "linked", "keep"}
PullState == [pc : Places, at : 0..MaxPulls, day : 0..MaxDay, started : 0..MaxRow,
              from : 0..MaxRow, pages : Nat, read : SUBSET (Row \cup {"all"})]

CopyTyped ==
  /\ rows \in 0..MaxRow /\ deletedIn \subseteq Create \cap 1..rows /\ day \in 1..MaxDay
  /\ timeline \subseteq 1..rows /\ tlCursor \in 0..rows /\ completeAt \in 0..rows
  /\ lateRead \in BOOLEAN
  /\ contacts \in [Contact -> 0..MaxPulls] /\ \A c \in Contact : contacts[c] <= pulls
  /\ metaDay \in [contacts : 0..MaxDay, orders : 0..MaxDay]
  /\ metaDay.contacts <= day /\ metaDay.orders <= day
  /\ marked \subseteq Create
  /\ pull \in [Pull -> PullState] /\ pulls \in 0..MaxPulls /\ pullStops \in 0..PullStops
  /\ \A p \in Pull : /\ pull[p].started <= rows /\ pull[p].from <= rows
                     /\ pull[p].day <= day /\ pull[p].at <= pulls

\* The rows there are to keep, as far as the late ones were looked for.
KeptRows == (1..rows) \ (Other \cup deletedIn \cup IF lateRead THEN {} ELSE Late)

\* Up to x, they are stored.
Whole(x) == \A r \in KeptRows : r <= x => r \in timeline

\* The cursor, the time of completeness and each pull stand where all is stored,
\* and a pull that read the last page stands where it began, too.
RowsCovered ==
  /\ Whole(tlCursor) /\ Whole(completeAt)
  /\ \A p \in Pull :
       LET l == pull[p] IN
       /\ l.pc \in {"page", "cursor"} => Whole(l.from)
       /\ l.pc = "cursor" /\ l.read = {"all"} => Whole(l.started)
       /\ l.pc \in {"late", "complete"} => Whole(l.started)

\* What is marked is deleted, and what a pull is about to mark.
Known ==
  /\ marked \subseteq deletedIn
  /\ \A p \in Pull : pull[p].pc = "keep" => pull[p].read \subseteq deletedIn

CopyInv == CopyTyped /\ RowsCovered /\ Known

-----------------------------------------------------------------------------
(* A page.                                                                  *)

LEMMA GreatestRow ==
  ASSUME NEW n \in Nat, NEW S, S \subseteq 0..n, S # {}
  PROVE  Max(S) \in S /\ \A y \in S : y <= Max(S)
<1> DEFINE T == {k \in Nat : n - k \in S}
<1>1. PICK x \in S : TRUE
  OBVIOUS
<1>2. n - x \in Nat /\ n - (n - x) = x
  OBVIOUS
<1>3. n - x \in T
  BY <1>2
<1>4. PICK t \in T : \A y \in T : t <= y
  BY <1>3, LeastRow
<1>5. ASSUME NEW y \in S PROVE y <= n - t
  <2>1. n - y \in T /\ y \in Nat
    OBVIOUS
  <2>2. t <= n - y /\ t \in Nat
    BY <2>1, <1>4
  <2>3. QED BY <2>1, <2>2
<1>6. n - t \in S /\ \A y \in S : n - t >= y
  BY <1>4, <1>5
<1>7. QED BY <1>6 DEF Max

\* The rows OnSinch shows from one place up to another.
Shown(from, r) == ((from + 1)..r) \ deletedIn

LEMMA ShownCount ==
  ASSUME NEW from \in Nat, NEW r \in Nat
  PROVE  /\ IsFiniteSet(Shown(from, r)) /\ Cardinality(Shown(from, r)) \in Nat
         /\ \A q \in Nat : q <= r => Cardinality(Shown(from, q)) <= Cardinality(Shown(from, r))
<1>1. IsFiniteSet((from + 1)..r)
  BY FS_Interval
<1>2. IsFiniteSet(Shown(from, r))
  BY <1>1, FS_Subset DEF Shown
<1>3. \A q \in Nat : q <= r => Shown(from, q) \subseteq Shown(from, r)
  BY DEF Shown
<1>4. QED
  BY <1>2, <1>3, FS_Subset, FS_CardinalityType

\* A page is the first rows that are shown; when it is not full, all of them.
LEMMA PageIs ==
  ASSUME NEW from \in Nat, rows \in Nat, PageSize \in Nat \ {0}
  PROVE  LET page == Page(from) IN
         /\ page \subseteq (from + 1)..rows /\ page \cap deletedIn = {}
         /\ page # {} => Max(page) \in page /\ \A r \in Shown(from, Max(page)) : r \in page
         /\ page = {} \/ Cardinality(page) < PageSize => Shown(from, rows) \subseteq page
<1> DEFINE page == Page(from)
<1>1. /\ page \subseteq (from + 1)..rows /\ page \cap deletedIn = {}
      /\ page = {r \in (from + 1)..rows : r \notin deletedIn /\ Cardinality(Shown(from, r)) <= PageSize}
  BY DEF Page, Shown
<1> HIDE DEF page
<1>2. ASSUME page # {}
      PROVE  Max(page) \in page /\ \A r \in Shown(from, Max(page)) : r \in page
  <2>1. page \subseteq 0..rows
    BY <1>1
  <2>2. Max(page) \in page
    BY <1>2, <2>1, GreatestRow
  <2>3. ASSUME NEW r \in Shown(from, Max(page)) PROVE r \in page
    <3>1. Max(page) \in (from + 1)..rows /\ Cardinality(Shown(from, Max(page))) <= PageSize
      BY <1>1, <2>2
    <3>2. r \in (from + 1)..rows /\ r \notin deletedIn /\ r \in Nat /\ r <= Max(page) /\ Max(page) \in Nat
      BY <3>1 DEF Shown
    <3>3. Cardinality(Shown(from, r)) <= Cardinality(Shown(from, Max(page)))
      BY <3>2, ShownCount
    <3>4. Cardinality(Shown(from, r)) \in Nat /\ Cardinality(Shown(from, Max(page))) \in Nat
      BY <3>2, ShownCount
    <3>5. QED BY <1>1, <3>1, <3>2, <3>3, <3>4
  <2>4. QED BY <2>2, <2>3
<1>3. ASSUME ~(Shown(from, rows) \subseteq page)
      PROVE  page # {} /\ ~(Cardinality(page) < PageSize)
  <2> DEFINE Left == Shown(from, rows) \ page
  <2>1. Left \subseteq Nat /\ Left # {}
    BY <1>3 DEF Shown
  <2>2. PICK r \in Left : \A q \in Left : r <= q
    BY <2>1, LeastRow
  <2>3. r \in (from + 1)..rows /\ r \notin deletedIn /\ r \notin page /\ r \in Nat
    BY <2>1, <2>2 DEF Shown
  <2> DEFINE S == Shown(from, r)
  <2>4. Cardinality(S) > PageSize /\ Cardinality(S) \in Nat /\ IsFiniteSet(S)
    BY <1>1, <2>3, ShownCount
  <2>5. r \in S
    BY <2>3 DEF Shown
  <2>6. S \ {r} \subseteq page
    <3> SUFFICES ASSUME NEW q \in S, q # r PROVE q \in page
      OBVIOUS
    <3>1. q \in Shown(from, rows) /\ q < r
      BY <2>3 DEF Shown
    <3>2. q \notin Left
      BY <2>2, <2>1, <2>3, <3>1 DEF Shown
    <3>3. QED BY <3>1, <3>2
  <2> HIDE DEF S, Left
  <2>7. IsFiniteSet(page)
    <3>1. IsFiniteSet((from + 1)..rows)
      BY FS_Interval
    <3>2. QED BY <1>1, <3>1, FS_Subset
  <2>8. Cardinality(S \ {r}) = Cardinality(S) - 1
    BY <2>4, <2>5, FS_RemoveElement
  <2>9. Cardinality(S \ {r}) <= Cardinality(page) /\ Cardinality(page) \in Nat
    BY <2>6, <2>7, FS_Subset, FS_CardinalityType
  <2>10. Cardinality(page) >= PageSize /\ Cardinality(page) > 0
    BY <2>4, <2>8, <2>9
  <2>11. page # {}
    BY <2>10, FS_EmptySet
  <2>12. QED BY <2>9, <2>10, <2>11
<1>4. QED BY <1>1, <1>2, <1>3 DEF page

-----------------------------------------------------------------------------
(* CopyTypes.                                                                   *)

LEMMA MirrorConstants ==
  /\ MaxRow \in Nat /\ Start \in 0..MaxRow /\ PageSize \in Nat \ {0} /\ MaxPulls \in Nat
  /\ MaxDay \in Nat \ {0} /\ PullStops \in Nat
  /\ Create \subseteq Row /\ Other \subseteq Row /\ Late \subseteq 1..Start /\ Row \subseteq Nat
BY MirrorAssumption DEF Row

LEMMA CopyTypes ==
  ASSUME CopyTyped
  PROVE  /\ rows \in Nat /\ rows <= MaxRow /\ tlCursor \in Nat /\ tlCursor <= rows
         /\ completeAt \in Nat /\ completeAt <= rows /\ pull \in [Pull -> PullState]
         /\ \A p \in Pull :
              LET l == pull[p] IN
              /\ l \in PullState /\ l.pc \in Places /\ l.at \in 0..MaxPulls /\ l.day \in 0..MaxDay
              /\ l.started \in 0..MaxRow /\ l.from \in 0..MaxRow /\ l.pages \in Nat
              /\ l.read \subseteq Row \cup {"all"}
              /\ l.started <= rows /\ l.from <= rows /\ l.day <= day /\ l.at <= pulls
<1> USE MirrorConstants
<1>1. \A l \in PullState :
        /\ l.pc \in Places /\ l.at \in 0..MaxPulls /\ l.day \in 0..MaxDay
        /\ l.started \in 0..MaxRow /\ l.from \in 0..MaxRow /\ l.pages \in Nat
        /\ l.read \subseteq Row \cup {"all"}
  BY DEF PullState
<1>2. pull \in [Pull -> PullState]
      /\ \A p \in Pull : pull[p].started <= rows /\ pull[p].from <= rows
                         /\ pull[p].day <= day /\ pull[p].at <= pulls
  BY DEF CopyTyped
<1>3. \A p \in Pull : pull[p] \in PullState
  BY <1>2
<1>4. /\ rows \in Nat /\ rows <= MaxRow /\ tlCursor \in Nat /\ tlCursor <= rows
      /\ completeAt \in Nat /\ completeAt <= rows
  BY DEF CopyTyped
<1>5. QED BY <1>1, <1>2, <1>3, <1>4

LEMMA CopyInitInv == MirrorInit => CopyInv
<1> SUFFICES ASSUME MirrorInit PROVE CopyInv
  OBVIOUS
<1> USE MirrorConstants
<1>1. NotPulling \in PullState /\ NotPulling.pc = "idle" /\ NotPulling.started = 0
      /\ NotPulling.from = 0 /\ NotPulling.day = 0 /\ NotPulling.at = 0
  BY DEF NotPulling, PullState, Places
<1>2. \A p \in Pull : pull[p] = NotPulling
  BY DEF MirrorInit
<1>3. pull \in [Pull -> PullState]
  BY <1>1 DEF MirrorInit
<1>4. /\ rows = Start /\ deletedIn = {} /\ day = 1 /\ timeline = (1..Start) \ (Other \cup Late)
      /\ tlCursor = Start /\ completeAt = 0 /\ lateRead = FALSE /\ marked = {} /\ pulls = 0 /\ pullStops = 0
      /\ contacts = [c \in Contact |-> 0] /\ metaDay = [contacts |-> 0, orders |-> 0]
  BY DEF MirrorInit
<1>5. CopyTyped
  <2>1. /\ rows \in 0..MaxRow /\ deletedIn \subseteq Create \cap 1..rows /\ day \in 1..MaxDay
        /\ timeline \subseteq 1..rows /\ tlCursor \in 0..rows /\ completeAt \in 0..rows
        /\ lateRead \in BOOLEAN /\ marked \subseteq Create
        /\ pulls \in 0..MaxPulls /\ pullStops \in 0..PullStops
    <3>1. 0 \in 0..MaxPulls /\ 0 \in 0..PullStops /\ 1 \in 1..MaxDay /\ 0 \in 0..Start /\ Start \in 0..Start
      OBVIOUS
    <3>2. QED BY <1>4, <3>1
  <2>2. contacts \in [Contact -> 0..MaxPulls] /\ \A c \in Contact : contacts[c] <= pulls
    BY <1>4
  <2>3. /\ metaDay \in [contacts : 0..MaxDay, orders : 0..MaxDay]
        /\ metaDay.contacts <= day /\ metaDay.orders <= day
    BY <1>4
  <2>4. \A p \in Pull : /\ pull[p].started <= rows /\ pull[p].from <= rows
                        /\ pull[p].day <= day /\ pull[p].at <= pulls
    BY <1>1, <1>2, <1>4
  <2>5. QED BY <1>3, <2>1, <2>2, <2>3, <2>4 DEF CopyTyped
<1>6. RowsCovered
  BY <1>1, <1>2, <1>4 DEF RowsCovered, Whole, KeptRows
<1>7. Known
  BY <1>1, <1>2, <1>4 DEF Known
<1>8. QED BY <1>5, <1>6, <1>7 DEF CopyInv

\* A pull's step keeps the types when its locals do.
LEMMA PullTyped ==
  ASSUME CopyTyped, NEW p \in Pull, NEW l \in PullState, PullTo(p, l),
         l.started <= rows, l.from <= rows, l.day <= day, l.at <= pulls',
         UNCHANGED outside, pulls' \in 0..MaxPulls, pulls <= pulls', pullStops' \in 0..PullStops
  PROVE  /\ pull' \in [Pull -> PullState]
         /\ \A q \in Pull : /\ pull'[q].started <= rows' /\ pull'[q].from <= rows'
                            /\ pull'[q].day <= day' /\ pull'[q].at <= pulls'
         /\ pull'[p] = l /\ \A q \in Pull \ {p} : pull'[q] = pull[q]
         /\ rows' \in 0..MaxRow /\ deletedIn' \subseteq Create \cap 1..rows' /\ day' \in 1..MaxDay
         /\ pulls' \in 0..MaxPulls /\ pullStops' \in 0..PullStops
<1> USE MirrorConstants, CopyTypes
<1>1. pull' = [pull EXCEPT ![p] = l]
  BY DEF PullTo
<1>2. pull'[p] = l /\ \A q \in Pull \ {p} : pull'[q] = pull[q]
  BY <1>1
<1>3. UNCHANGED <<rows, deletedIn, day>>
  BY DEF outside
<1>4. ASSUME NEW q \in Pull
      PROVE  /\ pull'[q].started <= rows' /\ pull'[q].from <= rows'
             /\ pull'[q].day <= day' /\ pull'[q].at <= pulls'
  <2>1. CASE q = p
    BY <1>2, <1>3, <2>1
  <2>2. CASE q # p
    <3>1. pull'[q] = pull[q] /\ pull[q].at <= pulls /\ pull[q].at \in Nat /\ pulls \in Nat /\ pulls' \in Nat
      BY <1>2, <2>2 DEF CopyTyped
    <3>2. QED BY <1>3, <3>1
  <2>3. QED BY <2>1, <2>2
<1>5. QED
  BY <1>1, <1>2, <1>3, <1>4 DEF CopyTyped

\* Up to x the rows to keep are stored after the step.
WholeNext(x) == \A r \in KeptRows' : r <= x => r \in timeline'

\* What a pull's step has to show.
LEMMA PullMoves ==
  ASSUME CopyInv, NEW p \in Pull, NEW l \in PullState, PullTo(p, l),
         l.started <= rows, l.from <= rows, l.day <= day, l.at <= pulls',
         UNCHANGED outside, pulls' \in 0..MaxPulls, pulls <= pulls', pullStops' \in 0..PullStops,
         timeline' \subseteq 1..rows, tlCursor' \in 0..rows, completeAt' \in 0..rows, lateRead' \in BOOLEAN,
         contacts' \in [Contact -> 0..MaxPulls], \A c \in Contact : contacts'[c] <= pulls',
         metaDay' \in [contacts : 0..MaxDay, orders : 0..MaxDay],
         metaDay'.contacts <= day, metaDay'.orders <= day,
         timeline \subseteq timeline', \A r \in KeptRows' : r \in KeptRows \/ r \in timeline',
         tlCursor' = tlCursor \/ WholeNext(tlCursor'),
         completeAt' = completeAt \/ WholeNext(completeAt'),
         l.pc \in {"page", "cursor"} => WholeNext(l.from),
         l.pc = "cursor" /\ l.read = {"all"} => WholeNext(l.started),
         l.pc \in {"late", "complete"} => WholeNext(l.started),
         marked' \subseteq deletedIn, l.pc = "keep" => l.read \subseteq deletedIn
  PROVE  CopyInv'
<1>1. CopyTyped /\ RowsCovered /\ Known
  BY DEF CopyInv
<1>2. UNCHANGED <<rows, deletedIn, day>>
  BY DEF outside
<1>3. /\ pull' \in [Pull -> PullState]
      /\ \A q \in Pull : /\ pull'[q].started <= rows' /\ pull'[q].from <= rows'
                         /\ pull'[q].day <= day' /\ pull'[q].at <= pulls'
      /\ pull'[p] = l /\ \A q \in Pull \ {p} : pull'[q] = pull[q]
      /\ rows' \in 0..MaxRow /\ deletedIn' \subseteq Create \cap 1..rows' /\ day' \in 1..MaxDay
      /\ pulls' \in 0..MaxPulls /\ pullStops' \in 0..PullStops
  BY <1>1, PullTyped
<1>4. CopyTyped'
  <2>1. marked' \subseteq Create
    BY <1>1 DEF CopyTyped
  <2>2. QED BY <1>2, <1>3, <2>1 DEF CopyTyped
<1>5. Whole(tlCursor)' /\ Whole(completeAt)'
  BY <1>1 DEF RowsCovered, Whole, WholeNext
<1>6. ASSUME NEW q \in Pull
      PROVE  LET v == pull'[q] IN
             /\ v.pc \in {"page", "cursor"} => WholeNext(v.from)
             /\ v.pc = "cursor" /\ v.read = {"all"} => WholeNext(v.started)
             /\ v.pc \in {"late", "complete"} => WholeNext(v.started)
  <2>1. CASE q = p
    BY <1>3, <2>1
  <2>2. CASE q # p
    BY <1>1, <1>3, <2>2 DEF RowsCovered, Whole, WholeNext
  <2>3. QED BY <2>1, <2>2
<1>7. RowsCovered'
  BY <1>5, <1>6 DEF RowsCovered, Whole, WholeNext
<1>8. Known'
  <2>1. \A q \in Pull : pull'[q].pc = "keep" => pull'[q].read \subseteq deletedIn
    BY <1>1, <1>3 DEF Known
  <2>2. QED BY <1>2, <2>1 DEF Known
<1>9. QED BY <1>4, <1>7, <1>8 DEF CopyInv

\* The steps that have to do with no timeline row.
LEMMA OtherPullMoves ==
  ASSUME CopyInv, NEW p \in Pull, NEW l \in PullState, PullTo(p, l),
         l.started <= rows, l.from <= rows, l.day <= day, l.at <= pulls,
         UNCHANGED <<outside, timelineRows, pulls>>, pullStops' \in 0..PullStops,
         contacts' \in [Contact -> 0..MaxPulls], \A c \in Contact : contacts'[c] <= pulls,
         metaDay' \in [contacts : 0..MaxDay, orders : 0..MaxDay],
         metaDay'.contacts <= day, metaDay'.orders <= day,
         l.pc \notin {"page", "cursor", "late", "complete"},
         marked' \subseteq deletedIn, l.pc = "keep" => l.read \subseteq deletedIn
  PROVE  CopyInv'
<1>1. UNCHANGED <<timeline, tlCursor, completeAt, lateRead>> /\ UNCHANGED <<rows, deletedIn, day>>
      /\ UNCHANGED pulls /\ UNCHANGED outside
  BY DEF timelineRows, outside
<1>2. /\ timeline' \subseteq 1..rows /\ tlCursor' \in 0..rows /\ completeAt' \in 0..rows /\ lateRead' \in BOOLEAN
      /\ pulls \in 0..MaxPulls
  BY <1>1 DEF CopyInv, CopyTyped
<1>3. \A r \in KeptRows' : r \in KeptRows
  BY <1>1 DEF KeptRows
<1>4. l.at <= pulls' /\ pulls <= pulls' /\ \A c \in Contact : contacts'[c] <= pulls'
  BY <1>1, <1>2
<1>5. timeline \subseteq timeline' /\ tlCursor' = tlCursor /\ completeAt' = completeAt /\ pulls' \in 0..MaxPulls
  BY <1>1, <1>2
<1>6. QED
  BY <1>1, <1>2, <1>3, <1>4, <1>5, PullMoves

\* A pull that is over.
LEMMA EndMoves ==
  ASSUME CopyInv, NEW p \in Pull, PullTo(p, NotPulling),
         UNCHANGED <<outside, timelineRows, pulls, contacts, metaDay>>, pullStops' \in 0..PullStops,
         marked' \subseteq deletedIn
  PROVE  CopyInv'
<1>1. NotPulling \in PullState /\ NotPulling.pc = "idle" /\ NotPulling.started = 0
      /\ NotPulling.from = 0 /\ NotPulling.day = 0 /\ NotPulling.at = 0
  BY MirrorConstants DEF NotPulling, PullState, Places
<1>2. 0 <= rows /\ 0 <= day /\ 0 <= pulls
  BY DEF CopyInv, CopyTyped
<1>3. /\ contacts' \in [Contact -> 0..MaxPulls] /\ \A c \in Contact : contacts'[c] <= pulls
      /\ metaDay' \in [contacts : 0..MaxDay, orders : 0..MaxDay]
      /\ metaDay'.contacts <= day /\ metaDay'.orders <= day
      /\ UNCHANGED <<outside, timelineRows, pulls>>
  BY DEF CopyInv, CopyTyped
<1>4. /\ NotPulling.started <= rows /\ NotPulling.from <= rows /\ NotPulling.day <= day /\ NotPulling.at <= pulls
      /\ NotPulling.pc \notin {"page", "cursor", "late", "complete", "keep"}
  BY <1>1, <1>2
<1>5. QED
  BY <1>1, <1>3, <1>4, OtherPullMoves

-----------------------------------------------------------------------------
(* The steps.                                                               *)

LEMMA LogRowInv ==
  ASSUME CopyInv, LogRow
  PROVE  CopyInv'
<1> USE MirrorConstants, CopyTypes
<1>1. /\ rows' = rows + 1 /\ rows < MaxRow
      /\ UNCHANGED <<deletedIn, day, timeline, tlCursor, completeAt, lateRead>>
      /\ UNCHANGED <<contacts, metaDay, marked, pull, pulls, pullStops>>
  BY DEF LogRow, timelineRows
<1>2. CopyTyped /\ RowsCovered /\ Known
  BY DEF CopyInv
<1>3. CopyTyped'
  <2>1. rows' \in 0..MaxRow /\ rows <= rows' /\ 1..rows \subseteq 1..rows' /\ 0..rows \subseteq 0..rows'
    BY <1>1, <1>2
  <2>2. \A p \in Pull : pull[p].started <= rows' /\ pull[p].from <= rows'
    BY <1>2, <2>1
  <2>3. QED BY <1>1, <1>2, <2>1, <2>2 DEF CopyTyped
<1>4. \A x \in 0..rows : Whole(x) => WholeNext(x)
  <2>1. \A r \in KeptRows' : r \in KeptRows \/ r = rows + 1
    BY <1>1, <1>2 DEF KeptRows
  <2>2. QED BY <1>1, <1>2, <2>1 DEF Whole, WholeNext
<1>5. tlCursor \in 0..rows /\ completeAt \in 0..rows
      /\ \A p \in Pull : pull[p].from \in 0..rows /\ pull[p].started \in 0..rows
  BY <1>2
<1>6. RowsCovered'
  <2>1. WholeNext(tlCursor) /\ WholeNext(completeAt)
    BY <1>2, <1>4, <1>5 DEF RowsCovered
  <2>2. ASSUME NEW p \in Pull
        PROVE  LET l == pull[p] IN
               /\ l.pc \in {"page", "cursor"} => WholeNext(l.from)
               /\ l.pc = "cursor" /\ l.read = {"all"} => WholeNext(l.started)
               /\ l.pc \in {"late", "complete"} => WholeNext(l.started)
    BY <1>2, <1>4, <1>5 DEF RowsCovered
  <2>3. QED BY <1>1, <2>1, <2>2 DEF RowsCovered, Whole, WholeNext
<1>7. Known'
  BY <1>1, <1>2 DEF Known
<1>8. QED BY <1>3, <1>6, <1>7 DEF CopyInv

LEMMA DeleteInOnsinchInv ==
  ASSUME CopyInv, DeleteInOnsinch
  PROVE  CopyInv'
<1>1. /\ \E o \in (Create \cap 1..rows) \ deletedIn : deletedIn' = deletedIn \cup {o}
      /\ UNCHANGED <<rows, day, timeline, tlCursor, completeAt, lateRead>>
      /\ UNCHANGED <<contacts, metaDay, marked, pull, pulls, pullStops>>
  BY DEF DeleteInOnsinch, timelineRows
<1>2. deletedIn \subseteq deletedIn'
  BY <1>1
<1>3. CopyTyped'
  <2>1. deletedIn' \subseteq Create \cap 1..rows
    BY <1>1 DEF CopyInv, CopyTyped
  <2>2. QED BY <1>1, <2>1 DEF CopyInv, CopyTyped
<1>4. KeptRows' \subseteq KeptRows
  BY <1>1, <1>2 DEF KeptRows
<1>5. RowsCovered'
  BY <1>1, <1>4 DEF CopyInv, RowsCovered, Whole
<1>6. Known'
  BY <1>1, <1>2 DEF CopyInv, Known
<1>7. QED BY <1>3, <1>5, <1>6 DEF CopyInv

LEMMA NextDayInv ==
  ASSUME CopyInv, NextDay
  PROVE  CopyInv'
<1> USE MirrorConstants, CopyTypes
<1>1. /\ day' = day + 1 /\ day < MaxDay
      /\ UNCHANGED <<rows, deletedIn, timeline, tlCursor, completeAt, lateRead>>
      /\ UNCHANGED <<contacts, metaDay, marked, pull, pulls, pullStops>>
  BY DEF NextDay, timelineRows
<1>2. CopyTyped'
  <2>1. day \in 1..MaxDay /\ metaDay.contacts \in 0..MaxDay /\ metaDay.orders \in 0..MaxDay
        /\ metaDay.contacts <= day /\ metaDay.orders <= day
        /\ \A p \in Pull : pull[p].day \in 0..MaxDay /\ pull[p].day <= day
    BY DEF CopyInv, CopyTyped
  <2>2. /\ day' \in 1..MaxDay /\ metaDay.contacts <= day' /\ metaDay.orders <= day'
        /\ \A p \in Pull : pull[p].day <= day'
    BY <1>1, <2>1
  <2>3. QED BY <1>1, <2>2 DEF CopyInv, CopyTyped
<1>3. RowsCovered'
  BY <1>1 DEF CopyInv, RowsCovered, Whole, KeptRows
<1>4. Known'
  BY <1>1 DEF CopyInv, Known
<1>5. QED BY <1>2, <1>3, <1>4 DEF CopyInv

LEMMA StartPullInv ==
  ASSUME CopyInv, NEW p \in Pull, StartPull(p)
  PROVE  CopyInv'
<1> USE MirrorConstants, CopyTypes
<1> DEFINE l == [NotPulling EXCEPT !.pc = "page", !.at = pulls', !.day = day, !.started = rows, !.from = tlCursor]
<1>1. /\ CopyTyped /\ RowsCovered /\ Known /\ PullTo(p, l) /\ pulls' = pulls + 1 /\ pulls < MaxPulls
      /\ UNCHANGED <<outside, contacts, metaDay, marked, pullStops>>
      /\ UNCHANGED <<timeline, tlCursor, completeAt, lateRead>> /\ UNCHANGED <<rows, deletedIn, day>>
  BY DEF CopyInv, StartPull, timelineRows, outside
<1>2. pulls' \in 0..MaxPulls /\ pulls <= pulls' /\ pulls \in Nat
  BY <1>1 DEF CopyTyped
<1>3. /\ l \in PullState /\ l.pc = "page" /\ l.at = pulls' /\ l.day = day /\ l.started = rows
      /\ l.from = tlCursor
  <2>1. day \in 0..MaxDay /\ rows \in 0..MaxRow /\ tlCursor \in 0..MaxRow
    BY <1>1 DEF CopyTyped
  <2>2. QED BY <1>2, <2>1 DEF NotPulling, PullState, Places
<1> HIDE DEF l
<1>4. /\ l.started <= rows /\ l.from <= rows /\ l.day <= day /\ l.at <= pulls'
      /\ pullStops' \in 0..PullStops
  BY <1>1, <1>2, <1>3 DEF CopyTyped
<1>5. /\ timeline' \subseteq 1..rows /\ tlCursor' \in 0..rows /\ completeAt' \in 0..rows /\ lateRead' \in BOOLEAN
      /\ contacts' \in [Contact -> 0..MaxPulls] /\ metaDay' \in [contacts : 0..MaxDay, orders : 0..MaxDay]
      /\ metaDay'.contacts <= day /\ metaDay'.orders <= day
  BY <1>1 DEF CopyTyped
<1>6. \A c \in Contact : contacts'[c] <= pulls'
  <2>1. \A c \in Contact : contacts[c] \in 0..MaxPulls /\ contacts[c] <= pulls
    BY <1>1 DEF CopyTyped
  <2>2. QED BY <1>1, <1>2, <2>1
<1>7. \A r \in KeptRows' : r \in KeptRows
  BY <1>1 DEF KeptRows
<1>8. WholeNext(l.from)
  BY <1>1, <1>3, <1>7 DEF WholeNext, RowsCovered, Whole
<1>9. timeline \subseteq timeline' /\ tlCursor' = tlCursor /\ completeAt' = completeAt /\ marked' \subseteq deletedIn
  BY <1>1 DEF Known
<1>10. l.pc \notin {"cursor", "late", "complete", "keep"}
  BY <1>3
<1>11. QED
  BY <1>1, <1>2, <1>3, <1>4, <1>5, <1>6, <1>7, <1>8, <1>9, <1>10, PullMoves

\* The page is read: what it shows is stored, and it shows all when it is not full.
LEMMA ReadTimelinePageInv ==
  ASSUME CopyInv, NEW p \in Pull, ReadTimelinePage(p)
  PROVE  CopyInv'
<1> USE MirrorConstants, CopyTypes
<1> DEFINE v == pull[p]
           page == Page(v.from)
           ended == [v EXCEPT !.pc = "late", !.from = 0, !.pages = 0]
           last == IF Cardinality(page) < PageSize THEN {"all"} ELSE {}
           gone == [v EXCEPT !.pc = "cursor", !.from = Max(page), !.pages = @ + 1, !.read = last]
<1>1. /\ CopyTyped /\ RowsCovered /\ Known /\ v.pc = "page" /\ v \in PullState /\ v.from \in 0..rows
      /\ UNCHANGED <<outside, contacts, metaDay, marked, pulls, pullStops>>
      /\ UNCHANGED <<tlCursor, completeAt, lateRead>> /\ UNCHANGED <<rows, deletedIn, day>>
  BY DEF CopyInv, ReadTimelinePage, outside, At
<1>2. /\ page \subseteq (v.from + 1)..rows /\ page \cap deletedIn = {}
      /\ page # {} => Max(page) \in page /\ \A r \in Shown(v.from, Max(page)) : r \in page
      /\ page = {} \/ Cardinality(page) < PageSize => Shown(v.from, rows) \subseteq page
  BY <1>1, PageIs
<1>3. /\ page = {} => PullTo(p, ended) /\ timeline' = timeline
      /\ page # {} => PullTo(p, gone) /\ timeline' = timeline \cup (page \ Other)
  BY DEF ReadTimelinePage
<1> HIDE DEF page
<1>4. Whole(v.from) /\ timeline \subseteq timeline' /\ page \ Other \subseteq timeline'
  BY <1>1, <1>3 DEF RowsCovered
<1>5. \A r \in KeptRows' : r \in KeptRows
  BY <1>1 DEF KeptRows
<1>6. \A x \in 0..rows : Shown(v.from, x) \subseteq page => WholeNext(x)
  <2> SUFFICES ASSUME NEW x \in 0..rows, Shown(v.from, x) \subseteq page, NEW r \in KeptRows', r <= x
               PROVE  r \in timeline'
    BY DEF WholeNext
  <2>1. r \in KeptRows /\ r \in 1..rows /\ r \notin Other /\ r \notin deletedIn
    BY <1>5 DEF KeptRows
  <2>2. CASE r <= v.from
    BY <1>4, <2>1, <2>2 DEF Whole
  <2>3. CASE ~(r <= v.from)
    <3>1. r \in (v.from + 1)..x
      BY <1>1, <2>1, <2>3
    <3>2. r \in page
      BY <2>1, <3>1 DEF Shown
    <3>3. QED BY <1>4, <2>1, <3>2
  <2>4. QED BY <2>2, <2>3
<1>7. page = {} \/ Cardinality(page) < PageSize => WholeNext(v.started)
  <2>1. v.started \in 0..rows
    BY <1>1
  <2>2. Shown(v.from, v.started) \subseteq Shown(v.from, rows)
    BY <1>1, <2>1 DEF Shown
  <2>3. QED BY <1>2, <1>6, <2>1, <2>2
<1>8. page # {} => WholeNext(Max(page)) /\ Max(page) \in 0..rows
  <2>1. page # {} => Max(page) \in 0..rows
    <3>1. (v.from + 1)..rows \subseteq 0..rows
      BY <1>1
    <3>2. QED BY <1>2, <3>1
  <2>2. QED BY <1>2, <1>6, <2>1
<1>9. /\ tlCursor' \in 0..rows /\ completeAt' \in 0..rows /\ lateRead' \in BOOLEAN
      /\ contacts' \in [Contact -> 0..MaxPulls] /\ metaDay' \in [contacts : 0..MaxDay, orders : 0..MaxDay]
      /\ metaDay'.contacts <= day /\ metaDay'.orders <= day
      /\ \A c \in Contact : contacts'[c] <= pulls'
      /\ pulls' \in 0..MaxPulls /\ pulls <= pulls' /\ pullStops' \in 0..PullStops
  BY <1>1 DEF CopyTyped
<1>10. timeline' \subseteq 1..rows
  BY <1>1, <1>2, <1>3 DEF CopyTyped
<1>11. tlCursor' = tlCursor /\ completeAt' = completeAt /\ marked' \subseteq deletedIn
  BY <1>1 DEF Known
<1>12. CASE page = {}
  <2>1. /\ ended \in PullState /\ ended.pc = "late" /\ ended.started = v.started /\ ended.from = 0
        /\ ended.day = v.day /\ ended.at = v.at
    <3>1. v \in PullState /\ 0 \in 0..MaxRow /\ 0 \in Nat /\ "late" \in Places
      BY <1>1 DEF Places
    <3> HIDE CopyTypes
    <3>2. QED BY <3>1 DEF PullState
  <2>2. PullTo(p, ended) /\ WholeNext(ended.started)
    BY <1>3, <1>7, <1>12, <2>1
  <2> HIDE DEF ended
  <2>3. /\ ended.started <= rows /\ ended.from <= rows /\ ended.day <= day /\ ended.at <= pulls'
        /\ ended.pc \notin {"page", "cursor", "keep"}
    BY <1>1, <2>1
  <2>4. QED
    BY <1>1, <1>4, <1>5, <1>9, <1>10, <1>11, <2>1, <2>2, <2>3, PullMoves
<1>13. CASE page # {}
  <2>1. v.pages + 1 \in Nat /\ Max(page) \in 0..MaxRow
    BY <1>1, <1>8, <1>13
  <2>2. /\ gone \in PullState /\ gone.pc = "cursor" /\ gone.started = v.started /\ gone.from = Max(page)
        /\ gone.day = v.day /\ gone.at = v.at
        /\ gone.read = {"all"} => Cardinality(page) < PageSize
    <3>1. last \subseteq Row \cup {"all"} /\ (last = {"all"} => Cardinality(page) < PageSize)
      OBVIOUS
    <3> HIDE DEF last
    <3>2. QED BY <1>1, <2>1, <3>1 DEF PullState, Places
  <2>3. PullTo(p, gone)
    BY <1>3, <1>13
  <2> HIDE DEF gone
  <2>4. /\ gone.started <= rows /\ gone.from <= rows /\ gone.day <= day /\ gone.at <= pulls'
        /\ gone.pc \notin {"late", "complete", "keep"}
    BY <1>1, <1>8, <1>13, <2>2
  <2>5. WholeNext(gone.from) /\ (gone.read = {"all"} => WholeNext(gone.started))
    BY <1>7, <1>8, <1>13, <2>2
  <2>6. QED
    BY <1>1, <1>4, <1>5, <1>9, <1>10, <1>11, <2>2, <2>3, <2>4, <2>5, PullMoves
<1>14. QED BY <1>12, <1>13

LEMMA MoveTimelineCursorInv ==
  ASSUME CopyInv, NEW p \in Pull, MoveTimelineCursor(p)
  PROVE  CopyInv'
<1> USE MirrorConstants, CopyTypes
<1> DEFINE v == pull[p]
           on == [v EXCEPT !.pc = "page"]
           from == IF v.read = {"all"} THEN v.started ELSE 0
           ended == [v EXCEPT !.pc = "late", !.from = 0, !.pages = 0, !.read = {}, !.started = from]
<1>1. /\ CopyTyped /\ RowsCovered /\ Known /\ v.pc = "cursor" /\ v \in PullState /\ v.from \in 0..rows
      /\ v.started \in 0..rows /\ tlCursor' = v.from
      /\ UNCHANGED <<outside, contacts, metaDay, marked, pulls, pullStops>>
      /\ UNCHANGED <<timeline, completeAt, lateRead>> /\ UNCHANGED <<rows, deletedIn, day>>
  BY DEF CopyInv, MoveTimelineCursor, outside, At
<1>2. PullTo(p, on) \/ PullTo(p, ended)
  BY DEF MoveTimelineCursor
<1>3. \A r \in KeptRows' : r \in KeptRows
  BY <1>1 DEF KeptRows
<1>4. WholeNext(v.from) /\ (v.read = {"all"} => WholeNext(v.started))
  BY <1>1, <1>3 DEF WholeNext, RowsCovered, Whole
<1>5. WholeNext(0)
  BY <1>1 DEF WholeNext, KeptRows
<1>6. /\ timeline' \subseteq 1..rows /\ tlCursor' \in 0..rows /\ completeAt' \in 0..rows
      /\ lateRead' \in BOOLEAN /\ timeline \subseteq timeline'
      /\ contacts' \in [Contact -> 0..MaxPulls] /\ metaDay' \in [contacts : 0..MaxDay, orders : 0..MaxDay]
      /\ metaDay'.contacts <= day /\ metaDay'.orders <= day
      /\ \A c \in Contact : contacts'[c] <= pulls'
      /\ pulls' \in 0..MaxPulls /\ pulls <= pulls' /\ pullStops' \in 0..PullStops
  BY <1>1 DEF CopyTyped
<1>7. WholeNext(tlCursor') /\ completeAt' = completeAt /\ marked' \subseteq deletedIn
  BY <1>1, <1>4 DEF Known
<1>8. CASE PullTo(p, on)
  <2>1. /\ on \in PullState /\ on.pc = "page" /\ on.started = v.started /\ on.from = v.from
        /\ on.day = v.day /\ on.at = v.at
    BY <1>1 DEF PullState, Places
  <2> HIDE DEF on
  <2>2. /\ on.started <= rows /\ on.from <= rows /\ on.day <= day /\ on.at <= pulls'
        /\ on.pc \notin {"cursor", "late", "complete", "keep"} /\ WholeNext(on.from)
    BY <1>1, <1>4, <2>1
  <2>3. QED
    BY <1>1, <1>3, <1>6, <1>7, <1>8, <2>1, <2>2, PullMoves
<1>9. CASE PullTo(p, ended)
  <2>1. from \in 0..MaxRow /\ from <= rows /\ WholeNext(from)
    BY <1>1, <1>4, <1>5
  <2> HIDE DEF from
  <2>2. /\ ended \in PullState /\ ended.pc = "late" /\ ended.started = from /\ ended.from = 0
        /\ ended.day = v.day /\ ended.at = v.at
    <3>1. v \in PullState /\ 0 \in 0..MaxRow /\ 0 \in Nat /\ "late" \in Places /\ from \in 0..MaxRow
      BY <1>1, <2>1 DEF Places
    <3> HIDE CopyTypes
    <3>2. QED BY <3>1 DEF PullState
  <2> HIDE DEF ended
  <2>3. /\ ended.started <= rows /\ ended.from <= rows /\ ended.day <= day /\ ended.at <= pulls'
        /\ ended.pc \notin {"page", "cursor", "keep"} /\ WholeNext(ended.started)
    BY <1>1, <2>1, <2>2
  <2>4. QED
    BY <1>1, <1>3, <1>6, <1>7, <1>9, <2>2, <2>3, PullMoves
<1>10. QED BY <1>2, <1>8, <1>9

\* The late actions join what is kept, and all there are so far are stored.
LEMMA ReadLateActionsInv ==
  ASSUME CopyInv, NEW p \in Pull, ReadLateActions(p)
  PROVE  CopyInv'
<1> USE MirrorConstants, CopyTypes
<1> DEFINE v == pull[p]
           l == [v EXCEPT !.pc = "complete"]
<1>1. /\ CopyTyped /\ RowsCovered /\ Known /\ v.pc = "late" /\ v \in PullState
      /\ v.started \in 0..rows /\ lateRead' = TRUE /\ PullTo(p, l)
      /\ timeline' = IF lateRead THEN timeline ELSE timeline \cup {r \in Late : r <= rows}
      /\ UNCHANGED <<outside, contacts, metaDay, marked, pulls, pullStops>>
      /\ UNCHANGED <<tlCursor, completeAt>> /\ UNCHANGED <<rows, deletedIn, day>>
  BY DEF CopyInv, ReadLateActions, outside, At
<1>2. timeline \subseteq timeline' /\ timeline' \subseteq 1..rows
  BY <1>1 DEF CopyTyped
<1>3. \A r \in KeptRows' : r \in KeptRows \/ r \in timeline'
  BY <1>1 DEF KeptRows
<1>4. WholeNext(v.started)
  BY <1>1, <1>2, <1>3 DEF WholeNext, RowsCovered, Whole
<1>5. /\ tlCursor' \in 0..rows /\ completeAt' \in 0..rows /\ lateRead' \in BOOLEAN
      /\ contacts' \in [Contact -> 0..MaxPulls] /\ metaDay' \in [contacts : 0..MaxDay, orders : 0..MaxDay]
      /\ metaDay'.contacts <= day /\ metaDay'.orders <= day
      /\ \A c \in Contact : contacts'[c] <= pulls'
      /\ pulls' \in 0..MaxPulls /\ pulls <= pulls' /\ pullStops' \in 0..PullStops
  BY <1>1 DEF CopyTyped
<1>6. tlCursor' = tlCursor /\ completeAt' = completeAt /\ marked' \subseteq deletedIn
  BY <1>1 DEF Known
<1>7. /\ l \in PullState /\ l.pc = "complete" /\ l.started = v.started /\ l.from = v.from
      /\ l.day = v.day /\ l.at = v.at
  BY <1>1 DEF PullState, Places
<1> HIDE DEF l
<1>8. /\ l.started <= rows /\ l.from <= rows /\ l.day <= day /\ l.at <= pulls'
      /\ l.pc \notin {"page", "cursor", "keep"} /\ WholeNext(l.started)
  BY <1>1, <1>4, <1>7
<1>9. QED
  BY <1>1, <1>2, <1>3, <1>5, <1>6, <1>7, <1>8, PullMoves

LEMMA MarkCompleteInv ==
  ASSUME CopyInv, NEW p \in Pull, MarkComplete(p)
  PROVE  CopyInv'
<1> USE MirrorConstants, CopyTypes
<1> DEFINE v == pull[p]
           place == IF metaDay.contacts = v.day THEN "list" ELSE "contacts"
           l == [v EXCEPT !.pc = place, !.started = 0]
<1>1. /\ CopyTyped /\ RowsCovered /\ Known /\ v.pc = "complete" /\ v \in PullState
      /\ v.started \in 0..rows /\ PullTo(p, l)
      /\ completeAt' = IF v.started = 0 THEN completeAt ELSE v.started
      /\ UNCHANGED <<outside, contacts, metaDay, marked, pulls, pullStops>>
      /\ UNCHANGED <<timeline, tlCursor, lateRead>> /\ UNCHANGED <<rows, deletedIn, day>>
  BY DEF CopyInv, MarkComplete, outside, At
<1>2. \A r \in KeptRows' : r \in KeptRows
  BY <1>1 DEF KeptRows
<1>3. WholeNext(v.started)
  BY <1>1, <1>2 DEF WholeNext, RowsCovered, Whole
<1>4. /\ completeAt' \in 0..rows
      /\ completeAt' = completeAt \/ WholeNext(completeAt')
  BY <1>1, <1>3 DEF CopyTyped
<1>5. /\ timeline' \subseteq 1..rows /\ tlCursor' \in 0..rows /\ lateRead' \in BOOLEAN
      /\ timeline \subseteq timeline'
      /\ contacts' \in [Contact -> 0..MaxPulls] /\ metaDay' \in [contacts : 0..MaxDay, orders : 0..MaxDay]
      /\ metaDay'.contacts <= day /\ metaDay'.orders <= day
      /\ \A c \in Contact : contacts'[c] <= pulls'
      /\ pulls' \in 0..MaxPulls /\ pulls <= pulls' /\ pullStops' \in 0..PullStops
  BY <1>1 DEF CopyTyped
<1>6. tlCursor' = tlCursor /\ marked' \subseteq deletedIn
  BY <1>1 DEF Known
<1>7. place \in {"list", "contacts"}
  OBVIOUS
<1> HIDE DEF place
<1>8. /\ l \in PullState /\ l.pc \in {"list", "contacts"} /\ l.started = 0 /\ l.from = v.from
      /\ l.day = v.day /\ l.at = v.at
  <2>1. v \in PullState /\ 0 \in 0..MaxRow /\ place \in Places
    BY <1>1, <1>7 DEF Places
  <2> HIDE CopyTypes
  <2>2. QED BY <1>7, <2>1 DEF PullState
<1> HIDE DEF l
<1>9. /\ l.started <= rows /\ l.from <= rows /\ l.day <= day /\ l.at <= pulls'
      /\ l.pc \notin {"page", "cursor", "late", "complete", "keep"}
  BY <1>1, <1>8
<1>10. QED
  BY <1>1, <1>2, <1>4, <1>5, <1>6, <1>8, <1>9, PullMoves

LEMMA ContactsInv ==
  ASSUME CopyInv, NEW p \in Pull, WriteContacts(p) \/ DropOldContacts(p) \/ MarkContactsRead(p)
  PROVE  CopyInv'
<1> USE MirrorConstants, CopyTypes
<1> DEFINE v == pull[p]
<1>1. PICK place \in {"drop", "refreshed", "list"} : PullTo(p, [v EXCEPT !.pc = place])
  BY DEF WriteContacts, DropOldContacts, MarkContactsRead
<1> DEFINE l == [v EXCEPT !.pc = place]
<1>2. CopyTyped /\ Known /\ v \in PullState /\ v.at \in 0..MaxPulls /\ v.at <= pulls /\ v.day <= day
      /\ v.day \in 0..MaxDay /\ contacts \in [Contact -> 0..MaxPulls]
      /\ \A c \in Contact : contacts[c] <= pulls
  BY DEF CopyInv, CopyTyped
<1>3. /\ l \in PullState /\ l.pc = place /\ l.started = v.started /\ l.from = v.from
      /\ l.day = v.day /\ l.at = v.at
  BY <1>2 DEF PullState, Places
<1>4. PullTo(p, l)
  BY <1>1
<1> HIDE DEF l
<1>5. UNCHANGED <<outside, timelineRows, marked, pulls, pullStops>>
  BY DEF WriteContacts, DropOldContacts, MarkContactsRead
<1>6. contacts' \in [Contact -> 0..MaxPulls] /\ \A c \in Contact : contacts'[c] <= pulls
  <2>1. CASE WriteContacts(p)
    BY <1>2, <2>1 DEF WriteContacts
  <2>2. CASE DropOldContacts(p)
    <3>1. contacts' = [c \in Contact |-> IF contacts[c] < v.at THEN 0 ELSE contacts[c]] /\ pulls \in Nat
      BY <1>2, <2>2 DEF DropOldContacts, CopyTyped
    <3>2. QED BY <1>2, <3>1
  <2>3. CASE MarkContactsRead(p)
    BY <1>2, <2>3 DEF MarkContactsRead
  <2>4. QED BY <2>1, <2>2, <2>3
<1>7. /\ metaDay' \in [contacts : 0..MaxDay, orders : 0..MaxDay]
      /\ metaDay'.contacts <= day /\ metaDay'.orders <= day
  <2>1. /\ metaDay \in [contacts : 0..MaxDay, orders : 0..MaxDay]
        /\ metaDay.contacts <= day /\ metaDay.orders <= day
    BY <1>2 DEF CopyTyped
  <2>2. metaDay' = metaDay \/ metaDay' = [metaDay EXCEPT !.contacts = v.day]
    BY DEF WriteContacts, DropOldContacts, MarkContactsRead
  <2>3. QED BY <1>2, <2>1, <2>2
<1>8. /\ l.started <= rows /\ l.from <= rows /\ l.day <= day /\ l.at <= pulls
      /\ l.pc \notin {"page", "cursor", "late", "complete", "keep"}
  BY <1>2, <1>3
<1>9. pullStops' \in 0..PullStops /\ marked' \subseteq deletedIn
  BY <1>2, <1>5 DEF CopyTyped, Known
<1>10. QED
  BY <1>3, <1>4, <1>5, <1>6, <1>7, <1>8, <1>9, OtherPullMoves

\* What the list leaves out is only looked up.
LEMMA ListOrdersInv ==
  ASSUME CopyInv, NEW p \in Pull, ListOrders(p)
  PROVE  CopyInv'
<1> USE MirrorConstants, CopyTypes
<1> DEFINE v == pull[p]
           created == timeline \cap Create
           due == metaDay.orders < v.day
           place == IF due THEN "confirm" ELSE "linked"
<1>1. PICK shifted \in SUBSET (created \ deletedIn) :
        PullTo(p, [v EXCEPT !.pc = place,
                            !.read = IF due THEN ((created \cap deletedIn) \cup shifted) \ marked ELSE {}])
  BY DEF ListOrders
<1> DEFINE found == IF due THEN ((created \cap deletedIn) \cup shifted) \ marked ELSE {}
           l == [v EXCEPT !.pc = place, !.read = found]
<1>2. CopyTyped /\ Known /\ v \in PullState
      /\ UNCHANGED <<outside, timelineRows, contacts, metaDay, marked, pulls, pullStops>>
  BY DEF CopyInv, ListOrders
<1>3. place \in {"confirm", "linked"} /\ found \subseteq Row
  OBVIOUS
<1>4. PullTo(p, l)
  BY <1>1
<1> HIDE DEF place, found
<1>5. /\ l \in PullState /\ l.pc \in {"confirm", "linked"} /\ l.started = v.started /\ l.from = v.from
      /\ l.day = v.day /\ l.at = v.at
  BY <1>2, <1>3 DEF PullState, Places
<1> HIDE DEF l
<1>6. /\ l.started <= rows /\ l.from <= rows /\ l.day <= day /\ l.at <= pulls
      /\ l.pc \notin {"page", "cursor", "late", "complete", "keep"}
  BY <1>2, <1>5
<1>7. /\ contacts' \in [Contact -> 0..MaxPulls] /\ \A c \in Contact : contacts'[c] <= pulls
      /\ metaDay' \in [contacts : 0..MaxDay, orders : 0..MaxDay]
      /\ metaDay'.contacts <= day /\ metaDay'.orders <= day
      /\ pullStops' \in 0..PullStops /\ marked' \subseteq deletedIn
  BY <1>2 DEF CopyTyped, Known
<1>8. QED
  BY <1>2, <1>4, <1>5, <1>6, <1>7, OtherPullMoves

LEMMA ConfirmDeletedInv ==
  ASSUME CopyInv, NEW p \in Pull, ConfirmDeleted(p)
  PROVE  CopyInv'
<1> USE MirrorConstants, CopyTypes
<1> DEFINE v == pull[p]
           l == [v EXCEPT !.pc = "linked", !.read = {}]
<1>1. CopyTyped /\ Known /\ v \in PullState /\ v.day <= day /\ v.day \in 0..MaxDay /\ PullTo(p, l)
      /\ marked' = marked \cup (v.read \cap deletedIn) /\ metaDay' = [metaDay EXCEPT !.orders = v.day]
      /\ UNCHANGED <<outside, timelineRows, contacts, pulls, pullStops>>
  BY DEF CopyInv, ConfirmDeleted
<1>2. /\ l \in PullState /\ l.pc = "linked" /\ l.started = v.started /\ l.from = v.from
      /\ l.day = v.day /\ l.at = v.at
  BY <1>1 DEF PullState, Places
<1> HIDE DEF l
<1>3. /\ l.started <= rows /\ l.from <= rows /\ l.day <= day /\ l.at <= pulls
      /\ l.pc \notin {"page", "cursor", "late", "complete", "keep"}
  BY <1>1, <1>2
<1>4. /\ metaDay' \in [contacts : 0..MaxDay, orders : 0..MaxDay]
      /\ metaDay'.contacts <= day /\ metaDay'.orders <= day
  <2>1. /\ metaDay \in [contacts : 0..MaxDay, orders : 0..MaxDay] /\ metaDay.contacts <= day
    BY <1>1 DEF CopyTyped
  <2>2. QED BY <1>1, <2>1
<1>5. /\ contacts' \in [Contact -> 0..MaxPulls] /\ \A c \in Contact : contacts'[c] <= pulls
      /\ pullStops' \in 0..PullStops /\ marked' \subseteq deletedIn
  BY <1>1 DEF CopyTyped, Known
<1>6. QED
  BY <1>1, <1>2, <1>3, <1>4, <1>5, OtherPullMoves

LEMMA ReadLinkedInv ==
  ASSUME CopyInv, NEW p \in Pull, ReadLinked(p)
  PROVE  CopyInv'
<1> USE MirrorConstants, CopyTypes
<1> DEFINE v == pull[p]
<1>1. CopyTyped /\ Known /\ v \in PullState
      /\ UNCHANGED <<outside, timelineRows, contacts, metaDay, marked, pulls, pullStops>>
  BY DEF CopyInv, ReadLinked
<1>2. /\ contacts' \in [Contact -> 0..MaxPulls] /\ \A c \in Contact : contacts'[c] <= pulls
      /\ metaDay' \in [contacts : 0..MaxDay, orders : 0..MaxDay]
      /\ metaDay'.contacts <= day /\ metaDay'.orders <= day
      /\ pullStops' \in 0..PullStops /\ marked' \subseteq deletedIn
  BY <1>1 DEF CopyTyped, Known
<1>3. ASSUME NEW o \in (Create \cap 1..rows) \ marked,
             PullTo(p, [v EXCEPT !.pc = "keep", !.from = o, !.read = {o} \cap deletedIn])
      PROVE  CopyInv'
  <2> DEFINE l == [v EXCEPT !.pc = "keep", !.from = o, !.read = {o} \cap deletedIn]
  <2>1. o \in Row /\ o \in 0..MaxRow /\ o <= rows
    BY <1>1 DEF CopyTyped
  <2>2. /\ l \in PullState /\ l.pc = "keep" /\ l.started = v.started /\ l.from = o
        /\ l.day = v.day /\ l.at = v.at /\ l.read \subseteq deletedIn
    BY <1>1, <2>1 DEF PullState, Places
  <2>3. PullTo(p, l)
    BY <1>3
  <2> HIDE DEF l
  <2>4. /\ l.started <= rows /\ l.from <= rows /\ l.day <= day /\ l.at <= pulls
        /\ l.pc \notin {"page", "cursor", "late", "complete"}
    BY <1>1, <2>1, <2>2
  <2>5. QED
    BY <1>1, <1>2, <2>2, <2>3, <2>4, OtherPullMoves
<1>4. CASE PullTo(p, NotPulling)
  BY <1>1, <1>2, <1>4, EndMoves
<1>5. QED BY <1>3, <1>4 DEF ReadLinked

LEMMA PullEnds ==
  ASSUME CopyInv, NEW p \in Pull, KeepLinked(p) \/ PullStop(p)
  PROVE  CopyInv'
<1>1. CopyTyped /\ Known
  BY DEF CopyInv
<1>2. PullTo(p, NotPulling) /\ UNCHANGED <<outside, timelineRows, pulls, contacts, metaDay>>
  BY DEF KeepLinked, PullStop
<1>3. marked' \subseteq deletedIn
  BY <1>1 DEF Known, KeepLinked, PullStop, At
<1>4. pullStops' \in 0..PullStops
  <2>1. pullStops \in 0..PullStops /\ PullStops \in Nat
    BY <1>1, MirrorConstants DEF CopyTyped
  <2>2. pullStops' = pullStops \/ (pullStops < PullStops /\ pullStops' = pullStops + 1)
    BY DEF KeepLinked, PullStop
  <2>3. QED BY <2>1, <2>2
<1>5. QED BY <1>2, <1>3, <1>4, EndMoves

LEMMA CopyNextInv ==
  ASSUME CopyInv, [MirrorNext]_mirrorVars
  PROVE  CopyInv'
<1>1. CASE UNCHANGED mirrorVars
  <2>1. UNCHANGED <<rows, deletedIn, day, timeline, tlCursor, completeAt, lateRead>>
        /\ UNCHANGED <<contacts, metaDay, marked, pull, pulls, pullStops>>
    BY <1>1 DEF mirrorVars
  <2>2. CopyTyped'
    BY <2>1 DEF CopyInv, CopyTyped
  <2>3. RowsCovered' /\ Known'
    BY <2>1 DEF CopyInv, RowsCovered, Whole, KeptRows, Known
  <2>4. QED BY <2>2, <2>3 DEF CopyInv
<1>2. CASE \E p \in Pull :
         \/ StartPull(p) \/ ReadTimelinePage(p) \/ MoveTimelineCursor(p) \/ ReadLateActions(p) \/ MarkComplete(p)
         \/ WriteContacts(p) \/ DropOldContacts(p) \/ MarkContactsRead(p)
         \/ ListOrders(p) \/ ConfirmDeleted(p) \/ ReadLinked(p) \/ KeepLinked(p)
         \/ PullStop(p)
  BY <1>2, StartPullInv, ReadTimelinePageInv, MoveTimelineCursorInv, ReadLateActionsInv, MarkCompleteInv,
     ContactsInv, ListOrdersInv, ConfirmDeletedInv, ReadLinkedInv, PullEnds
<1>3. QED
  BY <1>1, <1>2, LogRowInv, DeleteInOnsinchInv, NextDayInv DEF MirrorNext

LEMMA CopyAlways == MirrorSpec => []CopyInv
BY CopyInitInv, CopyNextInv, PTL DEF MirrorSpec

-----------------------------------------------------------------------------
(* The theorems.                                                            *)

\* The tables of the mirror and the locals of every pull keep their types, and no
\* cursor, contact or day of the tables is ahead of OnSinch or of the clock.
THEOREM MirrorTypeCorrect == MirrorSpec => []MirrorTypeOK
<1>1. CopyInv => MirrorTypeOK
  <2> SUFFICES ASSUME CopyInv PROVE MirrorTypeOK
    OBVIOUS
  <2>1. CopyTyped /\ pulls \in 0..MaxPulls /\ day \in 1..MaxDay
    BY DEF CopyInv, CopyTyped
  <2>2. \A c \in Contact : contacts[c] \in 0..pulls
    BY <2>1 DEF CopyTyped
  <2>3. metaDay.contacts \in 0..day /\ metaDay.orders \in 0..day
    BY <2>1 DEF CopyTyped
  <2>4. QED BY <2>1, <2>2, <2>3 DEF CopyTyped, MirrorTypeOK
<1>2. QED BY CopyAlways, <1>1, PTL

\* pullTimeline: pulls that overlap on one cursor and pulls that stop between the
\* rows and the cursor lose no booking row behind it, and no stretch is marked
\* complete that is not, whatever the page size and the page limit.
THEOREM NoRowLost == MirrorSpec => []TimelineWhole
<1>1. CopyInv => TimelineWhole
  BY DEF CopyInv, RowsCovered, Whole, KeptRows, TimelineWhole
<1>2. QED BY CopyAlways, <1>1, PTL

\* refreshOrders and readLinkedOrders: an order that OnSinch holds is never marked
\* deleted, whatever was deleted while the pages were read.
THEOREM MarkedWasDeleted == MirrorSpec => []MarkedIsDeleted
<1>1. CopyInv => MarkedIsDeleted
  BY DEF CopyInv, Known, MarkedIsDeleted
<1>2. QED BY CopyAlways, <1>1, PTL
=============================================================================
