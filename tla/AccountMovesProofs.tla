-------------------------- MODULE AccountMovesProofs --------------------------
(***************************************************************************)
(* Theorems about AccountMoves, for any principals, domains, assets, calls *)
(* and interleaving: the types, the lock of a handover, what a method that *)
(* was suspended over one may still book, the margin reserved in each      *)
(* domain, the refinement of HandoverPromise, step by step, and the tokens *)
(* that cover an account.                                                  *)
(***************************************************************************)
EXTENDS AccountMoves, SumProofs

(* A plan that sweeps the assets of S, and a call that works on it. *)
PlanOver(S) == [new_owner : Principal, status : {"Executing", "Finalised"},
                sweeps : [S -> Nat \cup {None}]]

SweepOver(S) == [op : {"sweep"}, move : Move, plan : PlanOver(S), asset : S,
                 stage : {"balance", "transfer", "ok"}, amount : Nat]

IsPlan(plan) == \E S \in SUBSET Asset : plan \in PlanOver(S)

Snapshot == [user : Principal, margin : Nat, cash : Int]

SettlementPlan == [users : SUBSET Principal, left : SUBSET Snapshot]

LedgerTransfer == [move : Move, asset : Asset, amount : Nat]

MoveIds == {m.id : m \in Move}

AccountsType ==
    /\ DOMAIN account_states \subseteq Principal
    /\ \A p \in DOMAIN account_states : account_states[p] \in AccountState
    /\ DOMAIN positions \cup DOMAIN frozen_transfers \subseteq Principal \X SeriesId
    /\ \A k \in DOMAIN positions : positions[k] \in Position
    /\ \A s \in DOMAIN settlement_plans : settlement_plans[s] \in SettlementPlan

OrdersType ==
    /\ DOMAIN limit_orders \subseteq OrderId /\ IsFiniteSet(DOMAIN limit_orders)
    /\ \A id \in DOMAIN limit_orders : limit_orders[id] \in Order

PlansType ==
    /\ DOMAIN custody_plans \subseteq Principal \X (DepositId \cup WithdrawalId)
    /\ \A k \in DOMAIN custody_plans : custody_plans[k] \in CustodyPlan
    /\ DOMAIN reassignment_plans \subseteq Principal \X MoveIds
    /\ \A k \in DOMAIN reassignment_plans : IsPlan(reassignment_plans[k])
    /\ marks \in [Principal -> Mark]

CallOK(k) ==
    \/ k = None
    \/ k \in OrderCall /\ k.req.op = k.op /\ k.req.user = k.user
    \/ k \in MatchedCall /\ k.req.op = k.op
    \/ \E S \in SUBSET Asset : k \in SweepOver(S)

CallType == DOMAIN call = CallId /\ \A c \in CallId : CallOK(call[c])

LedgerType == custody \in [Principal -> [Asset -> Nat]] /\ late \subseteq LedgerTransfer

TypeInv == AccountsType /\ OrdersType /\ PlansType /\ CallType /\ LedgerType

-----------------------------------------------------------------------------
(* The call of a reassignment, and what it knows of the plan it works on. *)
IsSweep(k) == k # None /\ k.op = "sweep"

SweepsNamed ==
    \A c \in CallId : \A k \in {call[c]} : IsSweep(k) =>
        /\ PlanKey(k.move) \in DOMAIN reassignment_plans
        /\ reassignment_plans[PlanKey(k.move)].new_owner = k.move.new
        /\ k.plan.new_owner = k.move.new

IsOrder(k) == k # None /\ k.op \in {"limit", "market"}
IsMatch(k) == k # None /\ k.op = "matched"

(* An order whose principal is of the generation it saw, has seen all the
   reassignments of it. *)
MovesSeen ==
    \A c \in CallId : \A k \in {call[c]} : IsOrder(k) =>
        /\ k.generation <= marks[k.user].generation
        /\ k.generation = marks[k.user].generation => MovesOf({k.user}) = k.moves

(* rested_matches: no principal of a matched trade is under reassignment, nor
   has been while the trade is under way. *)
MatchesRested ==
    \A c \in CallId : \A k \in {call[c]} : IsMatch(k) =>
        /\ \A p \in UsersOf(k.req) : ~marks[p].locked
        /\ MovesOf(UsersOf(k.req)) = k.moves

BooksInv == TypeInv /\ SweepsNamed /\ MovesSeen

-----------------------------------------------------------------------------
(* serial: the plan a call works on is the stored one. *)
SweepsStored ==
    \A c \in CallId : \A k \in {call[c]} : IsSweep(k) =>
        reassignment_plans[PlanKey(k.move)] = k.plan /\ Pending(k.plan)

OneSweepPerPlan ==
    \A c, x \in CallId :
        IsSweep(call[c]) /\ IsSweep(call[x]) /\ PlanKey(call[c].move) = PlanKey(call[x].move)
            => c = x

PendingKeys == {k \in DOMAIN reassignment_plans : Pending(reassignment_plans[k])}

Parties(k) == {k[1], reassignment_plans[k].new_owner}

(* A principal is in one pending reassignment at most, and not both of its
   parties. *)
PartiesApart ==
    /\ \A k \in PendingKeys : k[1] # reassignment_plans[k].new_owner
    /\ \A k, l \in PendingKeys : k # l => Parties(k) \cap Parties(l) = {}

(* Nothing of the account is left behind, nor comes to be. *)
NothingLeft ==
    \A k \in PendingKeys :
        k[1] \notin DOMAIN account_states /\ \A x \in DOMAIN positions : x[1] # k[1]

LockInv ==
    /\ BooksInv /\ SweepsStored /\ OneSweepPerPlan
    /\ PartiesApart /\ NothingLeft /\ LockedWhilePending /\ LockedRests

-----------------------------------------------------------------------------
(* Maps, states and requests. *)

LEMMA PutType ==
    ASSUME NEW map, NEW S, NEW T, NEW k \in S, NEW v \in T,
           DOMAIN map \subseteq S, \A x \in DOMAIN map : map[x] \in T
    PROVE  /\ DOMAIN Put(map, k, v) \subseteq S
           /\ \A x \in DOMAIN Put(map, k, v) : Put(map, k, v)[x] \in T
BY DEF Put

LEMMA WithoutMap ==
    ASSUME NEW map, NEW S
    PROVE  /\ DOMAIN Without(map, S) = DOMAIN map \ S
           /\ \A x \in DOMAIN map \ S : Without(map, S)[x] = map[x]
BY DEF Without, Restrict

LEMMA WithoutSome ==
    ASSUME NEW map, NEW S, NEW less, less = Without(map, S)
    PROVE  DOMAIN less \subseteq DOMAIN map /\ \A x \in DOMAIN less : less[x] = map[x]
<1>1. DOMAIN less = DOMAIN map \ S
    BY WithoutMap
<1> QED BY <1>1, WithoutMap

LEMMA EmptyIsState == Empty \in AccountState
BY DEF Empty, AccountState

LEMMA StateType == ASSUME AccountsType, NEW p PROVE StateOf(p) \in AccountState
BY EmptyIsState DEF StateOf, AccountsType

(* One field of an account. *)
LEMMA BalanceSet ==
    ASSUME NEW state \in AccountState, NEW d, NEW a, NEW v \in Nat
    PROVE  [state EXCEPT !.balances[d][a] = v] \in AccountState
BY DEF AccountState

LEMMA MarginSet ==
    ASSUME NEW state \in AccountState, NEW d, NEW v \in Nat
    PROVE  [state EXCEPT !.margin[d] = v] \in AccountState
BY DEF AccountState

LEMMA CashMarginSet ==
    ASSUME NEW state \in AccountState, NEW d, NEW x \in Int, NEW y \in Nat
    PROVE  [state EXCEPT !.cash[d] = x, !.margin[d] = y] \in AccountState
BY DEF AccountState

LEMMA LessNat == ASSUME NEW x \in Int, NEW y \in Int PROVE Less(x, y) \in Nat
BY DEF Less

LEMMA AdjustedNat == ASSUME NEW x \in Nat, NEW y \in Int PROVE Adjusted(x, y) \in Nat
BY LessNat DEF Adjusted

(* Sums of the terms that the books are made of. *)
LEMMA RawEquityIsSum ==
    ASSUME NEW state, NEW d
    PROVE  RawEquity(state, d) = SumOver(state.balances[d], Asset) + state.cash[d]
BY DEF RawEquity, SumOver, MapThenSumSet, MapThenFoldSet

CashOf(S) == [w \in S |-> w.cash]
MarginOf(S) == [w \in S |-> w.margin]
BlockedOf(S) == [id \in S |-> limit_orders[id].blocked]

LEMMA CashIsSum ==
    ASSUME NEW S
    PROVE  MapThenSumSet(LAMBDA w : w.cash, S) = SumOver(CashOf(S), S)
<1> DEFINE f == CashOf(S)
           Fold(g) == g = [s \in SUBSET S |->
                              IF s = {} THEN 0 ELSE Pick(s).cash + g[s \ {Pick(s)}]]
<1>1. \A g : Fold(g) <=> IsFold(g, f, S)
    <2>1. \A s \in SUBSET S : s # {} => f[Pick(s)] = Pick(s).cash
        BY PickIn DEF CashOf
    <2> QED BY <2>1 DEF IsFold
<1>2. (CHOOSE g : Fold(g)) = (CHOOSE g : IsFold(g, f, S))
    <2> HIDE DEF Fold, f
    <2> QED BY <1>1
<1>3. MapThenSumSet(LAMBDA w : w.cash, S) = (CHOOSE g : Fold(g))[S]
    BY DEF MapThenSumSet, MapThenFoldSet, Pick
<1> QED BY <1>2, <1>3, SumIsFold

LEMMA MarginIsSum ==
    ASSUME NEW S
    PROVE  MapThenSumSet(LAMBDA w : w.margin, S) = SumOver(MarginOf(S), S)
<1> DEFINE f == MarginOf(S)
           Fold(g) == g = [s \in SUBSET S |->
                              IF s = {} THEN 0 ELSE Pick(s).margin + g[s \ {Pick(s)}]]
<1>1. \A g : Fold(g) <=> IsFold(g, f, S)
    <2>1. \A s \in SUBSET S : s # {} => f[Pick(s)] = Pick(s).margin
        BY PickIn DEF MarginOf
    <2> QED BY <2>1 DEF IsFold
<1>2. (CHOOSE g : Fold(g)) = (CHOOSE g : IsFold(g, f, S))
    <2> HIDE DEF Fold, f
    <2> QED BY <1>1
<1>3. MapThenSumSet(LAMBDA w : w.margin, S) = (CHOOSE g : Fold(g))[S]
    BY DEF MapThenSumSet, MapThenFoldSet, Pick
<1> QED BY <1>2, <1>3, SumIsFold

LEMMA BlockedIsSum ==
    ASSUME NEW S
    PROVE  MapThenSumSet(LAMBDA id : limit_orders[id].blocked, S) = SumOver(BlockedOf(S), S)
<1> DEFINE f == BlockedOf(S)
           Fold(g) == g = [s \in SUBSET S |->
                              IF s = {} THEN 0
                              ELSE limit_orders[Pick(s)].blocked + g[s \ {Pick(s)}]]
<1>1. \A g : Fold(g) <=> IsFold(g, f, S)
    <2>1. \A s \in SUBSET S : s # {} => f[Pick(s)] = limit_orders[Pick(s)].blocked
        BY PickIn DEF BlockedOf
    <2> QED BY <2>1 DEF IsFold
<1>2. (CHOOSE g : Fold(g)) = (CHOOSE g : IsFold(g, f, S))
    <2> HIDE DEF Fold, f
    <2> QED BY <1>1
<1>3. MapThenSumSet(LAMBDA id : limit_orders[id].blocked, S) = (CHOOSE g : Fold(g))[S]
    BY DEF MapThenSumSet, MapThenFoldSet, Pick
<1> QED BY <1>2, <1>3, SumIsFold

(* What the orders of a series release. *)
LEMMA ReleaseType ==
    ASSUME OrdersType, NEW p, NEW d, NEW s
    PROVE  OrdersRelease(p, d, s) \in Nat
<1> DEFINE S == {id \in DOMAIN limit_orders : /\ limit_orders[id].creator = p
                                              /\ limit_orders[id].domain = d
                                              /\ limit_orders[id].series = s}
<1>1. IsFiniteSet(S)
    BY FS_Subset DEF OrdersType
<1>2. \A id \in S : BlockedOf(S)[id] \in Nat
    BY DEF BlockedOf, OrdersType, Order
<1>3. OrdersRelease(p, d, s) = SumOver(BlockedOf(S), S)
    BY BlockedIsSum DEF OrdersRelease
<1> QED BY <1>1, <1>2, <1>3, SumNat

(* What a chunk of a settlement books for an account. *)
CashFor(chunk, p) == MapThenSumSet(LAMBDA w : w.cash, {w \in chunk : w.user = p})
MarginFor(chunk, p) == MapThenSumSet(LAMBDA w : w.margin, {w \in chunk : w.user = p})

LEMMA ChunkType ==
    ASSUME NEW left \in SUBSET Snapshot, NEW chunk \in Chunks(left), NEW p
    PROVE  /\ chunk \subseteq left
           /\ CashFor(chunk, p) \in Int
           /\ MarginFor(chunk, p) \in Nat
<1> DEFINE S == {w \in chunk : w.user = p}
<1>1. chunk \subseteq left
    BY DEF Chunks
<1>2. IsFiniteSet(chunk)
    <2>1. CASE left = {}
        BY <2>1, FS_EmptySet DEF Chunks
    <2>2. CASE left # {}
        <3>1. PICK w \in left : chunk = {w}
            BY <2>2 DEF Chunks
        <3> QED BY <3>1, FS_Singleton
    <2> QED BY <2>1, <2>2
<1>3. IsFiniteSet(S)
    BY <1>2, FS_Subset
<1>4. \A w \in S : CashOf(S)[w] \in Int /\ MarginOf(S)[w] \in Nat
    BY <1>1 DEF CashOf, MarginOf, Snapshot
<1>5. CashFor(chunk, p) = SumOver(CashOf(S), S) /\ MarginFor(chunk, p) = SumOver(MarginOf(S), S)
    BY CashIsSum, MarginIsSum DEF CashFor, MarginFor
<1> QED BY <1>1, <1>3, <1>4, <1>5, SumType, SumNat

LEMMA RequestKinds ==
    ASSUME NEW r \in Request
    PROVE  /\ r.op = "deposit" => /\ r.user \in Principal /\ r.id \in DepositId
                                  /\ r.domain \in Domain /\ r.asset \in Asset
           /\ r.op = "withdraw" => /\ r.user \in Principal /\ r.id \in WithdrawalId
                                   /\ r.domain \in Domain /\ r.asset \in Asset
           /\ r.op = "limit" => /\ r.user \in Principal /\ r.id \in OrderId
                                /\ r.series \in SeriesId /\ r.side \in Side
           /\ r.op = "market" => r.user \in Principal /\ r.id \in OrderId
           /\ r.op = "matched" => /\ r.buyer \in Principal /\ r.seller \in Principal
                                  /\ r.series \in SeriesId /\ r.price \in Nat
           /\ r.op = "freeze" => r.user \in Principal /\ r.series \in SeriesId
           /\ r.op = "settle" => r.series \in SeriesId /\ r.value \in {0, 2}
<1>1. r \in Requests
    BY AccountsAssumption
<1> QED BY <1>1 DEF Requests

-----------------------------------------------------------------------------
(* Types. *)

LEMMA OpenedIsState == ASSUME NEW p \in Principal PROVE Opened(p) \in AccountState
BY AccountsAssumption, EmptyIsState DEF Opened, AccountState

LEMMA TypeInit == Init => TypeInv
<1> SUFFICES ASSUME Init PROVE TypeInv
    OBVIOUS
<1>1. AccountsType
    BY OpenedIsState DEF Init, AccountsType, EmptyMap
<1>2. OrdersType
    BY FS_EmptySet DEF Init, OrdersType, EmptyMap
<1>3. PlansType
    BY DEF Init, PlansType, EmptyMap, Mark
<1>4. CallType /\ LedgerType
    BY AccountsAssumption DEF Init, CallType, CallOK, LedgerType
<1> QED BY <1>1, <1>2, <1>3, <1>4 DEF TypeInv

(* One more account, order or plan. *)
LEMMA AccountPut ==
    ASSUME AccountsType, NEW p \in Principal, NEW state \in AccountState,
           account_states' = Put(account_states, p, state)
    PROVE  /\ DOMAIN account_states' \subseteq Principal
           /\ \A q \in DOMAIN account_states' : account_states'[q] \in AccountState
BY PutType DEF AccountsType

LEMMA OrderPut ==
    ASSUME OrdersType, NEW id \in OrderId, NEW order \in Order,
           limit_orders' = Put(limit_orders, id, order)
    PROVE  OrdersType'
<1>1. IsFiniteSet(DOMAIN limit_orders \cup {id})
    BY FS_AddElement DEF OrdersType
<1> QED BY <1>1, PutType DEF OrdersType, Put

LEMMA OrderWithout ==
    ASSUME OrdersType, NEW S, limit_orders' = Without(limit_orders, S)
    PROVE  OrdersType'
<1>1. IsFiniteSet(DOMAIN limit_orders \ S)
    BY FS_Subset DEF OrdersType
<1>2. DOMAIN limit_orders' = DOMAIN limit_orders \ S
    BY WithoutMap
<1>3. \A id \in DOMAIN limit_orders' : limit_orders'[id] = limit_orders[id]
    BY <1>2, WithoutMap
<1> QED BY <1>1, <1>2, <1>3 DEF OrdersType

LEMMA CustodyPut ==
    ASSUME PlansType, NEW k \in Principal \X (DepositId \cup WithdrawalId),
           NEW plan \in CustodyPlan,
           custody_plans' = Put(custody_plans, k, plan),
           UNCHANGED <<reassignment_plans, marks>>
    PROVE  PlansType'
BY PutType DEF PlansType

LEMMA FinaliseType ==
    ASSUME PlansType, NEW k, k \in DOMAIN custody_plans, Finalise(k),
           UNCHANGED <<reassignment_plans, marks>>
    PROVE  PlansType'
BY DEF PlansType, Finalise, CustodyPlan

(* A call that returns, or is suspended. *)
LEMMA ReturnType == ASSUME CallType, NEW c, Return(c) PROVE CallType'
BY DEF CallType, CallOK, Return

LEMMA CallPut ==
    ASSUME CallType, NEW c, NEW k, CallOK(k), call' = [call EXCEPT ![c] = k]
    PROVE  CallType'
<1>1. ASSUME NEW x \in CallId PROVE CallOK(call'[x])
    BY <1>1 DEF CallType
<1> QED BY <1>1 DEF CallType, CallOK

LEMMA CreditedType ==
    ASSUME NEW state \in AccountState, NEW d \in Domain, NEW a \in Asset
    PROVE  [state EXCEPT !.balances[d][a] = @ + 1] \in AccountState
<1>1. state.balances[d][a] + 1 \in Nat
    BY DEF AccountState
<1> QED BY <1>1, BalanceSet

LEMMA BeginDepositType ==
    ASSUME TypeInv, NEW r \in Request, r.op = "deposit", BeginDeposit(r) PROVE TypeInv'
<1>1. PlansType'
    <2>1. [status |-> "Executing", domain |-> r.domain, asset |-> r.asset, reserved |-> FALSE]
            \in CustodyPlan
        BY RequestKinds DEF CustodyPlan
    <2> QED BY <2>1, CustodyPut, RequestKinds DEF BeginDeposit, TypeInv
<1> QED BY <1>1
        DEF BeginDeposit, TypeInv, book, AccountsType, OrdersType, CallType, LedgerType

LEMMA DepositSettledType ==
    ASSUME TypeInv, NEW p \in Principal, NEW id \in DepositId, DepositSettled(p, id)
    PROVE  TypeInv'
<1> DEFINE plan == custody_plans[<<p, id>>]
           paid == [StateOf(p) EXCEPT !.balances[plan.domain][plan.asset] = @ + 1]
<1>1. plan \in CustodyPlan
    BY DEF DepositSettled, TypeInv, PlansType
<1>2. paid \in AccountState
    BY <1>1, StateType, CreditedType DEF TypeInv, CustodyPlan
<1>3. AccountsType'
    BY <1>2, AccountPut DEF DepositSettled, TypeInv, AccountsType
<1>4. PlansType'
    BY FinaliseType DEF DepositSettled, TypeInv
<1>5. LedgerType'
    BY <1>1 DEF DepositSettled, TypeInv, LedgerType, CustodyPlan
<1> QED BY <1>3, <1>4, <1>5 DEF DepositSettled, TypeInv, OrdersType, CallType

LEMMA DebitedType ==
    ASSUME NEW state \in AccountState, NEW d \in Domain, NEW a \in Asset
    PROVE  Debited(state, d, a) \in AccountState
<1>1. state.balances[d][a] \in Int /\ 1 \in Int
    BY DEF AccountState
<1>2. Less(state.balances[d][a], 1) \in Nat
    BY <1>1, LessNat
<1> QED BY <1>2, BalanceSet DEF Debited

LEMMA BeginWithdrawalType ==
    ASSUME TypeInv, NEW r \in Request, r.op = "withdraw", BeginWithdrawal(r) PROVE TypeInv'
<1>1. PlansType'
    <2>1. \A covered \in BOOLEAN :
            [status |-> IF covered THEN "Executing" ELSE "Planned", domain |-> r.domain,
             asset |-> r.asset, reserved |-> covered] \in CustodyPlan
        BY RequestKinds DEF CustodyPlan
    <2>2. WithdrawalCovered(r) \in BOOLEAN
        BY DEF WithdrawalCovered
    <2> QED BY <2>1, <2>2, CustodyPut, RequestKinds DEF BeginWithdrawal, TypeInv
<1>2. AccountsType'
    <2>1. r.user \in DOMAIN account_states =>
            Debited(account_states[r.user], r.domain, r.asset) \in AccountState
        BY RequestKinds, DebitedType DEF TypeInv, AccountsType
    <2> QED BY <2>1 DEF BeginWithdrawal, TypeInv, AccountsType, WithdrawalCovered
<1> QED BY <1>1, <1>2 DEF BeginWithdrawal, TypeInv, OrdersType, CallType, LedgerType

LEMMA WithdrawalAnsweredType ==
    ASSUME TypeInv, NEW p \in Principal, NEW id \in WithdrawalId, WithdrawalAnswered(p, id)
    PROVE  TypeInv'
<1> DEFINE plan == custody_plans[<<p, id>>]
           paid == [StateOf(p) EXCEPT !.balances[plan.domain][plan.asset] = @ + 1]
<1>1. plan \in CustodyPlan
    BY DEF WithdrawalAnswered, TypeInv, PlansType
<1>2. paid \in AccountState
    BY <1>1, StateType, CreditedType DEF TypeInv, CustodyPlan
<1>3. AccountsType'
    BY <1>2, AccountPut DEF WithdrawalAnswered, TypeInv, AccountsType
<1>4. PlansType'
    <2>1. CASE Finalise(<<p, id>>)
        BY <2>1, FinaliseType DEF WithdrawalAnswered, TypeInv
    <2>2. CASE custody_plans' = [custody_plans EXCEPT ![<<p, id>>].reserved = FALSE]
        BY <2>2 DEF WithdrawalAnswered, TypeInv, PlansType, CustodyPlan
    <2> QED BY <2>1, <2>2 DEF WithdrawalAnswered
<1>5. LedgerType'
    <2>1. custody[p][plan.asset] \in Nat /\ Fee \in Nat
        BY <1>1, AccountsAssumption DEF TypeInv, LedgerType, CustodyPlan
    <2>2. custody[p][plan.asset] >= 1 + Fee => custody[p][plan.asset] - 1 - Fee \in Nat
        BY <2>1
    <2> QED BY <1>1, <2>2 DEF WithdrawalAnswered, TypeInv, LedgerType
<1> QED BY <1>3, <1>4, <1>5 DEF WithdrawalAnswered, TypeInv, OrdersType, CallType

-----------------------------------------------------------------------------
(* Trades and orders. *)

LEMMA RequiredMarginType ==
    ASSUME NEW s, NEW price \in Nat, NEW qty \in Int PROVE RequiredMargin(s, price, qty) \in Nat
<1>1. Less(Unit, price) \in Nat
    BY LessNat DEF Unit
<1>2. ASSUME NEW x \in Nat, NEW y \in Nat PROVE x * y \in Nat
    BY <1>2
<1>3. qty < 0 => -qty * Less(Unit, price) \in Nat
    <2>1. qty < 0 => -qty \in Nat
        OBVIOUS
    <2> QED BY <1>1, <1>2, <2>1
<1>4. ~(qty < 0) => qty * price \in Nat
    <2>1. ~(qty < 0) => qty \in Nat
        OBVIOUS
    <2> QED BY <1>2, <2>1
<1> QED BY <1>3, <1>4 DEF RequiredMargin

LEMMA LegType ==
    ASSUME TypeInv, NEW p, NEW s \in SeriesId, NEW price \in Nat, NEW dq \in Int,
           NEW released \in Nat
    PROVE  /\ Leg(p, s, price, dq, released).position \in Position
           /\ Leg(p, s, price, dq, released).position.net_qty \in Int
           /\ Leg(p, s, price, dq, released).loss \in Int
           /\ Leg(p, s, price, dq, released).reserve \in Int
           /\ AfterLeg(p, s, Leg(p, s, price, dq, released)) \in AccountState
<1> DEFINE old == PositionOf(p, s)
           leg == Leg(p, s, price, dq, released)
           state == StateOf(p)
<1>1. old.net_qty \in Int /\ old.margin \in Nat
    BY DEF PositionOf, Position, TypeInv, AccountsType
<1>2. /\ old.net_qty + dq \in Int /\ RequiredMargin(s, price, old.net_qty + dq) \in Nat
      /\ RequiredMargin(s, price, old.net_qty) \in Nat
    <2> HIDE DEF old
    <2> QED BY <1>1, RequiredMarginType
<1>3. /\ leg.position \in Position /\ leg.position.net_qty \in Int
      /\ leg.loss \in Int /\ leg.reserve \in Int
    BY <1>1, <1>2 DEF Leg, Position
<1>4. SeriesDomain[s] \in Domain /\ state \in AccountState
    BY StateType, AccountsAssumption DEF TypeInv
<1>5. Adjusted(state.margin[SeriesDomain[s]], leg.reserve) \in Nat
    BY <1>3, <1>4, AdjustedNat DEF AccountState
<1>6. state.cash[SeriesDomain[s]] - leg.loss \in Int
    BY <1>3, <1>4 DEF AccountState
<1>7. AfterLeg(p, s, leg) \in AccountState
    <2> HIDE DEF leg, state
    <2> QED BY <1>4, <1>5, <1>6, CashMarginSet DEF AfterLeg, state
<1> QED BY <1>3, <1>7

LEMMA TradeType ==
    ASSUME TypeInv, NEW b \in Principal, NEW v \in Principal, NEW s \in SeriesId,
           NEW price \in Nat, NEW released \in [Principal -> Nat], Trade(b, v, s, price, released)
    PROVE  /\ DOMAIN account_states' \subseteq Principal
           /\ \A p \in DOMAIN account_states' : account_states'[p] \in AccountState
           /\ DOMAIN positions' \subseteq Principal \X SeriesId
           /\ \A k \in DOMAIN positions' : positions'[k] \in Position
<1> DEFINE bought == Leg(b, s, price, 1, released[b])
           sold == Leg(v, s, price, -1, released[v])
           paid == Put(account_states, b, AfterLeg(b, s, bought))
           held == Put(positions, <<b, s>>, bought.position)
<1>1. /\ bought.position \in Position /\ sold.position \in Position
      /\ AfterLeg(b, s, bought) \in AccountState /\ AfterLeg(v, s, sold) \in AccountState
    BY LegType
<1>2. /\ account_states' = Put(paid, v, AfterLeg(v, s, sold))
      /\ positions' = Put(held, <<v, s>>, sold.position)
    BY DEF Trade
<1> HIDE DEF bought, sold
<1>3. DOMAIN paid \subseteq Principal /\ \A p \in DOMAIN paid : paid[p] \in AccountState
    BY <1>1, PutType DEF TypeInv, AccountsType
<1>4. DOMAIN held \subseteq Principal \X SeriesId /\ \A k \in DOMAIN held : held[k] \in Position
    BY <1>1, PutType DEF TypeInv, AccountsType
<1> HIDE DEF paid, held
<1>5. /\ DOMAIN account_states' \subseteq Principal
      /\ \A p \in DOMAIN account_states' : account_states'[p] \in AccountState
    BY <1>1, <1>2, <1>3, PutType
<1>6. /\ DOMAIN positions' \subseteq Principal \X SeriesId
      /\ \A k \in DOMAIN positions' : positions'[k] \in Position
    BY <1>1, <1>2, <1>4, PutType
<1> QED BY <1>5, <1>6

LEMMA MovesOfType ==
    ASSUME PlansType, NEW S PROVE MovesOf(S) \in SUBSET (Principal \X MoveIds)
BY DEF PlansType, MovesOf

LEMMA BeginMatchedType ==
    ASSUME TypeInv, NEW r \in Request, r.op = "matched", NEW c \in UserCallId, BeginMatched(c, r)
    PROVE  TypeInv'
<1> DEFINE k == [op |-> "matched", req |-> r, moves |-> MovesOf(UsersOf(r))]
<1>1. k.moves \in SUBSET (Principal \X {m.id : m \in Move})
    BY MovesOfType DEF TypeInv, MoveIds
<1>2. k \in MatchedCall
    BY <1>1 DEF MatchedCall
<1>3. CallOK(k)
    BY <1>2 DEF CallOK
<1>4. CallType'
    BY <1>3, CallPut DEF BeginMatched, TypeInv
<1> QED BY <1>4 DEF BeginMatched, TypeInv, book, AccountsType, OrdersType, PlansType, LedgerType

LEMMA MatchedCallOf ==
    ASSUME CallType, NEW c \in CallId, IsMatch(call[c])
    PROVE  /\ call[c] \in MatchedCall /\ call[c].req \in Request /\ call[c].req.op = "matched"
           /\ UsersOf(call[c].req) = {call[c].req.buyer, call[c].req.seller}
<1>1. call[c] \in MatchedCall /\ call[c].req \in Request /\ call[c].req.op = "matched"
    BY DEF IsMatch, CallType, CallOK, OrderCall, MatchedCall, SweepOver
<1> QED BY <1>1 DEF UsersOf

LEMMA FinishMatchedType ==
    ASSUME TypeInv, NEW c \in CallId, FinishMatched(c) PROVE TypeInv'
<1>1. [p \in Principal |-> 0] \in [Principal -> Nat]
    OBVIOUS
<1>2. call[c].req \in Request /\ call[c].req.op = "matched"
    BY MatchedCallOf DEF TypeInv, FinishMatched, IsMatch
<1>3. AccountsType'
    BY <1>1, <1>2, TradeType, RequestKinds DEF FinishMatched, TypeInv, AccountsType
<1>4. CallType'
    BY ReturnType DEF FinishMatched, TypeInv
<1> QED BY <1>3, <1>4 DEF FinishMatched, TypeInv, OrdersType, PlansType, LedgerType

LEMMA BeginOrderType ==
    ASSUME TypeInv, NEW r \in Request, r.op \in {"limit", "market"},
           NEW c \in UserCallId, BeginOrder(c, r)
    PROVE  TypeInv'
<1> DEFINE k == [op |-> r.op, user |-> r.user, generation |-> marks[r.user].generation, req |-> r,
                 seen |-> IF r.op = "market" THEN limit_orders[r.id] ELSE None,
                 moves |-> MovesOf({r.user})]
<1>1. r.user \in Principal /\ marks[r.user].generation \in Nat
    BY RequestKinds DEF TypeInv, PlansType, Mark
<1>2. k.seen \in Order \cup {None}
    BY DEF BeginOrder, TypeInv, OrdersType
<1>3. k.moves \in SUBSET (Principal \X {m.id : m \in Move})
    BY MovesOfType DEF TypeInv, MoveIds
<1>4. k \in OrderCall
    BY <1>1, <1>2, <1>3 DEF OrderCall
<1>5. CallOK(k)
    BY <1>4 DEF CallOK
<1>6. CallType'
    BY <1>5, CallPut DEF BeginOrder, TypeInv
<1> QED BY <1>6 DEF BeginOrder, TypeInv, book, AccountsType, OrdersType, PlansType, LedgerType

LEMMA OrderCallOf ==
    ASSUME CallType, NEW c \in CallId, call[c] # None, call[c].op \in {"limit", "market"}
    PROVE  /\ call[c] \in OrderCall /\ call[c].req \in Request /\ call[c].user \in Principal
           /\ call[c].req.op = call[c].op /\ call[c].req.user = call[c].user
BY DEF CallType, CallOK, OrderCall, MatchedCall, SweepOver

(* What an order of a request blocks. *)
OrderMargin(r) == RequiredMargin(r.series, OrderPrice, IF r.side = "Sell" THEN -1 ELSE 1)

LEMMA OrderMarginType == ASSUME NEW r PROVE OrderMargin(r) \in Nat
<1>1. OrderPrice \in Nat /\ (IF r.side = "Sell" THEN -1 ELSE 1) \in Int
    BY DEF OrderPrice
<1> QED BY <1>1, RequiredMarginType DEF OrderMargin

LEMMA PlaceOrderType ==
    ASSUME TypeInv, NEW p \in Principal, NEW r \in Request, r.op = "limit", PlaceOrder(p, r),
           UNCHANGED <<frozen_transfers, settlement_plans>>
    PROVE  AccountsType' /\ OrdersType'
<1> DEFINE d == SeriesDomain[r.series]
           state == StateOf(p)
           blocked == OrderMargin(r)
           order == [creator |-> p, series |-> r.series, side |-> r.side, domain |-> d,
                     blocked |-> blocked]
           covered == Clamped(RawEquity(state, d)) >= state.margin[d] + blocked
           booked == IF covered THEN [state EXCEPT !.margin[d] = @ + blocked] ELSE state
<1>1. /\ account_states' = Put(account_states, p, booked)
      /\ limit_orders' = IF covered THEN Put(limit_orders, r.id, order) ELSE limit_orders
      /\ UNCHANGED positions
    BY DEF PlaceOrder, OrderMargin
<1>2. blocked \in Nat
    BY OrderMarginType
<1> HIDE DEF blocked, covered
<1>3. d \in Domain /\ state \in AccountState /\ order \in Order
    BY <1>2, RequestKinds, StateType, AccountsAssumption DEF TypeInv, Order
<1>4. AccountsType'
    <2>1. state.margin[d] + blocked \in Nat
        BY <1>2, <1>3 DEF AccountState
    <2>2. [state EXCEPT !.margin[d] = @ + blocked] \in AccountState
        BY <1>3, <2>1, MarginSet
    <2>3. booked \in AccountState
        BY <1>3, <2>2
    <2> HIDE DEF booked
    <2> QED BY <1>1, <2>3, AccountPut DEF TypeInv, AccountsType
<1>5. OrdersType'
    <2>1. r.id \in OrderId
        BY RequestKinds
    <2> HIDE DEF order
    <2> QED BY <1>1, <1>3, <2>1, OrderPut DEF TypeInv, OrdersType
<1> QED BY <1>4, <1>5

LEMMA FillOrderType ==
    ASSUME TypeInv, NEW p \in Principal, NEW r \in Request, NEW seen, FillOrder(p, r, seen),
           UNCHANGED <<frozen_transfers, settlement_plans>>
    PROVE  AccountsType' /\ OrdersType'
<1> DEFINE order == limit_orders[r.id]
           released == [q \in Principal |-> IF q = order.creator THEN order.blocked ELSE 0]
<1>1. order \in Order
    BY DEF FillOrder, TypeInv, OrdersType
<1>2. released \in [Principal -> Nat]
    BY <1>1 DEF Order
<1>3. order.creator \in Principal /\ order.series \in SeriesId
    BY <1>1 DEF Order
<1>4. PICK b \in Principal, v \in Principal : Trade(b, v, order.series, OrderPrice, released)
    BY <1>3 DEF FillOrder
<1> HIDE DEF released
<1>5. AccountsType'
    BY <1>2, <1>3, <1>4, TradeType DEF TypeInv, AccountsType, OrderPrice
<1>6. OrdersType'
    BY OrderWithout DEF FillOrder, TypeInv
<1> QED BY <1>5, <1>6

LEMMA FinishOrderType ==
    ASSUME TypeInv, NEW c \in CallId, FinishOrder(c) PROVE TypeInv'
<1>1. AccountsType' /\ OrdersType'
    BY OrderCallOf, PlaceOrderType, FillOrderType DEF FinishOrder, TypeInv
<1>2. CallType'
    BY ReturnType DEF FinishOrder, TypeInv
<1> QED BY <1>1, <1>2 DEF FinishOrder, TypeInv, PlansType, LedgerType

LEMMA RefuseOrderType ==
    ASSUME TypeInv, NEW c \in CallId, RefuseOrder(c) PROVE TypeInv'
<1>1. CallType'
    BY ReturnType DEF RefuseOrder, TypeInv
<1> QED BY <1>1 DEF RefuseOrder, TypeInv, book, AccountsType, OrdersType, PlansType, LedgerType

LEMMA CancelOrderType ==
    ASSUME TypeInv, NEW id \in OrderId, CancelOrder(id) PROVE TypeInv'
<1> DEFINE order == limit_orders[id]
<1>1. order \in Order
    BY DEF CancelOrder, TypeInv, OrdersType
<1>2. AccountsType'
    <2>1. ASSUME NEW p \in DOMAIN account_states
          PROVE  [account_states[p] EXCEPT !.margin[order.domain] = Less(@, order.blocked)]
                    \in AccountState
        <3>1. account_states[p] \in AccountState
            BY DEF TypeInv, AccountsType
        <3>2. account_states[p].margin[order.domain] \in Int /\ order.blocked \in Int
            BY <1>1, <3>1 DEF AccountState, Order
        <3>3. Less(account_states[p].margin[order.domain], order.blocked) \in Nat
            BY <3>2, LessNat
        <3> QED BY <3>1, <3>3, MarginSet
    <2> QED BY <2>1 DEF CancelOrder, TypeInv, AccountsType
<1>3. OrdersType'
    BY OrderWithout DEF CancelOrder, TypeInv
<1> QED BY <1>2, <1>3 DEF CancelOrder, TypeInv, PlansType, CallType, LedgerType

LEMMA FreezePositionType ==
    ASSUME TypeInv, NEW r \in Request, r.op = "freeze", FreezePosition(r) PROVE TypeInv'
<1>1. AccountsType'
    <2>1. /\ DOMAIN positions' \subseteq DOMAIN positions
          /\ \A k \in DOMAIN positions' : positions'[k] = positions[k]
        BY WithoutSome DEF FreezePosition
    <2>2. DOMAIN frozen_transfers' \subseteq DOMAIN positions \cup DOMAIN frozen_transfers
        BY DEF FreezePosition, Put
    <2> QED BY <2>1, <2>2 DEF FreezePosition, TypeInv, AccountsType
<1> QED BY <1>1 DEF FreezePosition, TypeInv, OrdersType, PlansType, CallType, LedgerType

-----------------------------------------------------------------------------
(* Settlements. *)

LEMMA AppliedType ==
    ASSUME NEW accounts, DOMAIN accounts \subseteq Principal,
           \A p \in DOMAIN accounts : accounts[p] \in AccountState,
           NEW s \in SeriesId, NEW left \in SUBSET Snapshot, NEW chunk \in Chunks(left)
    PROVE  /\ DOMAIN Applied(accounts, s, chunk) = DOMAIN accounts
           /\ \A p \in DOMAIN accounts : Applied(accounts, s, chunk)[p] \in AccountState
<1> SUFFICES ASSUME NEW p \in DOMAIN accounts
             PROVE  Applied(accounts, s, chunk)[p] \in AccountState
    BY DEF Applied
<1> DEFINE cash == CashFor(chunk, p)
           margin == MarginFor(chunk, p)
           d == SeriesDomain[s]
           state == accounts[p]
<1>1. cash \in Int /\ margin \in Nat
    BY ChunkType
<1>2. Applied(accounts, s, chunk)[p] =
        [state EXCEPT !.cash[d] = @ + cash, !.margin[d] = Less(@, margin)]
    BY DEF Applied, CashFor, MarginFor
<1> HIDE DEF cash, margin
<1>3. d \in Domain /\ state \in AccountState
    BY AccountsAssumption
<1>4. state.cash[d] \in Int /\ state.margin[d] \in Int /\ margin \in Int
    BY <1>1, <1>3 DEF AccountState
<1>5. state.cash[d] + cash \in Int
    BY <1>1, <1>4
<1>6. Less(state.margin[d], margin) \in Nat
    BY <1>4, LessNat
<1> HIDE DEF d
<1> HIDE DEF state
<1>7. [state EXCEPT !.cash[d] = @ + cash, !.margin[d] = Less(@, margin)] \in AccountState
    BY <1>3, <1>5, <1>6, CashMarginSet
<1> QED BY <1>2, <1>7

LEMMA SnapshotsType ==
    ASSUME AccountsType, NEW s, NEW value \in {0, 2} PROVE Snapshots(s, value) \in SUBSET Snapshot
<1>1. ASSUME NEW k \in DOMAIN positions
      PROVE  [user |-> k[1], margin |-> positions[k].margin,
              cash |-> Payoff(s, positions[k].net_qty, value) - positions[k].margin] \in Snapshot
    <2>1. k[1] \in Principal /\ positions[k].margin \in Nat /\ positions[k].net_qty \in Int
        BY DEF AccountsType, Position
    <2>2. Payoff(s, positions[k].net_qty, value) \in Int
        <3>1. CASE value = 0
            BY <2>1, <3>1 DEF Payoff, Unit
        <3>2. CASE value = 2
            BY <2>1, <3>2 DEF Payoff, Unit
        <3> QED BY <3>1, <3>2
    <2> QED BY <2>1, <2>2 DEF Snapshot
<1> QED BY <1>1 DEF Snapshots

LEMMA ReleasedType ==
    ASSUME TypeInv, NEW s, NEW p \in DOMAIN account_states
    PROVE  [account_states[p] EXCEPT !.margin =
                [d \in Domain |-> Less(@[d], OrdersRelease(p, d, s))]] \in AccountState
<1>1. account_states[p] \in AccountState
    BY DEF TypeInv, AccountsType
<1>2. ASSUME NEW d \in Domain
      PROVE  Less(account_states[p].margin[d], OrdersRelease(p, d, s)) \in Nat
    <2>1. account_states[p].margin[d] \in Int
        BY <1>1 DEF AccountState
    <2>2. OrdersRelease(p, d, s) \in Int
        BY ReleaseType DEF TypeInv
    <2> QED BY <2>1, <2>2, LessNat
<1> QED BY <1>1, <1>2 DEF AccountState

LEMMA BeginSettlementType ==
    ASSUME TypeInv, NEW r \in Request, r.op = "settle", BeginSettlement(r) PROVE TypeInv'
<1> DEFINE snapshots == Snapshots(r.series, r.value)
           released == [p \in DOMAIN account_states |->
               [account_states[p] EXCEPT !.margin =
                   [d \in Domain |-> Less(@[d], OrdersRelease(p, d, r.series))]]]
           plan(chunk) == [users |-> {w.user : w \in snapshots}, left |-> snapshots \ chunk]
<1>1. snapshots \in SUBSET Snapshot
    BY SnapshotsType, RequestKinds DEF TypeInv
<1>2. /\ DOMAIN released \subseteq Principal
      /\ \A p \in DOMAIN released : released[p] \in AccountState
    BY ReleasedType DEF TypeInv, AccountsType
<1>3. PICK chunk \in Chunks(snapshots) :
          /\ settlement_plans' = Put(settlement_plans, r.series, plan(chunk))
          /\ account_states' = Applied(released, r.series, chunk)
    BY DEF BeginSettlement
<1>4. plan(chunk) \in SettlementPlan
    BY <1>1 DEF SettlementPlan, Snapshot
<1> HIDE DEF snapshots, released, plan
<1>5. /\ DOMAIN account_states' \subseteq Principal
      /\ \A p \in DOMAIN account_states' : account_states'[p] \in AccountState
    BY <1>1, <1>2, <1>3, AppliedType, RequestKinds
<1>6. \A s \in DOMAIN settlement_plans' : settlement_plans'[s] \in SettlementPlan
    BY <1>3, <1>4 DEF Put, TypeInv, AccountsType
<1>7. /\ DOMAIN positions' \subseteq DOMAIN positions
      /\ \A k \in DOMAIN positions' : positions'[k] = positions[k]
      /\ frozen_transfers' = frozen_transfers
    BY WithoutSome DEF BeginSettlement
<1>8. AccountsType'
    BY <1>5, <1>6, <1>7 DEF TypeInv, AccountsType
<1>9. OrdersType'
    <2>1. DOMAIN limit_orders' \subseteq DOMAIN limit_orders
        BY DEF BeginSettlement, Restrict
    <2>2. \A id \in DOMAIN limit_orders' : limit_orders'[id] = limit_orders[id]
        BY DEF BeginSettlement, Restrict
    <2> QED BY <2>1, <2>2, FS_Subset DEF TypeInv, OrdersType
<1> QED BY <1>8, <1>9 DEF BeginSettlement, TypeInv, PlansType, CallType, LedgerType

LEMMA ApplySettlementType ==
    ASSUME TypeInv, NEW s \in SeriesId, ApplySettlement(s) PROVE TypeInv'
<1> DEFINE left == settlement_plans[s].left
<1>1. PICK chunk \in Chunks(left) :
          /\ settlement_plans' = [settlement_plans EXCEPT ![s].left = left \ chunk]
          /\ account_states' = Applied(account_states, s, chunk)
    BY DEF ApplySettlement
<1>2. left \in SUBSET Snapshot
    BY DEF ApplySettlement, TypeInv, AccountsType, SettlementPlan
<1>3. /\ DOMAIN account_states' \subseteq Principal
      /\ \A p \in DOMAIN account_states' : account_states'[p] \in AccountState
    BY <1>1, <1>2, AppliedType DEF TypeInv, AccountsType
<1>4. \A x \in DOMAIN settlement_plans' : settlement_plans'[x] \in SettlementPlan
    BY <1>1, <1>2 DEF ApplySettlement, TypeInv, AccountsType, SettlementPlan
<1>5. AccountsType'
    BY <1>3, <1>4 DEF ApplySettlement, TypeInv, AccountsType
<1> QED BY <1>5 DEF ApplySettlement, TypeInv, OrdersType, PlansType, CallType, LedgerType

-----------------------------------------------------------------------------
(* Migrations. *)

LEMMA MigrateDomainType ==
    ASSUME TypeInv, NEW g \in Migrations, MigrateDomain(g) PROVE TypeInv'
<1>1. g.user \in Principal /\ g.from \in Domain /\ g.to \in Domain
    BY MigrationAssumption
<1>2. ASSUME NEW state \in AccountState PROVE MovedDomain(state, g.from, g.to) \in AccountState
    <2>1. /\ Merged(state.balances[g.to], state.balances[g.from]) \in [Asset -> Nat]
          /\ [a \in Asset |-> 0] \in [Asset -> Nat]
        BY <1>1 DEF Merged, AccountState
    <2>2. [state.balances EXCEPT ![g.to] = Merged(@, state.balances[g.from]),
                                 ![g.from] = [a \in Asset |-> 0]] \in [Domain -> [Asset -> Nat]]
        BY <1>1, <2>1 DEF AccountState
    <2>3. [state.cash EXCEPT ![g.to] = @ + state.cash[g.from], ![g.from] = 0] \in [Domain -> Int]
        BY <1>1 DEF AccountState
    <2>4. [state.margin EXCEPT ![g.to] = @ + state.margin[g.from], ![g.from] = 0]
            \in [Domain -> Nat]
        BY <1>1 DEF AccountState
    <2> QED BY <2>2, <2>3, <2>4 DEF MovedDomain, AccountState
<1>3. AccountsType'
    BY <1>2 DEF MigrateDomain, TypeInv, AccountsType
<1>4. OrdersType'
    <2>1. DOMAIN limit_orders' = DOMAIN limit_orders
        BY DEF MigrateDomain, Retagged
    <2>2. \A id \in DOMAIN limit_orders : limit_orders'[id] \in Order
        BY <1>1 DEF MigrateDomain, Retagged, TypeInv, OrdersType, Order
    <2> QED BY <2>1, <2>2 DEF TypeInv, OrdersType
<1> QED BY <1>3, <1>4 DEF MigrateDomain, TypeInv, PlansType, CallType, LedgerType

LEMMA RefuseMigrationType ==
    ASSUME TypeInv, NEW g, RefuseMigration(g) PROVE TypeInv'
BY DEF RefuseMigration, book, TypeInv, AccountsType, OrdersType, PlansType, CallType, LedgerType

-----------------------------------------------------------------------------
(* Reassignments. *)

LEMMA MoveKinds ==
    ASSUME NEW m \in Move
    PROVE  /\ m.old \in Principal /\ m.new \in Principal
           /\ PlanKey(m) \in Principal \X MoveIds
           /\ PlanKey(m)[1] = m.old
BY ReassignmentAssumption DEF PlanKey, MoveIds

(* The parts of a plan, and the plans made of one. *)
LEMMA PlanParts ==
    ASSUME NEW plan, IsPlan(plan)
    PROVE  /\ plan.new_owner \in Principal /\ plan.status \in {"Executing", "Finalised"}
           /\ DOMAIN plan.sweeps \in SUBSET Asset
           /\ plan.sweeps \in [DOMAIN plan.sweeps -> Nat \cup {None}]
           /\ plan \in PlanOver(DOMAIN plan.sweeps)
           /\ IsReassignmentPlan(plan)
BY DEF IsPlan, PlanOver, IsReassignmentPlan

LEMMA FinalisedPlan ==
    ASSUME NEW plan, IsPlan(plan)
    PROVE  /\ IsPlan([plan EXCEPT !.status = "Finalised"])
           /\ [plan EXCEPT !.status = "Finalised"].status = "Finalised"
           /\ [plan EXCEPT !.status = "Finalised"].new_owner = plan.new_owner
           /\ [plan EXCEPT !.status = "Finalised"].sweeps = plan.sweeps
BY DEF IsPlan, PlanOver

LEMMA SweptPlan ==
    ASSUME NEW plan, IsPlan(plan), NEW a, NEW amount \in Nat
    PROVE  /\ IsPlan([plan EXCEPT !.sweeps[a] = amount])
           /\ [plan EXCEPT !.sweeps[a] = amount].status = plan.status
           /\ [plan EXCEPT !.sweeps[a] = amount].new_owner = plan.new_owner
           /\ [plan EXCEPT !.sweeps[a] = amount].sweeps = [plan.sweeps EXCEPT ![a] = amount]
<1>1. PICK S \in SUBSET Asset : plan \in PlanOver(S)
    BY DEF IsPlan
<1>2. [plan EXCEPT !.sweeps[a] = amount] \in PlanOver(S)
    BY <1>1 DEF PlanOver
<1> QED BY <1>1, <1>2 DEF IsPlan, PlanOver

LEMMA NewPlanType ==
    ASSUME NEW m \in Move
    PROVE  /\ IsPlan(NewPlan(m)) /\ Pending(NewPlan(m)) /\ NewPlan(m).new_owner = m.new
<1>1. CustodyAssets(m.old) \in SUBSET Asset
    BY DEF CustodyAssets
<1>2. NewPlan(m) \in PlanOver(CustodyAssets(m.old))
    BY MoveKinds DEF NewPlan, PlanOver
<1> QED BY <1>1, <1>2 DEF IsPlan, NewPlan, Pending

(* The call of a sweep. *)
LEMMA SweepCallOf ==
    ASSUME CallType, NEW c \in CallId, IsSweep(call[c])
    PROVE  /\ call[c].move \in Move /\ IsPlan(call[c].plan)
           /\ call[c].asset \in Asset /\ call[c].asset \in DOMAIN call[c].plan.sweeps
           /\ call[c].stage \in {"balance", "transfer", "ok"} /\ call[c].amount \in Nat
           /\ \E S \in SUBSET Asset : call[c] \in SweepOver(S)
<1>1. CallOK(call[c])
    BY DEF CallType
<1>2. PICK S \in SUBSET Asset : call[c] \in SweepOver(S)
    BY <1>1 DEF CallOK, OrderCall, MatchedCall, IsSweep
<1> QED BY <1>2 DEF SweepOver, IsPlan, PlanOver

LEMMA AtStageSweeps ==
    ASSUME NEW c, NEW stage, AtStage(c, stage) PROVE IsSweep(call[c]) /\ call[c].stage = stage
BY DEF AtStage, IsSweep

LEMMA SweepOK ==
    ASSUME NEW m \in Move, NEW plan, IsPlan(plan), NEW a \in Unswept(plan)
    PROVE  CallOK(Sweep(m, plan, a, "balance", 0))
<1>1. PICK S \in SUBSET Asset : plan \in PlanOver(S)
    BY DEF IsPlan
<1>2. a \in S
    BY <1>1 DEF Unswept, PlanOver
<1> QED BY <1>1, <1>2 DEF Sweep, SweepOver, CallOK

LEMMA UnlockType ==
    ASSUME NEW m, NEW marked \in [Principal -> Mark]
    PROVE  Unlock(m, marked) \in [Principal -> Mark]
BY DEF Unlock, Mark

LEMMA LockType ==
    ASSUME PlansType, NEW m PROVE Lock(m) \in [Principal -> Mark]
BY DEF Lock, Mark, PlansType

LEMMA ContinueType ==
    ASSUME PlansType, CallType, NEW c, NEW m \in Move, NEW plan, IsPlan(plan),
           NEW marked \in [Principal -> Mark], Continue(c, m, plan, marked),
           UNCHANGED custody_plans
    PROVE  PlansType' /\ CallType'
<1>1. CASE Unswept(plan) = {}
    <2>1. /\ reassignment_plans' = Put(reassignment_plans, PlanKey(m),
                                       [plan EXCEPT !.status = "Finalised"])
          /\ marks' = Unlock(m, marked) /\ Return(c)
        BY <1>1 DEF Continue
    <2>2. /\ DOMAIN reassignment_plans' \subseteq Principal \X MoveIds
          /\ \A k \in DOMAIN reassignment_plans' : IsPlan(reassignment_plans'[k])
        BY <2>1, FinalisedPlan, MoveKinds DEF Put, PlansType
    <2>3. marks' \in [Principal -> Mark]
        BY <2>1, UnlockType
    <2> QED BY <2>1, <2>2, <2>3, ReturnType DEF PlansType
<1>2. CASE Unswept(plan) # {}
    <2>1. /\ reassignment_plans' = Put(reassignment_plans, PlanKey(m), plan)
          /\ marks' = marked
        BY <1>2 DEF Continue
    <2>2. PICK a \in Unswept(plan) : call' = [call EXCEPT ![c] = Sweep(m, plan, a, "balance", 0)]
        BY <1>2 DEF Continue
    <2>3. /\ DOMAIN reassignment_plans' \subseteq Principal \X MoveIds
          /\ \A k \in DOMAIN reassignment_plans' : IsPlan(reassignment_plans'[k])
        BY <2>1, MoveKinds DEF Put, PlansType
    <2> QED BY <2>1, <2>2, <2>3, SweepOK, CallPut DEF PlansType
<1> QED BY <1>1, <1>2

LEMMA BeginReassignType ==
    ASSUME TypeInv, NEW c, NEW m \in Move, BeginReassign(c, m) PROVE TypeInv'
<1>1. PlansType' /\ CallType'
    BY ContinueType, NewPlanType, LockType DEF BeginReassign, TypeInv
<1>2. account_states' = Put(Without(account_states, {m.old}), m.new, account_states[m.old])
    BY DEF BeginReassign, Rekey
<1>3. account_states[m.old] \in AccountState
    BY DEF BeginReassign, MayReassign, TypeInv, AccountsType
<1>4. /\ DOMAIN account_states' \subseteq Principal
      /\ \A p \in DOMAIN account_states' : account_states'[p] \in AccountState
    <2> DEFINE rest == Without(account_states, {m.old})
    <2>1. DOMAIN rest \subseteq Principal /\ \A p \in DOMAIN rest : rest[p] \in AccountState
        BY WithoutSome DEF TypeInv, AccountsType
    <2> HIDE DEF rest
    <2> QED BY <1>2, <1>3, <2>1, PutType, MoveKinds DEF rest
<1>5. /\ DOMAIN positions' \subseteq Principal \X SeriesId
      /\ \A k \in DOMAIN positions' : positions'[k] \in Position
    <2>1. DOMAIN positions' = {<<IF x[1] = m.old THEN m.new ELSE x[1], x[2]>> : x \in DOMAIN positions}
        BY DEF BeginReassign, Rekey
    <2>2. DOMAIN positions' \subseteq Principal \X SeriesId
        BY <2>1, MoveKinds DEF TypeInv, AccountsType
    <2>3. ASSUME NEW k \in DOMAIN positions' PROVE positions'[k] \in Position
        <3>1. PICK x \in DOMAIN positions :
                k = <<IF x[1] = m.old THEN m.new ELSE x[1], x[2]>>
            BY <2>1
        <3>2. x \in Principal \X SeriesId /\ x = <<x[1], x[2]>>
            BY DEF TypeInv, AccountsType
        <3>3. positions'[k] = IF k[1] = m.new THEN positions[<<m.old, k[2]>>] ELSE positions[k]
            BY <2>1 DEF BeginReassign, Rekey
        <3>4. x[1] # m.new
            BY DEF BeginReassign, MayReassign, HasClearingState
        <3>5. CASE x[1] = m.old
            BY <3>1, <3>2, <3>3, <3>5 DEF TypeInv, AccountsType
        <3>6. CASE x[1] # m.old
            BY <3>1, <3>2, <3>3, <3>4, <3>6 DEF TypeInv, AccountsType
        <3> QED BY <3>5, <3>6
    <2> QED BY <2>2, <2>3
<1>6. AccountsType'
    BY <1>4, <1>5 DEF BeginReassign, TypeInv, AccountsType
<1> QED BY <1>1, <1>6 DEF BeginReassign, TypeInv, OrdersType, LedgerType

(* A step of a sweep that leaves the books alone. *)
LEMMA BookType ==
    ASSUME AccountsType, OrdersType, UNCHANGED book PROVE AccountsType' /\ OrdersType'
BY DEF book, AccountsType, OrdersType

LEMMA ResumeReassignType ==
    ASSUME TypeInv, NEW c, NEW m \in Move, ResumeReassign(c, m) PROVE TypeInv'
<1>1. PlansType' /\ CallType'
    <2>1. IsPlan(reassignment_plans[PlanKey(m)]) /\ marks \in [Principal -> Mark]
        BY DEF ResumeReassign, TypeInv, PlansType
    <2> QED BY <2>1, ContinueType DEF ResumeReassign, TypeInv
<1> QED BY <1>1, BookType DEF ResumeReassign, TypeInv, LedgerType

LEMMA BalanceReadType ==
    ASSUME TypeInv, NEW c \in CallId, BalanceRead(c) PROVE TypeInv'
<1> DEFINE k == call[c]
           amount == Less(custody[k.move.old][k.asset], Fee)
<1>1. IsSweep(k)
    BY AtStageSweeps DEF BalanceRead
<1>2. /\ k.move \in Move /\ IsPlan(k.plan) /\ k.asset \in Asset
      /\ \E S \in SUBSET Asset : k \in SweepOver(S)
    BY <1>1, SweepCallOf DEF TypeInv
<1>3. amount \in Nat
    <2>1. custody[k.move.old][k.asset] \in Int /\ Fee \in Int
        BY <1>2, MoveKinds, AccountsAssumption DEF TypeInv, LedgerType
    <2> QED BY <2>1, LessNat
<1>4. PlansType' /\ CallType'
    <2>1. CASE amount = 0
        <3>1. Continue(c, k.move, [k.plan EXCEPT !.sweeps[k.asset] = 0], marks)
            BY <2>1 DEF BalanceRead
        <3>2. IsPlan([k.plan EXCEPT !.sweeps[k.asset] = 0])
            BY <1>2, SweptPlan
        <3>3. marks \in [Principal -> Mark]
            BY DEF TypeInv, PlansType
        <3> QED BY <1>2, <3>1, <3>2, <3>3, ContinueType DEF BalanceRead, TypeInv
    <2>2. CASE amount # 0
        <3>1. call' = [call EXCEPT ![c] = [k EXCEPT !.stage = "transfer", !.amount = amount]]
            BY <2>2 DEF BalanceRead
        <3> HIDE DEF amount
        <3>2. CallOK([k EXCEPT !.stage = "transfer", !.amount = amount])
            BY <1>2, <1>3 DEF SweepOver, CallOK
        <3>3. UNCHANGED <<custody_plans, reassignment_plans, marks>>
            BY <2>2 DEF BalanceRead, amount
        <3> QED BY <3>1, <3>2, <3>3, CallPut DEF TypeInv, PlansType
    <2> QED BY <2>1, <2>2
<1> QED BY <1>4, BookType DEF BalanceRead, TypeInv, LedgerType

(* What a sweep asks the ledger for, and what the ledger makes of it. *)
LEMMA TransferOfType ==
    ASSUME CallType, NEW c \in CallId, IsSweep(call[c])
    PROVE  TransferOf(call[c]) \in LedgerTransfer
BY SweepCallOf DEF TransferOf, LedgerTransfer

LEMMA MovedType ==
    ASSUME LedgerType, NEW t \in LedgerTransfer, Covers(t)
    PROVE  Moved(t) \in [Principal -> [Asset -> Nat]]
<1> DEFINE o == t.move.old
           n == t.move.new
           a == t.asset
<1>1. o \in Principal /\ n \in Principal /\ a \in Asset /\ t.amount \in Nat /\ Fee \in Nat
    BY MoveKinds, AccountsAssumption DEF LedgerTransfer
<1>2. /\ custody \in [Principal -> [Asset -> Nat]]
      /\ custody[o][a] >= t.amount + Fee
    BY DEF LedgerType, Covers
<1>3. custody[o][a] - t.amount - Fee \in Nat
    BY <1>1, <1>2
<1> QED BY <1>1, <1>2, <1>3 DEF Moved

LEMMA TransferredType ==
    ASSUME TypeInv, NEW c \in CallId, Transferred(c) PROVE TypeInv'
<1>1. IsSweep(call[c])
    BY AtStageSweeps DEF Transferred
<1>2. LedgerType'
    BY <1>1, TransferOfType, MovedType DEF Transferred, TypeInv, LedgerType
<1>3. CallType'
    <2>1. CallOK([call[c] EXCEPT !.stage = "ok"])
        BY <1>1, SweepCallOf DEF TypeInv, SweepOver, CallOK
    <2> QED BY <2>1, CallPut DEF Transferred, TypeInv
<1> QED BY <1>2, <1>3, BookType DEF Transferred, TypeInv, PlansType

LEMMA SweepMovedType ==
    ASSUME TypeInv, NEW c \in CallId, SweepMoved(c) PROVE TypeInv'
<1> DEFINE k == call[c]
<1>1. IsSweep(k)
    BY AtStageSweeps DEF SweepMoved
<1>2. k.move \in Move /\ IsPlan(k.plan) /\ k.amount \in Nat
    BY <1>1, SweepCallOf DEF TypeInv
<1>3. IsPlan([k.plan EXCEPT !.sweeps[k.asset] = k.amount])
    BY <1>2, SweptPlan
<1>4. marks \in [Principal -> Mark]
    BY DEF TypeInv, PlansType
<1>5. Continue(c, k.move, [k.plan EXCEPT !.sweeps[k.asset] = k.amount], marks)
    BY DEF SweepMoved
<1>6. PlansType' /\ CallType'
    BY <1>2, <1>3, <1>4, <1>5, ContinueType DEF SweepMoved, TypeInv
<1> QED BY <1>6, BookType DEF SweepMoved, TypeInv, LedgerType

LEMMA SweepFailedType ==
    ASSUME TypeInv, NEW c, SweepFailed(c) PROVE TypeInv'
<1>1. CallType'
    BY ReturnType DEF SweepFailed, TypeInv
<1> QED BY <1>1, BookType DEF SweepFailed, TypeInv, PlansType, LedgerType

LEMMA SweepTimesOutType ==
    ASSUME TypeInv, NEW c \in CallId, SweepTimesOut(c) PROVE TypeInv'
<1>1. CallType'
    BY ReturnType DEF SweepTimesOut, TypeInv
<1>2. LedgerType'
    BY AtStageSweeps, TransferOfType DEF SweepTimesOut, TypeInv, LedgerType
<1> QED BY <1>1, <1>2, BookType DEF SweepTimesOut, TypeInv, PlansType

LEMMA LateTransferType ==
    ASSUME TypeInv, NEW t \in late, LateTransfer(t) PROVE TypeInv'
<1>1. LedgerType'
    BY MovedType DEF LateTransfer, TypeInv, LedgerType
<1> QED BY <1>1, BookType DEF LateTransfer, TypeInv, PlansType, CallType

LEMMA UpgradeType == ASSUME TypeInv, Upgrade PROVE TypeInv'
<1>1. CallType'
    BY DEF Upgrade, CallType, CallOK
<1>2. LedgerType'
    <2>1. \A c \in CallId : AtStage(c, "transfer") => TransferOf(call[c]) \in LedgerTransfer
        BY AtStageSweeps, TransferOfType DEF TypeInv
    <2> QED BY <2>1 DEF Upgrade, TypeInv, LedgerType
<1>3. PlansType'
    BY DEF Upgrade, RebuiltMarks, Mark, TypeInv, PlansType
<1> QED BY <1>1, <1>2, <1>3, BookType DEF Upgrade, TypeInv

-----------------------------------------------------------------------------
LEMMA TypeStep == ASSUME TypeInv, [Next]_vars PROVE TypeInv'
<1>1. CASE UNCHANGED vars
    BY <1>1 DEF vars, book, TypeInv, AccountsType, OrdersType, PlansType, CallType, LedgerType
<1>2. CASE AccountsNext
    BY <1>2, BeginDepositType, BeginWithdrawalType, BeginMatchedType, FinishMatchedType,
       FreezePositionType, BeginSettlementType, BeginOrderType, CancelOrderType, DepositSettledType,
       WithdrawalAnsweredType, FinishOrderType, RefuseOrderType, ApplySettlementType
       DEF AccountsNext, Respond, CallId
<1>3. CASE ReassignmentNext
    BY <1>3, BeginReassignType, ResumeReassignType, BalanceReadType, TransferredType,
       SweepMovedType, SweepFailedType, SweepTimesOutType, LateTransferType, UpgradeType
       DEF ReassignmentNext, SweepStep, CallId
<1>4. CASE MigrationNext
    BY <1>4, MigrateDomainType, RefuseMigrationType DEF MigrationNext
<1> QED BY <1>1, <1>2, <1>3, <1>4 DEF Next

LEMMA TypeGives == TypeInv => TypeOK
<1> SUFFICES ASSUME TypeInv PROVE TypeOK
    OBVIOUS
<1>1. \A c \in CallId : \/ call[c] = None
                       \/ call[c] \in OrderCall \cup MatchedCall
                       \/ IsSweepCall(call[c])
    <2> SUFFICES ASSUME NEW c \in CallId, call[c] # None, call[c] \notin OrderCall \cup MatchedCall
                 PROVE  IsSweepCall(call[c])
        OBVIOUS
    <2>1. CallOK(call[c])
        BY DEF TypeInv, CallType
    <2>2. IsSweep(call[c])
        BY <2>1 DEF CallOK, SweepOver, IsSweep
    <2> QED BY <2>2, SweepCallOf, PlanParts DEF TypeInv, IsSweepCall, IsSweep
<1>2. \A k \in DOMAIN reassignment_plans : IsReassignmentPlan(reassignment_plans[k])
    BY PlanParts DEF TypeInv, PlansType
<1> QED BY <1>1, <1>2 DEF TypeInv, TypeOK, AccountsType, OrdersType, PlansType, LedgerType

(* Every account, order, plan, mark and suspended call is one the canister
   can hold, whatever the principals do and however the calls interleave,
   with duplicated, lost and late ledger calls and upgrades.  (the Rust types
   of account/types.rs and the reassignment plan) *)
THEOREM MovesTypeCorrect == Spec => []TypeOK
<1>1. Spec => []TypeInv
    <2>1. Init => TypeInv
        BY TypeInit
    <2>2. TypeInv /\ [Next]_vars => TypeInv'
        BY TypeStep
    <2> QED BY <2>1, <2>2, PTL DEF Spec
<1> QED BY <1>1, TypeGives, PTL

-----------------------------------------------------------------------------
(* What a call does to the plans, the marks and itself, from the loop's top:
   it stores the plan, finalised or as it is. *)
Stores(c, m, plan, marked, stored) ==
    /\ IsPlan(stored) /\ stored.new_owner = plan.new_owner /\ stored.sweeps = plan.sweeps
    /\ reassignment_plans' = Put(reassignment_plans, PlanKey(m), stored)
    /\ \/ /\ Unswept(plan) = {} /\ ~Pending(stored)
          /\ marks' = Unlock(m, marked) /\ call' = [call EXCEPT ![c] = None]
       \/ /\ Unswept(plan) # {} /\ stored = plan /\ marks' = marked
          /\ \E a \in Unswept(plan) : call' = [call EXCEPT ![c] = Sweep(m, plan, a, "balance", 0)]

LEMMA ContinueStores ==
    ASSUME NEW c, NEW m, NEW plan, IsPlan(plan), NEW marked, Continue(c, m, plan, marked)
    PROVE  \E stored : Stores(c, m, plan, marked, stored)
<1>1. CASE Unswept(plan) = {}
    <2> DEFINE stored == [plan EXCEPT !.status = "Finalised"]
    <2>1. /\ IsPlan(stored) /\ stored.new_owner = plan.new_owner /\ stored.sweeps = plan.sweeps
          /\ ~Pending(stored)
        BY FinalisedPlan DEF Pending
    <2>2. /\ reassignment_plans' = Put(reassignment_plans, PlanKey(m), stored)
          /\ marks' = Unlock(m, marked) /\ call' = [call EXCEPT ![c] = None]
        BY <1>1 DEF Continue, Return
    <2> HIDE DEF stored
    <2> QED BY <1>1, <2>1, <2>2 DEF Stores
<1>2. CASE Unswept(plan) # {}
    <2>1. /\ reassignment_plans' = Put(reassignment_plans, PlanKey(m), plan)
          /\ marks' = marked
          /\ \E a \in Unswept(plan) :
                call' = [call EXCEPT ![c] = Sweep(m, plan, a, "balance", 0)]
        BY <1>2 DEF Continue
    <2> QED BY <1>2, <2>1 DEF Stores
<1> QED BY <1>1, <1>2

(* A plan that is stored again, for the same new owner. *)
LEMMA OwnersKept ==
    ASSUME NEW key \in DOMAIN reassignment_plans, NEW plan,
           plan.new_owner = reassignment_plans[key].new_owner,
           reassignment_plans' = Put(reassignment_plans, key, plan)
    PROVE  /\ DOMAIN reassignment_plans' = DOMAIN reassignment_plans
           /\ \A k \in DOMAIN reassignment_plans :
                 reassignment_plans'[k].new_owner = reassignment_plans[k].new_owner
BY DEF Put

LEMMA UnlockKeeps ==
    ASSUME PlansType, NEW m, NEW p \in Principal
    PROVE  /\ Unlock(m, marks)[p].generation = marks[p].generation
           /\ Unlock(m, marks)[p].locked => marks[p].locked
BY DEF Unlock, PlansType, Mark

(* A step that adds no reassignment and no suspended user method. *)
LEMMA MovesSeenKept ==
    ASSUME TypeInv, MovesSeen,
           \A c \in CallId : call'[c] = call[c] \/ call'[c] = None \/ IsSweep(call'[c]),
           DOMAIN reassignment_plans' = DOMAIN reassignment_plans,
           \A k \in DOMAIN reassignment_plans :
               reassignment_plans'[k].new_owner = reassignment_plans[k].new_owner,
           \A p \in Principal : marks'[p].generation = marks[p].generation
    PROVE  MovesSeen'
<1> SUFFICES ASSUME NEW c \in CallId, NEW k \in {call'[c]}, IsOrder(k)
             PROVE  /\ k.generation <= marks'[k.user].generation
                    /\ k.generation = marks'[k.user].generation => MovesOf({k.user})' = k.moves
    BY DEF MovesSeen
<1>1. k = call[c]
    BY DEF IsSweep, IsOrder
<1>2. k.user \in Principal
    BY <1>1 DEF TypeInv, CallType, CallOK, OrderCall, MatchedCall, SweepOver, IsOrder
<1>3. MovesOf({k.user})' = MovesOf({k.user})
    BY DEF MovesOf
<1> QED BY <1>1, <1>2, <1>3 DEF MovesSeen

(* The same for the calls of reassignments. *)
LEMMA SweepsNamedKept ==
    ASSUME SweepsNamed,
           \A c \in CallId : \/ call'[c] = call[c]
                             \/ ~IsSweep(call'[c])
                             \/ /\ IsSweep(call[c]) /\ call'[c].move = call[c].move
                                /\ call'[c].plan.new_owner = call[c].plan.new_owner,
           DOMAIN reassignment_plans' = DOMAIN reassignment_plans,
           \A k \in DOMAIN reassignment_plans :
               reassignment_plans'[k].new_owner = reassignment_plans[k].new_owner
    PROVE  SweepsNamed'
<1> SUFFICES ASSUME NEW c \in CallId, IsSweep(call'[c])
             PROVE  /\ PlanKey(call'[c].move) \in DOMAIN reassignment_plans'
                    /\ reassignment_plans'[PlanKey(call'[c].move)].new_owner = call'[c].move.new
                    /\ call'[c].plan.new_owner = call'[c].move.new
    BY DEF SweepsNamed
<1>1. /\ IsSweep(call[c]) /\ call'[c].move = call[c].move
      /\ call'[c].plan.new_owner = call[c].plan.new_owner
    OBVIOUS
<1>2. /\ PlanKey(call[c].move) \in DOMAIN reassignment_plans
      /\ reassignment_plans[PlanKey(call[c].move)].new_owner = call[c].move.new
      /\ call[c].plan.new_owner = call[c].move.new
    BY <1>1 DEF SweepsNamed
<1> QED BY <1>1, <1>2

(* A call that goes on with the plan of a reassignment that has begun. *)
LEMMA ContinueKeepsBooks ==
    ASSUME TypeInv, SweepsNamed, MovesSeen, NEW c \in CallId, NEW m, NEW plan, IsPlan(plan),
           PlanKey(m) \in DOMAIN reassignment_plans,
           reassignment_plans[PlanKey(m)].new_owner = m.new, plan.new_owner = m.new,
           Continue(c, m, plan, marks)
    PROVE  SweepsNamed' /\ MovesSeen'
<1> PICK stored : Stores(c, m, plan, marks, stored)
    BY ContinueStores
<1>1. /\ stored.new_owner = plan.new_owner
      /\ reassignment_plans' = Put(reassignment_plans, PlanKey(m), stored)
      /\ \/ marks' = Unlock(m, marks) /\ call' = [call EXCEPT ![c] = None]
         \/ marks' = marks /\ \E a : call' = [call EXCEPT ![c] = Sweep(m, plan, a, "balance", 0)]
    BY DEF Stores
<1>2. /\ DOMAIN reassignment_plans' = DOMAIN reassignment_plans
      /\ \A k \in DOMAIN reassignment_plans :
            reassignment_plans'[k].new_owner = reassignment_plans[k].new_owner
    BY <1>1, OwnersKept
<1>3. \A p \in Principal : marks'[p].generation = marks[p].generation
    BY <1>1, UnlockKeeps DEF TypeInv
<1>4. \A x \in CallId : \/ call'[x] = call[x] \/ call'[x] = None
                        \/ /\ x = c /\ call'[x].op = "sweep"
                           /\ call'[x].move = m /\ call'[x].plan = plan
    BY <1>1 DEF Sweep, TypeInv, CallType
<1>5. MovesSeen'
    <2>1. \A x \in CallId : call'[x] = call[x] \/ call'[x] = None \/ IsSweep(call'[x])
        BY <1>4 DEF IsSweep
    <2> QED BY <1>2, <1>3, <2>1, MovesSeenKept
<1>6. SweepsNamed'
    <2> SUFFICES ASSUME NEW x \in CallId, IsSweep(call'[x])
                 PROVE  /\ PlanKey(call'[x].move) \in DOMAIN reassignment_plans'
                        /\ reassignment_plans'[PlanKey(call'[x].move)].new_owner = call'[x].move.new
                        /\ call'[x].plan.new_owner = call'[x].move.new
        BY DEF SweepsNamed
    <2>1. CASE call'[x] = call[x]
        BY <1>2, <2>1 DEF SweepsNamed
    <2>2. CASE call'[x].move = m /\ call'[x].plan = plan
        BY <1>2, <2>2
    <2> QED BY <1>4, <2>1, <2>2 DEF IsSweep
<1> QED BY <1>5, <1>6

LEMMA BeginReassignBooks ==
    ASSUME TypeInv, SweepsNamed, MovesSeen, NEW c \in CallId, NEW m \in Move, BeginReassign(c, m)
    PROVE  SweepsNamed' /\ MovesSeen'
<1> DEFINE key == PlanKey(m)
<1> PICK stored : Stores(c, m, NewPlan(m), Lock(m), stored)
    BY ContinueStores, NewPlanType DEF BeginReassign
<1>1. /\ stored.new_owner = m.new
      /\ reassignment_plans' = Put(reassignment_plans, key, stored)
      /\ \/ marks' = Unlock(m, Lock(m)) /\ call' = [call EXCEPT ![c] = None]
         \/ /\ marks' = Lock(m)
            /\ \E a : call' = [call EXCEPT ![c] = Sweep(m, NewPlan(m), a, "balance", 0)]
    BY NewPlanType DEF Stores
<1>2. key \notin DOMAIN reassignment_plans /\ key[1] = m.old
    BY MoveKinds DEF BeginReassign
<1>3. \A p \in Principal :
          marks'[p].generation =
              IF p \in {m.old, m.new} THEN marks[p].generation + 1 ELSE marks[p].generation
    <2>1. \A p \in Principal :
              /\ marks'[p].generation = Lock(m)[p].generation
              /\ Lock(m)[p].generation =
                    IF p \in {m.old, m.new} THEN marks[p].generation + 1 ELSE marks[p].generation
        <3>1. CASE marks' = Lock(m)
            BY <3>1 DEF Lock
        <3>2. CASE marks' = Unlock(m, Lock(m))
            BY <3>2 DEF Lock, Unlock
        <3> QED BY <1>1, <3>1, <3>2
    <2> QED BY <2>1
<1>4. \A x \in CallId : \/ call'[x] = call[x] \/ call'[x] = None
                        \/ /\ x = c /\ call'[x].op = "sweep"
                           /\ call'[x].move = m /\ call'[x].plan = NewPlan(m)
    BY <1>1 DEF Sweep, TypeInv, CallType
<1>5. /\ DOMAIN reassignment_plans' = DOMAIN reassignment_plans \cup {key}
      /\ reassignment_plans'[key].new_owner = m.new
      /\ \A k \in DOMAIN reassignment_plans : reassignment_plans'[k] = reassignment_plans[k]
    BY <1>1, <1>2 DEF Put
<1> HIDE DEF key
<1>6. SweepsNamed'
    <2> SUFFICES ASSUME NEW x \in CallId, IsSweep(call'[x])
                 PROVE  /\ PlanKey(call'[x].move) \in DOMAIN reassignment_plans'
                        /\ reassignment_plans'[PlanKey(call'[x].move)].new_owner = call'[x].move.new
                        /\ call'[x].plan.new_owner = call'[x].move.new
        BY DEF SweepsNamed
    <2>1. CASE call'[x] = call[x]
        BY <1>5, <2>1 DEF SweepsNamed
    <2>2. CASE call'[x].move = m /\ call'[x].plan = NewPlan(m)
        BY <1>5, <2>2, NewPlanType DEF key
    <2> QED BY <1>4, <2>1, <2>2 DEF IsSweep
<1>7. MovesSeen'
    <2> SUFFICES ASSUME NEW x \in CallId, NEW k \in {call'[x]}, IsOrder(k)
                 PROVE  /\ k.generation <= marks'[k.user].generation
                        /\ k.generation = marks'[k.user].generation => MovesOf({k.user})' = k.moves
        BY DEF MovesSeen
    <2>1. k = call[x]
        BY <1>4 DEF IsOrder
    <2>2. k.user \in Principal /\ k.generation \in Nat /\ marks[k.user].generation \in Nat
        BY <2>1 DEF TypeInv, CallType, CallOK, OrderCall, MatchedCall, SweepOver, PlansType, Mark,
           IsOrder
    <2>3. /\ k.generation <= marks[k.user].generation
          /\ k.generation = marks[k.user].generation => MovesOf({k.user}) = k.moves
        BY <2>1 DEF MovesSeen
    <2>4. CASE k.user \in {m.old, m.new}
        BY <1>3, <2>2, <2>3, <2>4
    <2>5. CASE k.user \notin {m.old, m.new}
        <3>1. MovesOf({k.user})' = MovesOf({k.user})
            BY <1>2, <1>5, <2>5 DEF MovesOf
        <3> QED BY <1>3, <2>2, <2>3, <2>5, <3>1
    <2> QED BY <2>4, <2>5
<1> QED BY <1>6, <1>7

LEMMA BeginOrderBooks ==
    ASSUME TypeInv, SweepsNamed, MovesSeen, NEW c \in UserCallId, NEW r \in Request,
           r.op \in {"limit", "market"}, BeginOrder(c, r)
    PROVE  SweepsNamed' /\ MovesSeen'
<1> DEFINE k == [op |-> r.op, user |-> r.user, generation |-> marks[r.user].generation, req |-> r,
                 seen |-> IF r.op = "market" THEN limit_orders[r.id] ELSE None,
                 moves |-> MovesOf({r.user})]
<1>1. /\ call' = [call EXCEPT ![c] = k] /\ UNCHANGED <<reassignment_plans, marks>>
      /\ c \in CallId
    BY DEF BeginOrder, CallId
<1>2. k.op \in {"limit", "market"}
    OBVIOUS
<1>3. marks[r.user].generation \in Nat
    BY RequestKinds DEF TypeInv, PlansType, Mark
<1>4. k.generation <= marks[k.user].generation /\ MovesOf({k.user}) = k.moves
    BY <1>3
<1>5. \A S : MovesOf(S)' = MovesOf(S)
    BY <1>1 DEF MovesOf
<1> HIDE DEF k
<1>6. \A x \in CallId : call'[x] = IF x = c THEN k ELSE call[x]
    BY <1>1 DEF TypeInv, CallType
<1>7. SweepsNamed'
    BY <1>1, <1>2, <1>6, SweepsNamedKept DEF IsSweep
<1>8. MovesSeen'
    <2> SUFFICES ASSUME NEW x \in CallId, NEW l \in {call'[x]}, IsOrder(l)
                 PROVE  /\ l.generation <= marks'[l.user].generation
                        /\ l.generation = marks'[l.user].generation =>
                               MovesOf({l.user})' = l.moves
        BY DEF MovesSeen
    <2>1. CASE x = c
        BY <1>1, <1>4, <1>5, <1>6, <2>1
    <2>2. CASE x # c
        <3>1. l = call[x]
            BY <1>6, <2>2
        <3> QED BY <1>1, <1>5, <3>1 DEF MovesSeen
    <2> QED BY <2>1, <2>2
<1> QED BY <1>7, <1>8

LEMMA BeginMatchedBooks ==
    ASSUME TypeInv, SweepsNamed, MovesSeen, NEW c \in UserCallId, NEW r, BeginMatched(c, r)
    PROVE  SweepsNamed' /\ MovesSeen'
<1> DEFINE k == [op |-> "matched", req |-> r, moves |-> MovesOf(UsersOf(r))]
<1>1. /\ call' = [call EXCEPT ![c] = k] /\ UNCHANGED <<reassignment_plans, marks>>
      /\ k.op = "matched" /\ c \in CallId
    BY DEF BeginMatched, CallId
<1> HIDE DEF k
<1>2. \A x \in CallId : call'[x] = IF x = c THEN k ELSE call[x]
    BY <1>1 DEF TypeInv, CallType
<1>3. \A S : MovesOf(S)' = MovesOf(S)
    BY <1>1 DEF MovesOf
<1>4. SweepsNamed'
    BY <1>1, <1>2, SweepsNamedKept DEF IsSweep
<1>5. MovesSeen'
    BY <1>1, <1>2, <1>3 DEF MovesSeen, IsOrder
<1> QED BY <1>4, <1>5

LEMMA SweepStepBooks ==
    ASSUME TypeInv, SweepsNamed, MovesSeen, NEW c \in CallId, SweepStep(c)
    PROVE  SweepsNamed' /\ MovesSeen'
<1> DEFINE k == call[c]
<1>1. IsSweep(k)
    BY AtStageSweeps DEF SweepStep, BalanceRead, Transferred, SweepMoved
<1>2. k.move \in Move /\ IsPlan(k.plan) /\ k.amount \in Nat
    BY <1>1, SweepCallOf DEF TypeInv
<1>3. /\ PlanKey(k.move) \in DOMAIN reassignment_plans
      /\ reassignment_plans[PlanKey(k.move)].new_owner = k.move.new
      /\ k.plan.new_owner = k.move.new
    BY <1>1 DEF SweepsNamed
<1>4. ASSUME NEW amount \in Nat, Continue(c, k.move, [k.plan EXCEPT !.sweeps[k.asset] = amount], marks)
      PROVE  SweepsNamed' /\ MovesSeen'
    <2>1. PICK plan, a : plan = k.plan /\ a = k.asset
        OBVIOUS
    <2>2. /\ IsPlan([plan EXCEPT !.sweeps[a] = amount])
          /\ [plan EXCEPT !.sweeps[a] = amount].new_owner = plan.new_owner
        <3>1. IsPlan(plan)
            BY <1>2, <2>1
        <3> QED BY ONLY <3>1, amount \in Nat, SweptPlan
    <2> QED BY <1>2, <1>3, <1>4, <2>1, <2>2, ContinueKeepsBooks
<1>5. ASSUME NEW stage, NEW amount,
             call' = [call EXCEPT ![c] = [k EXCEPT !.stage = stage, !.amount = amount]],
             UNCHANGED <<reassignment_plans, marks>>
      PROVE  SweepsNamed' /\ MovesSeen'
    <2> DEFINE next == [k EXCEPT !.stage = stage, !.amount = amount]
    <2>1. next.op = "sweep" /\ next.move = k.move /\ next.plan = k.plan
        BY <1>1, SweepCallOf DEF TypeInv, SweepOver
    <2>2. call' = [call EXCEPT ![c] = next]
        BY <1>5
    <2> HIDE DEF next
    <2>3. \A x \in CallId : call'[x] = call[x] \/ (x = c /\ call'[x] = next)
        BY <2>2 DEF TypeInv, CallType
    <2>4. SweepsNamed'
        BY <1>1, <1>5, <2>1, <2>3, SweepsNamedKept
    <2>5. MovesSeen'
        BY <1>5, <2>1, <2>3, MovesSeenKept DEF IsSweep
    <2> QED BY <2>4, <2>5
<1>6. CASE BalanceRead(c)
    <2>1. CASE Continue(c, k.move, [k.plan EXCEPT !.sweeps[k.asset] = 0], marks)
        BY <1>4, <2>1
    <2>2. CASE UNCHANGED <<reassignment_plans, marks>>
               /\ \E amount : call' = [call EXCEPT ![c] = [k EXCEPT !.stage = "transfer", !.amount = amount]]
        BY <1>5, <2>2
    <2> QED BY <1>6, <2>1, <2>2 DEF BalanceRead
<1>7. CASE Transferred(c)
    <2> DEFINE next == [k EXCEPT !.stage = "ok"]
    <2>1. next.op = "sweep" /\ next.move = k.move /\ next.plan = k.plan
        BY <1>1, SweepCallOf DEF TypeInv, SweepOver
    <2>2. call' = [call EXCEPT ![c] = next]
        BY <1>7 DEF Transferred
    <2> HIDE DEF next
    <2>3. \A x \in CallId : call'[x] = call[x] \/ (x = c /\ call'[x] = next)
        BY <2>2 DEF TypeInv, CallType
    <2>4. UNCHANGED <<reassignment_plans, marks>>
        BY <1>7 DEF Transferred
    <2> QED BY <1>1, <2>1, <2>3, <2>4, SweepsNamedKept, MovesSeenKept DEF IsSweep
<1>8. CASE SweepMoved(c)
    BY <1>2, <1>4, <1>8 DEF SweepMoved
<1> QED BY <1>6, <1>7, <1>8 DEF SweepStep

(* A step that changes no plan and no mark, and suspends no call. *)
LEMMA QuietBooks ==
    ASSUME TypeInv, SweepsNamed, MovesSeen, UNCHANGED <<reassignment_plans, marks>>,
           UNCHANGED call \/ \E c : Return(c)
    PROVE  SweepsNamed' /\ MovesSeen'
<1>1. \A x \in CallId : call'[x] = call[x] \/ call'[x] = None
    BY DEF Return, TypeInv, CallType
<1>2. SweepsNamed'
    BY <1>1, SweepsNamedKept DEF IsSweep
<1>3. MovesSeen'
    BY <1>1, MovesSeenKept
<1> QED BY <1>2, <1>3

LEMMA UpgradeBooks == ASSUME Upgrade PROVE SweepsNamed' /\ MovesSeen'
BY DEF Upgrade, SweepsNamed, MovesSeen, IsSweep, IsOrder

LEMMA ResumeBooks ==
    ASSUME TypeInv, SweepsNamed, MovesSeen, NEW c \in CallId, NEW m, ResumeReassign(c, m)
    PROVE  SweepsNamed' /\ MovesSeen'
<1>1. IsPlan(reassignment_plans[PlanKey(m)])
    BY DEF ResumeReassign, TypeInv, PlansType
<1> QED BY <1>1, ContinueKeepsBooks DEF ResumeReassign

LEMMA BooksStep == ASSUME BooksInv, [Next]_vars PROVE BooksInv'
<1>1. TypeInv'
    BY TypeStep DEF BooksInv
<1>2. TypeInv /\ SweepsNamed /\ MovesSeen
    BY DEF BooksInv
<1>3. CASE UNCHANGED vars
    BY <1>1, <1>2, <1>3, QuietBooks DEF vars, BooksInv
<1>4. CASE AccountsNext
    <2>1. CASE \E c \in UserCallId, r \in Request : r.op \in {"limit", "market"} /\ BeginOrder(c, r)
        BY <1>1, <1>2, <2>1, BeginOrderBooks DEF BooksInv
    <2>2. CASE \E c \in UserCallId, r \in Request : BeginMatched(c, r)
        BY <1>1, <1>2, <2>2, BeginMatchedBooks DEF BooksInv
    <2>3. CASE ~\E c \in UserCallId, r \in Request :
                   BeginMatched(c, r) \/ (r.op \in {"limit", "market"} /\ BeginOrder(c, r))
        <3>1. UNCHANGED <<reassignment_plans, marks>> /\ (UNCHANGED call \/ \E c : Return(c))
            BY <1>4, <2>3 DEF AccountsNext, Respond, BeginDeposit, BeginWithdrawal, FinishMatched,
               FreezePosition, BeginSettlement, CancelOrder, DepositSettled, WithdrawalAnswered,
               FinishOrder, RefuseOrder, ApplySettlement
        <3> QED BY <1>1, <1>2, <3>1, QuietBooks DEF BooksInv
    <2> QED BY <2>1, <2>2, <2>3
<1>5. CASE ReassignmentNext
    <2>1. CASE \E c \in AdminCallId, m \in Move : BeginReassign(c, m)
        BY <1>1, <1>2, <2>1, BeginReassignBooks DEF BooksInv, CallId
    <2>2. CASE \E c \in AdminCallId, m \in Move : ResumeReassign(c, m)
        BY <1>1, <1>2, <2>2, ResumeBooks DEF BooksInv, CallId
    <2>3. CASE \E c \in AdminCallId : SweepStep(c)
        BY <1>1, <1>2, <2>3, SweepStepBooks DEF BooksInv, CallId
    <2>4. CASE \/ \E c \in AdminCallId : SweepFailed(c) \/ SweepTimesOut(c)
               \/ \E t \in late : LateTransfer(t)
        <3>1. UNCHANGED <<reassignment_plans, marks>> /\ (UNCHANGED call \/ \E c : Return(c))
            BY <2>4 DEF SweepFailed, SweepTimesOut, LateTransfer
        <3> QED BY <1>1, <1>2, <3>1, QuietBooks DEF BooksInv
    <2>5. CASE Upgrade
        BY <1>1, <2>5, UpgradeBooks DEF BooksInv
    <2> QED BY <1>5, <2>1, <2>2, <2>3, <2>4, <2>5 DEF ReassignmentNext
<1>6. CASE MigrationNext
    <2>1. UNCHANGED <<reassignment_plans, marks, call>>
        BY <1>6 DEF MigrationNext, MigrateDomain, RefuseMigration
    <2> QED BY <1>1, <1>2, <2>1, QuietBooks DEF BooksInv
<1> QED BY <1>3, <1>4, <1>5, <1>6 DEF Next

LEMMA BooksInit == Init => BooksInv
BY TypeInit DEF BooksInv, Init, SweepsNamed, MovesSeen, IsSweep, IsOrder

(* A step that books and ends a method is the second half of that method. *)
LEMMA BookedBy ==
    ASSUME TypeInv, [Next]_vars, NEW c \in CallId, call[c] # None, call[c].op # "sweep",
           call'[c] = None, book' # book
    PROVE  FinishOrder(c) \/ FinishMatched(c)
<1>1. call'[c] # call[c]
    OBVIOUS
<1>2. ASSUME NEW x, FinishOrder(x) \/ FinishMatched(x) PROVE x = c
    <2>1. call' = [call EXCEPT ![x] = None]
        BY <1>2 DEF FinishOrder, FinishMatched, Return
    <2> QED BY <1>1, <2>1 DEF TypeInv, CallType
<1>3. ~ \E x \in AdminCallId, m \in Move : BeginReassign(x, m) \/ ResumeReassign(x, m)
    <2> SUFFICES ASSUME NEW x \in CallId, NEW m \in Move, BeginReassign(x, m) PROVE FALSE
        BY DEF ResumeReassign, CallId
    <2> PICK stored : Stores(x, m, NewPlan(m), Lock(m), stored)
        BY ContinueStores, NewPlanType DEF BeginReassign
    <2>1. call'[c] = call[c]
        BY DEF BeginReassign, Stores, TypeInv, CallType
    <2> QED BY <1>1, <2>1
<1>4. CASE AccountsNext
    <2>1. ~UNCHANGED call /\ ~UNCHANGED book
        BY <1>1
    <2>2. \E x \in UserCallId : FinishOrder(x) \/ FinishMatched(x)
        BY ZenonT(30), <1>4, <2>1 DEF AccountsNext, Respond, BeginDeposit, BeginWithdrawal,
           BeginMatched, FreezePosition, BeginSettlement, BeginOrder, CancelOrder, DepositSettled,
           WithdrawalAnswered, RefuseOrder, ApplySettlement
    <2> QED BY <1>2, <2>2
<1>5. CASE ~AccountsNext
    BY ZenonT(30), <1>1, <1>3, <1>5 DEF Next, vars, ReassignmentNext, SweepStep, BalanceRead,
       Transferred, SweepMoved, SweepFailed, SweepTimesOut, LateTransfer, Upgrade, MigrationNext,
       MigrateDomain, RefuseMigration
<1> QED BY <1>4, <1>5

LEMMA OrderBooksSeen ==
    ASSUME BooksInv, [Next]_vars, NEW c \in CallId, IsOrder(call[c]), call'[c] = None, book' # book
    PROVE  MovesOf({call[c].user}) = call[c].moves
<1>1. FinishOrder(c)
    BY BookedBy DEF IsOrder, FinishMatched, BooksInv
<1> QED BY <1>1 DEF FinishOrder, Revalidated, BooksInv, MovesSeen, IsOrder

(* An order that was suspended while its principal's account was taken away,
   or while it was brought one, books nothing: the generation of the mark
   gives it away, through unlocks, further reassignments and upgrades, and
   without any discipline of the controllers.  (ReassignmentGuard) *)
THEOREM OrdersBookOnSameAccount ==
    Spec => [][\A c \in CallId :
                  call[c] # None /\ call[c].op \in {"limit", "market"}
                  /\ call'[c] = None /\ book' # book =>
                      MovesOf({call[c].user}) = call[c].moves]_vars
<1>1. BooksInv /\ [Next]_vars =>
        [\A c \in CallId :
            call[c] # None /\ call[c].op \in {"limit", "market"}
            /\ call'[c] = None /\ book' # book =>
                MovesOf({call[c].user}) = call[c].moves]_vars
    BY OrderBooksSeen DEF IsOrder
<1>2. Init => BooksInv
    BY BooksInit
<1>3. BooksInv /\ [Next]_vars => BooksInv'
    BY BooksStep
<1> QED BY <1>1, <1>2, <1>3, PTL DEF Spec

-----------------------------------------------------------------------------
(* Matched trades. *)

(* A step that begins no reassignment and no matched trade, nor locks. *)
LEMMA RestedKept ==
    ASSUME TypeInv, MatchesRested,
           \A c \in CallId : call'[c] = call[c] \/ ~IsMatch(call'[c]),
           DOMAIN reassignment_plans' = DOMAIN reassignment_plans,
           \A k \in DOMAIN reassignment_plans :
               reassignment_plans'[k].new_owner = reassignment_plans[k].new_owner,
           \A p \in Principal : marks'[p].locked => marks[p].locked
    PROVE  MatchesRested'
<1> SUFFICES ASSUME NEW c \in CallId, NEW k \in {call'[c]}, IsMatch(k)
             PROVE  /\ \A p \in UsersOf(k.req) : ~marks'[p].locked
                    /\ MovesOf(UsersOf(k.req))' = k.moves
    BY DEF MatchesRested
<1>1. k = call[c]
    OBVIOUS
<1>2. UsersOf(k.req) \subseteq Principal
    BY <1>1, MatchedCallOf, RequestKinds DEF TypeInv
<1>3. MovesOf(UsersOf(k.req))' = MovesOf(UsersOf(k.req))
    BY DEF MovesOf
<1> QED BY <1>1, <1>2, <1>3 DEF MatchesRested

LEMMA ContinueRests ==
    ASSUME TypeInv, MatchesRested, NEW c \in CallId, NEW m, NEW plan, IsPlan(plan),
           PlanKey(m) \in DOMAIN reassignment_plans,
           reassignment_plans[PlanKey(m)].new_owner = m.new, plan.new_owner = m.new,
           Continue(c, m, plan, marks)
    PROVE  MatchesRested'
<1> PICK stored : Stores(c, m, plan, marks, stored)
    BY ContinueStores
<1>1. /\ stored.new_owner = plan.new_owner
      /\ reassignment_plans' = Put(reassignment_plans, PlanKey(m), stored)
      /\ \/ marks' = Unlock(m, marks) /\ call' = [call EXCEPT ![c] = None]
         \/ marks' = marks /\ \E a : call' = [call EXCEPT ![c] = Sweep(m, plan, a, "balance", 0)]
    BY DEF Stores
<1>2. /\ DOMAIN reassignment_plans' = DOMAIN reassignment_plans
      /\ \A k \in DOMAIN reassignment_plans :
            reassignment_plans'[k].new_owner = reassignment_plans[k].new_owner
    BY <1>1, OwnersKept
<1>3. \A p \in Principal : marks'[p].locked => marks[p].locked
    BY <1>1, UnlockKeeps DEF TypeInv
<1>4. \A x \in CallId : call'[x] = call[x] \/ ~IsMatch(call'[x])
    BY <1>1 DEF Sweep, IsMatch, TypeInv, CallType
<1> QED BY <1>2, <1>3, <1>4, RestedKept

LEMMA BeginReassignRests ==
    ASSUME "rested_matches" \in Discipline, TypeInv, MatchesRested, NEW c \in CallId,
           NEW m \in Move, BeginReassign(c, m)
    PROVE  MatchesRested'
<1> PICK stored : Stores(c, m, NewPlan(m), Lock(m), stored)
    BY ContinueStores, NewPlanType DEF BeginReassign
<1> SUFFICES ASSUME NEW x \in CallId, NEW k \in {call'[x]}, IsMatch(k)
             PROVE  /\ \A p \in UsersOf(k.req) : ~marks'[p].locked
                    /\ MovesOf(UsersOf(k.req))' = k.moves
    BY DEF MatchesRested
<1>1. k = call[x]
    BY DEF Stores, Sweep, IsMatch, TypeInv, CallType
<1>2. UsersOf(k.req) \subseteq Principal
    BY <1>1, MatchedCallOf, RequestKinds DEF TypeInv
<1>3. UsersOf(k.req) \cap {m.old, m.new} = {}
    BY <1>1 DEF BeginReassign, NoMatchUnderWay, IsMatch
<1>4. /\ \A p \in UsersOf(k.req) : ~marks[p].locked
      /\ MovesOf(UsersOf(k.req)) = k.moves
    BY <1>1 DEF MatchesRested
<1>5. \A p \in Principal \ {m.old, m.new} : marks'[p] = marks[p]
    BY DEF Stores, Lock, Unlock
<1>6. /\ PlanKey(m) \notin DOMAIN reassignment_plans /\ PlanKey(m)[1] = m.old
      /\ DOMAIN reassignment_plans' = DOMAIN reassignment_plans \cup {PlanKey(m)}
      /\ reassignment_plans'[PlanKey(m)].new_owner = m.new
      /\ \A l \in DOMAIN reassignment_plans : reassignment_plans'[l] = reassignment_plans[l]
    BY NewPlanType, MoveKinds DEF BeginReassign, Stores, Put
<1>7. MovesOf(UsersOf(k.req))' = MovesOf(UsersOf(k.req))
    BY <1>3, <1>6 DEF MovesOf
<1> QED BY <1>2, <1>3, <1>4, <1>5, <1>7

LEMMA BeginMatchedRests ==
    ASSUME "rested_matches" \in Discipline, TypeInv, MatchesRested, NEW c \in UserCallId,
           NEW r \in Request, BeginMatched(c, r)
    PROVE  MatchesRested'
<1> DEFINE n == [op |-> "matched", req |-> r, moves |-> MovesOf(UsersOf(r))]
<1>1. /\ call' = [call EXCEPT ![c] = n] /\ UNCHANGED <<reassignment_plans, marks>>
      /\ \A p \in UsersOf(n.req) : ~marks[p].locked
      /\ MovesOf(UsersOf(n.req)) = n.moves
    BY DEF BeginMatched
<1> HIDE DEF n
<1>2. \A S : MovesOf(S)' = MovesOf(S)
    BY <1>1 DEF MovesOf
<1>3. \A x \in CallId : call'[x] = n \/ call'[x] = call[x]
    BY <1>1 DEF TypeInv, CallType
<1> QED BY <1>1, <1>2, <1>3 DEF MatchesRested

LEMMA SweepStepRests ==
    ASSUME BooksInv, MatchesRested, NEW c \in CallId, SweepStep(c) PROVE MatchesRested'
<1> DEFINE k == call[c]
<1>1. IsSweep(k)
    BY AtStageSweeps DEF SweepStep, BalanceRead, Transferred, SweepMoved
<1>2. TypeInv /\ k.move \in Move /\ IsPlan(k.plan) /\ k.amount \in Nat
    BY <1>1, SweepCallOf DEF BooksInv, TypeInv
<1>3. /\ PlanKey(k.move) \in DOMAIN reassignment_plans
      /\ reassignment_plans[PlanKey(k.move)].new_owner = k.move.new
      /\ k.plan.new_owner = k.move.new
    BY <1>1 DEF BooksInv, SweepsNamed
<1>4. ASSUME NEW amount \in Nat, Continue(c, k.move, [k.plan EXCEPT !.sweeps[k.asset] = amount], marks)
      PROVE  MatchesRested'
    <2>1. PICK plan, a : plan = k.plan /\ a = k.asset
        OBVIOUS
    <2>2. /\ IsPlan([plan EXCEPT !.sweeps[a] = amount])
          /\ [plan EXCEPT !.sweeps[a] = amount].new_owner = plan.new_owner
        <3>1. IsPlan(plan)
            BY <1>2, <2>1
        <3> QED BY ONLY <3>1, amount \in Nat, SweptPlan
    <2> QED BY <1>2, <1>3, <1>4, <2>1, <2>2, ContinueRests
<1>5. CASE /\ UNCHANGED <<reassignment_plans, marks>>
           /\ \E next : next.op = "sweep" /\ call' = [call EXCEPT ![c] = next]
    <2>1. \A x \in CallId : call'[x] = call[x] \/ ~IsMatch(call'[x])
        BY <1>2, <1>5 DEF TypeInv, CallType, IsMatch
    <2> QED BY <1>2, <1>5, <2>1, RestedKept
<1>6. ASSUME NEW stage, NEW amount PROVE [k EXCEPT !.stage = stage, !.amount = amount].op = "sweep"
    BY <1>1, <1>2, SweepCallOf DEF TypeInv, SweepOver, IsSweep
<1>7. [k EXCEPT !.stage = "ok"].op = "sweep"
    BY <1>1, <1>2, SweepCallOf DEF TypeInv, SweepOver, IsSweep
<1>8. CASE BalanceRead(c)
    <2>1. CASE Continue(c, k.move, [k.plan EXCEPT !.sweeps[k.asset] = 0], marks)
        BY <1>4, <2>1
    <2>2. CASE UNCHANGED <<reassignment_plans, marks>>
               /\ \E amount : call' = [call EXCEPT ![c] = [k EXCEPT !.stage = "transfer", !.amount = amount]]
        BY <1>5, <1>6, <2>2
    <2> QED BY <1>8, <2>1, <2>2 DEF BalanceRead
<1>9. CASE Transferred(c)
    <2>1. call' = [call EXCEPT ![c] = [k EXCEPT !.stage = "ok"]]
        BY <1>9 DEF Transferred
    <2> QED BY <1>5, <1>7, <1>9, <2>1 DEF Transferred
<1>10. CASE SweepMoved(c)
    BY <1>2, <1>4, <1>10 DEF SweepMoved
<1> QED BY <1>8, <1>9, <1>10 DEF SweepStep

LEMMA RestedStep ==
    ASSUME "rested_matches" \in Discipline, BooksInv, MatchesRested, [Next]_vars
    PROVE  MatchesRested'
<1>1. TypeInv
    BY DEF BooksInv
<1>2. ASSUME UNCHANGED <<reassignment_plans, marks>>,
             \A c \in CallId : call'[c] = call[c] \/ ~IsMatch(call'[c])
      PROVE  MatchesRested'
    BY <1>1, <1>2, RestedKept
<1>3. ASSUME UNCHANGED call \/ \E c : Return(c)
      PROVE  \A c \in CallId : call'[c] = call[c] \/ ~IsMatch(call'[c])
    BY <1>1, <1>3 DEF Return, TypeInv, CallType, IsMatch
<1>4. CASE AccountsNext
    <2>1. CASE \E c \in UserCallId, r \in Request : r.op \in {"limit", "market"} /\ BeginOrder(c, r)
        <3> PICK c \in UserCallId, r \in Request : r.op \in {"limit", "market"} /\ BeginOrder(c, r)
            BY <2>1
        <3> DEFINE k == [op |-> r.op, user |-> r.user, generation |-> marks[r.user].generation,
                         req |-> r, seen |-> IF r.op = "market" THEN limit_orders[r.id] ELSE None,
                         moves |-> MovesOf({r.user})]
        <3>1. k.op \in {"limit", "market"} /\ call' = [call EXCEPT ![c] = k]
            BY DEF BeginOrder
        <3> HIDE DEF k
        <3>2. \A x \in CallId : call'[x] = call[x] \/ ~IsMatch(call'[x])
            BY <1>1, <3>1 DEF TypeInv, CallType, IsMatch
        <3> QED BY <1>2, <3>2 DEF BeginOrder
    <2>2. CASE \E c \in UserCallId, r \in Request : BeginMatched(c, r)
        BY <1>1, <2>2, BeginMatchedRests
    <2>3. CASE ~\E c \in UserCallId, r \in Request :
                   BeginMatched(c, r) \/ (r.op \in {"limit", "market"} /\ BeginOrder(c, r))
        <3>1. UNCHANGED <<reassignment_plans, marks>> /\ (UNCHANGED call \/ \E c : Return(c))
            BY <1>4, <2>3 DEF AccountsNext, Respond, BeginDeposit, BeginWithdrawal, FinishMatched,
               FreezePosition, BeginSettlement, CancelOrder, DepositSettled, WithdrawalAnswered,
               FinishOrder, RefuseOrder, ApplySettlement
        <3> QED BY <1>2, <1>3, <3>1
    <2> QED BY <2>1, <2>2, <2>3
<1>5. CASE ReassignmentNext
    <2>1. CASE \E c \in AdminCallId, m \in Move : BeginReassign(c, m)
        BY <1>1, <2>1, BeginReassignRests DEF CallId
    <2>2. CASE \E c \in AdminCallId, m \in Move : ResumeReassign(c, m)
        <3> PICK c \in CallId, m \in Move : ResumeReassign(c, m)
            BY <2>2 DEF CallId
        <3>1. IsPlan(reassignment_plans[PlanKey(m)])
            BY <1>1 DEF ResumeReassign, TypeInv, PlansType
        <3> QED BY <1>1, <3>1, ContinueRests DEF ResumeReassign
    <2>3. CASE \E c \in AdminCallId : SweepStep(c)
        BY <2>3, SweepStepRests DEF CallId
    <2>4. CASE \/ \E c \in AdminCallId : SweepFailed(c) \/ SweepTimesOut(c)
               \/ \E t \in late : LateTransfer(t)
        <3>1. UNCHANGED <<reassignment_plans, marks>> /\ (UNCHANGED call \/ \E c : Return(c))
            BY <2>4 DEF SweepFailed, SweepTimesOut, LateTransfer
        <3> QED BY <1>2, <1>3, <3>1
    <2>5. CASE Upgrade
        BY <2>5 DEF Upgrade, MatchesRested, IsMatch
    <2> QED BY <1>5, <2>1, <2>2, <2>3, <2>4, <2>5 DEF ReassignmentNext
<1>6. CASE MigrationNext \/ UNCHANGED vars
    <2>1. UNCHANGED <<reassignment_plans, marks, call>>
        BY <1>6 DEF MigrationNext, MigrateDomain, RefuseMigration, vars
    <2> QED BY <1>2, <1>3, <2>1
<1> QED BY <1>4, <1>5, <1>6 DEF Next

LEMMA RestedInit == Init => MatchesRested
BY DEF Init, MatchesRested, IsMatch

LEMMA BookOnlyWhenSeen ==
    ASSUME BooksInv, MatchesRested, [Next]_vars, NEW c \in CallId, call[c] # None,
           call[c].op # "sweep", call'[c] = None, book' # book
    PROVE  MovesOf(UsersOf(call[c].req)) = call[c].moves
<1>1. CASE FinishOrder(c)
    <2>1. IsOrder(call[c])
        BY <1>1 DEF FinishOrder, IsOrder
    <2>2. UsersOf(call[c].req) = {call[c].user}
        BY <2>1, OrderCallOf DEF UsersOf, IsOrder, BooksInv, TypeInv
    <2> QED BY <2>1, <2>2, OrderBooksSeen
<1>2. CASE FinishMatched(c)
    BY <1>2 DEF FinishMatched, IsMatch, MatchesRested
<1> QED BY <1>1, <1>2, BookedBy DEF BooksInv

(* A method that was suspended while an account was taken away from one of
   its principals, or while one was brought, books nothing: orders by their
   guard, matched trades because controllers match none across a
   reassignment.  (ReassignmentGuard, internal_execute_trade) *)
THEOREM BooksOnSameAccountHolds ==
    ASSUME "rested_matches" \in Discipline PROVE Spec => BooksOnSameAccount
<1>1. BooksInv /\ MatchesRested /\ [Next]_vars =>
        [\A c \in CallId :
            call[c] # None /\ call[c].op # "sweep" /\ call'[c] = None /\ book' # book =>
                MovesOf(UsersOf(call[c].req)) = call[c].moves]_vars
    BY BookOnlyWhenSeen
<1>2. Init => BooksInv /\ MatchesRested
    BY BooksInit, RestedInit
<1>3. BooksInv /\ MatchesRested /\ [Next]_vars => (BooksInv /\ MatchesRested)'
    BY BooksStep, RestedStep
<1> QED BY <1>1, <1>2, <1>3, PTL DEF Spec, BooksOnSameAccount

-----------------------------------------------------------------------------
(* The lock of a handover. *)

LEMMA LockInit == Init => LockInv
<1> SUFFICES ASSUME Init PROVE LockInv
    OBVIOUS
<1>1. BooksInv
    BY BooksInit
<1>2. SweepsStored /\ OneSweepPerPlan
    BY DEF Init, SweepsStored, OneSweepPerPlan, IsSweep
<1>3. PartiesApart /\ NothingLeft /\ LockedWhilePending /\ LockedRests
    BY DEF Init, EmptyMap, PartiesApart, NothingLeft, LockedWhilePending, LockedRests, PendingKeys
<1> QED BY <1>1, <1>2, <1>3 DEF LockInv

(* A step that gives no account and no position to who has handed its own
   over, and no plan and no order to who is locked. *)
Untouched ==
    /\ \A k \in PendingKeys :
          /\ k[1] \notin DOMAIN account_states'
          /\ \A x \in DOMAIN positions' : x[1] # k[1]
    /\ \A p \in Principal : marks[p].locked =>
          /\ \A k \in DOMAIN custody_plans' : k[1] = p => custody_plans'[k].status = "Finalised"
          /\ \A id \in DOMAIN limit_orders' : limit_orders'[id].creator # p

LEMMA UntouchedRests ==
    ASSUME LockInv, Untouched, UNCHANGED <<reassignment_plans, marks>>
    PROVE  PartiesApart' /\ NothingLeft' /\ LockedWhilePending' /\ LockedRests'
<1>1. PendingKeys' = PendingKeys
    BY DEF PendingKeys
<1>2. PartiesApart' /\ LockedWhilePending'
    BY <1>1 DEF LockInv, PartiesApart, Parties, LockedWhilePending
<1>3. NothingLeft'
    BY <1>1 DEF NothingLeft, Untouched
<1>4. LockedRests'
    BY DEF LockedRests, Untouched, OpenPlans, PendingKeys
<1> QED BY <1>2, <1>3, <1>4

(* A step that stores no plan and unlocks nobody, and leaves the calls of
   reassignments with theirs. *)
LEMMA QuietLock ==
    ASSUME LockInv, BooksInv', Untouched, UNCHANGED <<reassignment_plans, marks>>,
           \A c \in CallId : \/ ~IsSweep(call'[c])
                             \/ /\ IsSweep(call[c]) /\ call'[c].move = call[c].move
                                /\ call'[c].plan = call[c].plan
    PROVE  LockInv'
<1>1. SweepsStored'
    BY DEF LockInv, SweepsStored
<1>2. OneSweepPerPlan'
    BY DEF LockInv, OneSweepPerPlan
<1> QED BY <1>1, <1>2, UntouchedRests DEF LockInv

(* What the lock says of a principal. *)
LEMMA LockedParties ==
    ASSUME LockInv, NEW k \in PendingKeys
    PROVE  /\ k[1] \in Principal /\ reassignment_plans[k].new_owner \in Principal
           /\ marks[k[1]].locked /\ marks[reassignment_plans[k].new_owner].locked
<1>1. k[1] \in Principal /\ reassignment_plans[k].new_owner \in Principal
    BY PlanParts DEF LockInv, BooksInv, TypeInv, PlansType, PendingKeys
<1> QED BY <1>1 DEF LockInv, LockedWhilePending, PendingKeys

LEMMA RestingNow ==
    ASSUME LockInv
    PROVE  /\ \A k \in PendingKeys :
                 /\ k[1] \notin DOMAIN account_states
                 /\ \A x \in DOMAIN positions : x[1] # k[1]
           /\ \A p \in Principal : marks[p].locked =>
                 /\ \A k \in DOMAIN custody_plans : k[1] = p => custody_plans[k].status = "Finalised"
                 /\ \A id \in DOMAIN limit_orders : limit_orders[id].creator # p
BY DEF LockInv, NothingLeft, LockedRests, OpenPlans

(* A change of the accounts of principals that are there, or not locked. *)
LEMMA GuardedPut ==
    ASSUME LockInv, NEW map, NEW p \in Principal, ~marks[p].locked, NEW state, NEW k \in PendingKeys,
           k[1] \notin DOMAIN map
    PROVE  k[1] \notin DOMAIN Put(map, p, state)
BY LockedParties DEF Put

LEMMA BeginDepositLock ==
    ASSUME LockInv, NEW r \in Request, r.op = "deposit", BeginDeposit(r) PROVE Untouched
<1>1. ~marks[r.user].locked /\ r.user \in Principal
    BY RequestKinds DEF BeginDeposit, Acquired
<1> QED BY <1>1, RestingNow DEF BeginDeposit, Untouched, Put, book

LEMMA BeginWithdrawalLock ==
    ASSUME LockInv, NEW r \in Request, r.op = "withdraw", BeginWithdrawal(r) PROVE Untouched
<1>1. ~marks[r.user].locked /\ r.user \in Principal
    BY RequestKinds DEF BeginWithdrawal, Acquired
<1>2. DOMAIN account_states' = DOMAIN account_states
    BY DEF BeginWithdrawal
<1> QED BY <1>1, <1>2, RestingNow DEF BeginWithdrawal, Untouched, Put

(* Who has a plan under way is not locked. *)
LEMMA PlanUnlocked ==
    ASSUME LockInv, NEW p \in Principal, NEW id, <<p, id>> \in DOMAIN custody_plans,
           custody_plans[<<p, id>>].status # "Finalised"
    PROVE  ~marks[p].locked
BY RestingNow

LEMMA DepositSettledLock ==
    ASSUME LockInv, NEW p \in Principal, NEW id, DepositSettled(p, id) PROVE Untouched
<1>1. ~marks[p].locked
    BY PlanUnlocked DEF DepositSettled
<1>2. \A k \in DOMAIN custody_plans' :
          /\ k \in DOMAIN custody_plans
          /\ custody_plans[k].status = "Finalised" => custody_plans'[k].status = "Finalised"
    BY DEF DepositSettled, Finalise, LockInv, BooksInv, TypeInv, PlansType, CustodyPlan
<1> QED BY <1>1, <1>2, RestingNow, GuardedPut DEF DepositSettled, Untouched

LEMMA WithdrawalAnsweredLock ==
    ASSUME LockInv, NEW p \in Principal, NEW id, WithdrawalAnswered(p, id) PROVE Untouched
<1>1. ~marks[p].locked
    BY PlanUnlocked DEF WithdrawalAnswered
<1>2. \A k \in DOMAIN custody_plans' :
          /\ k \in DOMAIN custody_plans
          /\ custody_plans[k].status = "Finalised" => custody_plans'[k].status = "Finalised"
    BY DEF WithdrawalAnswered, Finalise, LockInv, BooksInv, TypeInv, PlansType, CustodyPlan
<1>3. \A k \in PendingKeys : k[1] \notin DOMAIN account_states'
    BY <1>1, RestingNow, GuardedPut DEF WithdrawalAnswered
<1> QED BY <1>1, <1>2, <1>3, RestingNow DEF WithdrawalAnswered, Untouched

-----------------------------------------------------------------------------
LEMMA FinishMatchedLock ==
    ASSUME LockInv, MatchesRested, NEW c \in CallId, FinishMatched(c) PROVE Untouched
<1> DEFINE r == call[c].req
<1>1. /\ r.buyer \in Principal /\ ~marks[r.buyer].locked
      /\ r.seller \in Principal /\ ~marks[r.seller].locked
    <2>1. IsMatch(call[c]) /\ r \in Request /\ r.op = "matched"
        BY MatchedCallOf DEF FinishMatched, IsMatch, LockInv, BooksInv, TypeInv
    <2>2. \A p \in UsersOf(r) : ~marks[p].locked
        BY <2>1 DEF MatchesRested
    <2> QED BY <2>1, <2>2, RequestKinds DEF UsersOf
<1>2. \A k \in PendingKeys : k[1] # r.buyer /\ k[1] # r.seller
    BY <1>1, LockedParties
<1>3. /\ DOMAIN account_states' = DOMAIN account_states \cup {r.buyer, r.seller}
      /\ DOMAIN positions' = DOMAIN positions \cup {<<r.buyer, r.series>>, <<r.seller, r.series>>}
    BY DEF FinishMatched, Trade, Put
<1> QED BY <1>2, <1>3, RestingNow DEF FinishMatched, Untouched

LEMMA FinishOrderLock ==
    ASSUME LockInv, NEW c \in CallId, FinishOrder(c) PROVE Untouched
<1> DEFINE p == call[c].user
           r == call[c].req
<1>1. p \in Principal /\ ~marks[p].locked /\ r \in Request /\ r.op = call[c].op
    BY OrderCallOf DEF FinishOrder, Revalidated, LockInv, BooksInv, TypeInv
<1>2. \A k \in PendingKeys : k[1] # p
    BY <1>1, LockedParties
<1> HIDE DEF p, r
<1>3. CASE PlaceOrder(p, r) /\ r.op = "limit"
    <2>1. DOMAIN account_states' = DOMAIN account_states \cup {p} /\ UNCHANGED positions
        BY <1>3 DEF PlaceOrder, Put
    <2>2. \A id \in DOMAIN limit_orders' :
              \/ limit_orders'[id].creator = p
              \/ id \in DOMAIN limit_orders /\ limit_orders'[id] = limit_orders[id]
        BY <1>3 DEF PlaceOrder, Put
    <2> QED BY <1>1, <1>2, <2>1, <2>2, RestingNow DEF FinishOrder, Untouched
<1>4. CASE FillOrder(p, r, call[c].seen)
    <2> DEFINE order == limit_orders[r.id]
    <2>1. order \in Order /\ r.id \in DOMAIN limit_orders
        BY <1>4 DEF FillOrder, LockInv, BooksInv, TypeInv, OrdersType
    <2>2. order.creator \in Principal /\ ~marks[order.creator].locked
        BY <2>1, RestingNow DEF Order
    <2>3. \A k \in PendingKeys : k[1] # order.creator
        BY <2>2, LockedParties
    <2> DEFINE released == [q \in Principal |-> IF q = order.creator THEN order.blocked ELSE 0]
    <2>4. PICK b \in {p, order.creator}, v \in {p, order.creator} :
              Trade(b, v, order.series, OrderPrice, released)
        BY <1>4 DEF FillOrder
    <2> HIDE DEF order, released
    <2>5. /\ DOMAIN account_states' = DOMAIN account_states \cup {b, v}
          /\ DOMAIN positions' = DOMAIN positions \cup {<<b, order.series>>, <<v, order.series>>}
        BY <2>4 DEF Trade, Put
    <2>6. /\ DOMAIN limit_orders' \subseteq DOMAIN limit_orders
          /\ \A id \in DOMAIN limit_orders' : limit_orders'[id] = limit_orders[id]
        BY <1>4, WithoutSome DEF FillOrder
    <2> QED BY <1>2, <2>3, <2>4, <2>5, <2>6, RestingNow DEF FinishOrder, Untouched
<1> QED BY <1>1, <1>3, <1>4 DEF FinishOrder, p, r

LEMMA CancelOrderLock ==
    ASSUME LockInv, NEW id, CancelOrder(id) PROVE Untouched
<1>1. DOMAIN account_states' = DOMAIN account_states
    BY DEF CancelOrder
<1>2. /\ DOMAIN limit_orders' \subseteq DOMAIN limit_orders
      /\ \A i \in DOMAIN limit_orders' : limit_orders'[i] = limit_orders[i]
    BY WithoutSome DEF CancelOrder
<1> QED BY <1>1, <1>2, RestingNow DEF CancelOrder, Untouched

LEMMA FreezePositionLock ==
    ASSUME LockInv, NEW r, FreezePosition(r) PROVE Untouched
<1>1. DOMAIN positions' \subseteq DOMAIN positions
    BY WithoutSome DEF FreezePosition
<1> QED BY <1>1, RestingNow DEF FreezePosition, Untouched

LEMMA BeginSettlementLock ==
    ASSUME LockInv, NEW r, BeginSettlement(r) PROVE Untouched
<1>1. DOMAIN account_states' = DOMAIN account_states
    BY DEF BeginSettlement, Applied
<1>2. DOMAIN positions' \subseteq DOMAIN positions
    BY WithoutSome DEF BeginSettlement
<1>3. /\ DOMAIN limit_orders' \subseteq DOMAIN limit_orders
      /\ \A i \in DOMAIN limit_orders' : limit_orders'[i] = limit_orders[i]
    BY DEF BeginSettlement, Restrict
<1> QED BY <1>1, <1>2, <1>3, RestingNow DEF BeginSettlement, Untouched

LEMMA ApplySettlementLock ==
    ASSUME LockInv, NEW s, ApplySettlement(s) PROVE Untouched
<1>1. DOMAIN account_states' = DOMAIN account_states
    BY DEF ApplySettlement, Applied
<1> QED BY <1>1, RestingNow DEF ApplySettlement, Untouched

LEMMA MigrationLock ==
    ASSUME LockInv, MigrationNext PROVE Untouched
<1>1. DOMAIN account_states' = DOMAIN account_states
    BY DEF MigrationNext, MigrateDomain, RefuseMigration, book
<1>2. /\ DOMAIN limit_orders' = DOMAIN limit_orders
      /\ \A i \in DOMAIN limit_orders : limit_orders'[i].creator = limit_orders[i].creator
    BY DEF MigrationNext, MigrateDomain, RefuseMigration, book, Retagged,
       LockInv, BooksInv, TypeInv, OrdersType, Order
<1>3. UNCHANGED <<positions, custody_plans>>
    BY DEF MigrationNext, MigrateDomain, RefuseMigration, book
<1> QED BY <1>1, <1>2, <1>3, RestingNow DEF Untouched

-----------------------------------------------------------------------------
(* Calls of reassignments, one of a plan at a time. *)

LEMMA UnlockedMarks ==
    ASSUME NEW m, NEW marked \in [Principal -> Mark], NEW p \in Principal
    PROVE  /\ p \in {m.old, m.new} => ~Unlock(m, marked)[p].locked
           /\ p \notin {m.old, m.new} => Unlock(m, marked)[p] = marked[p]
BY DEF Unlock, Mark

(* LockedWhilePending, by key. *)
LEMMA LockedByKey ==
    LockedWhilePending <=>
        \A p \in Principal : marks[p].locked <=> \E k \in PendingKeys : p \in Parties(k)
BY DEF LockedWhilePending, PendingKeys, Parties

LEMMA ContinueKeepsLock ==
    ASSUME LockInv, BooksInv', NEW c \in CallId, NEW m \in Move, NEW plan, IsPlan(plan), Pending(plan),
           PlanKey(m) \in PendingKeys, reassignment_plans[PlanKey(m)].new_owner = m.new,
           plan.new_owner = m.new,
           \A x \in CallId : IsSweep(call[x]) /\ PlanKey(call[x].move) = PlanKey(m) => x = c,
           Continue(c, m, plan, marks), UNCHANGED <<book, custody_plans>>
    PROVE  LockInv'
<1> PICK stored : Stores(c, m, plan, marks, stored)
    BY ContinueStores
<1> PICK key : key = PlanKey(m)
    OBVIOUS
<1>1. /\ key \in PendingKeys /\ key[1] = m.old /\ Parties(key) = {m.old, m.new}
      /\ DOMAIN reassignment_plans' = DOMAIN reassignment_plans
      /\ reassignment_plans'[key] = stored /\ stored.new_owner = m.new
      /\ \A k \in DOMAIN reassignment_plans : k # key => reassignment_plans'[k] = reassignment_plans[k]
    BY MoveKinds DEF Stores, Put, PendingKeys, Parties
<1>2. \A k \in DOMAIN reassignment_plans : Parties(k)' = Parties(k)
    BY <1>1 DEF Parties
<1>3. \A x \in CallId : \/ call'[x] = call[x] /\ x # c
                        \/ x = c /\ ~IsSweep(call'[x])
                        \/ /\ x = c /\ call'[x].move = m /\ call'[x].plan = plan /\ stored = plan
    BY DEF Stores, Sweep, IsSweep, LockInv, BooksInv, TypeInv, CallType
<1>4. SweepsStored'
    <2> SUFFICES ASSUME NEW x \in CallId, NEW k \in {call'[x]}, IsSweep(k)
                 PROVE  reassignment_plans'[PlanKey(k.move)] = k.plan /\ Pending(k.plan)
        BY DEF SweepsStored
    <2>1. CASE call'[x] = call[x] /\ x # c
        <3>1. PlanKey(k.move) # key
            BY <2>1
        <3>2. /\ PlanKey(k.move) \in DOMAIN reassignment_plans
              /\ reassignment_plans[PlanKey(k.move)] = k.plan /\ Pending(k.plan)
            BY <2>1 DEF LockInv, BooksInv, SweepsNamed, SweepsStored
        <3> QED BY <1>1, <3>1, <3>2
    <2>2. CASE k.move = m /\ k.plan = plan /\ stored = plan
        BY <1>1, <2>2
    <2> QED BY <1>3, <2>1, <2>2
<1>5. OneSweepPerPlan'
    <2> SUFFICES ASSUME NEW x \in CallId, NEW y \in CallId, IsSweep(call'[x]), IsSweep(call'[y]),
                        PlanKey(call'[x].move) = PlanKey(call'[y].move), x # y
                 PROVE  FALSE
        BY DEF OneSweepPerPlan
    <2>1. CASE x # c /\ y # c
        BY <1>3, <2>1 DEF LockInv, OneSweepPerPlan
    <2>2. CASE x = c
        BY <1>3, <2>2
    <2>3. CASE y = c
        BY <1>3, <2>3
    <2> QED BY <2>1, <2>2, <2>3
<1>6. /\ PendingKeys' = IF Pending(stored) THEN PendingKeys ELSE PendingKeys \ {key}
    BY <1>1 DEF PendingKeys
<1>7. PartiesApart' /\ NothingLeft'
    <2>1. PendingKeys' \subseteq PendingKeys /\ PendingKeys \subseteq DOMAIN reassignment_plans
        BY <1>6 DEF PendingKeys
    <2>2. \A k \in DOMAIN reassignment_plans :
              reassignment_plans'[k].new_owner = reassignment_plans[k].new_owner
        BY <1>1
    <2>3. PartiesApart'
        BY <1>2, <2>1, <2>2 DEF LockInv, PartiesApart
    <2>4. NothingLeft'
        BY <2>1 DEF LockInv, NothingLeft, book
    <2> QED BY <2>3, <2>4
<1>8. ASSUME NEW p \in Principal
      PROVE  marks'[p].locked <=> \E k \in PendingKeys' : p \in Parties(k)'
    <2>1. marks[p].locked <=> \E k \in PendingKeys : p \in Parties(k)
        BY LockedByKey DEF LockInv
    <2>2. \A k \in PendingKeys' : Parties(k)' = Parties(k)
        BY <1>2, <1>6 DEF PendingKeys
    <2>3. CASE Pending(stored)
        <3>1. marks' = marks
            BY <2>3 DEF Stores
        <3> QED BY <1>6, <2>1, <2>2, <2>3, <3>1
    <2>4. CASE ~Pending(stored)
        <3>1. marks' = Unlock(m, marks)
            BY <2>4 DEF Stores
        <3>2. marks'[p].locked <=> p \notin Parties(key) /\ marks[p].locked
            <4>1. marks \in [Principal -> Mark]
                BY DEF LockInv, BooksInv, TypeInv, PlansType
            <4> QED BY <1>1, <3>1, <4>1, UnlockedMarks
        <3>3. \A k \in PendingKeys : k # key /\ p \in Parties(k) => p \notin Parties(key)
            BY <1>1 DEF LockInv, PartiesApart
        <3> QED BY <1>6, <2>1, <2>2, <2>4, <3>2, <3>3
    <2> QED BY <2>3, <2>4
<1>9. LockedWhilePending'
    BY <1>8 DEF LockedWhilePending, PendingKeys, Parties
<1>10. LockedRests'
    <2>1. \A p \in Principal : marks'[p].locked => marks[p].locked
        <3> SUFFICES ASSUME NEW p \in Principal, marks'[p].locked PROVE marks[p].locked
            OBVIOUS
        <3>1. CASE marks' = marks
            BY <3>1
        <3>2. CASE marks' = Unlock(m, marks)
            <4>1. marks \in [Principal -> Mark]
                BY DEF LockInv, BooksInv, TypeInv, PlansType
            <4> QED BY <3>2, <4>1, UnlockedMarks
        <3> QED BY <3>1, <3>2 DEF Stores
    <2>2. PendingKeys' \subseteq PendingKeys
        BY <1>6
    <2> QED BY <2>1, <2>2, RestingNow DEF LockedRests, OpenPlans, PendingKeys, book
<1> QED BY <1>4, <1>5, <1>7, <1>9, <1>10 DEF LockInv

LEMMA ResumeLock ==
    ASSUME LockInv, BooksInv', "serial" \in Discipline, NEW c \in CallId, NEW m \in Move,
           ResumeReassign(c, m)
    PROVE  LockInv'
<1> PICK plan : plan = reassignment_plans[PlanKey(m)]
    OBVIOUS
<1>1. /\ PlanKey(m) \in DOMAIN reassignment_plans /\ plan.new_owner = m.new /\ Pending(plan)
      /\ Continue(c, m, plan, marks) /\ UNCHANGED <<book, custody_plans>>
    BY DEF ResumeReassign
<1>2. IsPlan(plan) /\ PlanKey(m) \in PendingKeys
    BY <1>1 DEF LockInv, BooksInv, TypeInv, PlansType, PendingKeys
<1>3. \A x \in CallId : IsSweep(call[x]) /\ PlanKey(call[x].move) = PlanKey(m) => x = c
    BY DEF ResumeReassign, MayCall, IsSweep
<1> QED BY <1>1, <1>2, <1>3, ContinueKeepsLock

(* What the lock's invariant says of the call of a sweep. *)
LEMMA SweepLocked ==
    ASSUME LockInv, NEW c \in CallId, IsSweep(call[c])
    PROVE  /\ call[c].move \in Move /\ IsPlan(call[c].plan) /\ Pending(call[c].plan)
           /\ PlanKey(call[c].move) \in PendingKeys
           /\ reassignment_plans[PlanKey(call[c].move)] = call[c].plan
           /\ call[c].plan.new_owner = call[c].move.new
           /\ \A x \in CallId :
                 IsSweep(call[x]) /\ PlanKey(call[x].move) = PlanKey(call[c].move) => x = c
<1>1. call[c].move \in Move /\ IsPlan(call[c].plan)
    BY SweepCallOf DEF LockInv, BooksInv, TypeInv
<1>2. /\ PlanKey(call[c].move) \in DOMAIN reassignment_plans
      /\ call[c].plan.new_owner = call[c].move.new
    BY DEF LockInv, BooksInv, SweepsNamed
<1>3. reassignment_plans[PlanKey(call[c].move)] = call[c].plan /\ Pending(call[c].plan)
    BY DEF LockInv, SweepsStored
<1> QED BY <1>1, <1>2, <1>3 DEF LockInv, OneSweepPerPlan, PendingKeys

LEMMA SweptLock ==
    ASSUME LockInv, BooksInv', NEW c \in CallId, IsSweep(call[c]), NEW amount \in Nat,
           Continue(c, call[c].move, [call[c].plan EXCEPT !.sweeps[call[c].asset] = amount], marks),
           UNCHANGED <<book, custody_plans>>
    PROVE  LockInv'
<1> PICK k : k = call[c]
    OBVIOUS
<1> DEFINE plan == [k.plan EXCEPT !.sweeps[k.asset] = amount]
<1>1. /\ k.move \in Move /\ IsPlan(k.plan) /\ Pending(k.plan)
      /\ PlanKey(k.move) \in PendingKeys
      /\ reassignment_plans[PlanKey(k.move)].new_owner = k.move.new
      /\ k.plan.new_owner = k.move.new
      /\ \A x \in CallId : IsSweep(call[x]) /\ PlanKey(call[x].move) = PlanKey(k.move) => x = c
    BY SweepLocked
<1>2. IsPlan(plan) /\ plan.status = k.plan.status /\ plan.new_owner = k.plan.new_owner
    <2>1. IsPlan(k.plan)
        BY <1>1
    <2> QED BY ONLY <2>1, amount \in Nat, SweptPlan
<1>3. Continue(c, k.move, plan, marks)
    OBVIOUS
<1> HIDE DEF plan
<1> QED BY <1>1, <1>2, <1>3, ContinueKeepsLock DEF Pending

(* A sweep that awaits its transfer, or its answer, works on the same plan. *)
LEMMA SweepStepLock ==
    ASSUME LockInv, BooksInv', NEW c \in CallId, SweepStep(c) PROVE LockInv'
<1>1. IsSweep(call[c])
    BY AtStageSweeps DEF SweepStep, BalanceRead, Transferred, SweepMoved
<1>2. PICK k : k = call[c]
    OBVIOUS
<1>3. CASE \E amount \in Nat : Continue(c, k.move, [k.plan EXCEPT !.sweeps[k.asset] = amount], marks)
    <2>1. UNCHANGED <<book, custody_plans>> \/ Transferred(c)
        BY DEF SweepStep, BalanceRead, SweepMoved
    <2>2. UNCHANGED <<book, custody_plans>>
        BY <2>1 DEF Transferred
    <2> QED BY <1>1, <1>2, <1>3, <2>2, SweptLock
<1>4. CASE /\ UNCHANGED <<book, custody_plans, reassignment_plans, marks>>
           /\ \E stage, amount :
                 call' = [call EXCEPT ![c] = [k EXCEPT !.stage = stage, !.amount = amount]]
    <2>1. Untouched
        BY <1>4, RestingNow DEF Untouched, book
    <2>2. PICK stage, amount :
              call' = [call EXCEPT ![c] = [k EXCEPT !.stage = stage, !.amount = amount]]
        BY <1>4
    <2>3. PICK S \in SUBSET Asset : k \in SweepOver(S)
        BY <1>1, <1>2, SweepCallOf DEF LockInv, BooksInv, TypeInv
    <2>4. /\ [k EXCEPT !.stage = stage, !.amount = amount].move = k.move
          /\ [k EXCEPT !.stage = stage, !.amount = amount].plan = k.plan
        BY <2>3 DEF SweepOver
    <2>5. \A x \in CallId : \/ call'[x] = call[x]
                            \/ x = c /\ call'[x].move = k.move /\ call'[x].plan = k.plan
        BY <2>2, <2>4 DEF LockInv, BooksInv, TypeInv, CallType
    <2> QED BY <1>1, <1>2, <1>4, <2>1, <2>5, QuietLock
<1>5. CASE BalanceRead(c)
    BY <1>2, <1>3, <1>4, <1>5 DEF BalanceRead
<1>6. CASE Transferred(c)
    <2>1. PICK S \in SUBSET Asset : k \in SweepOver(S)
        BY <1>1, <1>2, SweepCallOf DEF LockInv, BooksInv, TypeInv
    <2>2. [k EXCEPT !.stage = "ok"] = [k EXCEPT !.stage = "ok", !.amount = k.amount]
        BY <2>1 DEF SweepOver
    <2> QED BY <1>2, <1>4, <1>6, <2>2 DEF Transferred
<1>7. CASE SweepMoved(c)
    <2>1. k.amount \in Nat
        BY <1>1, <1>2, SweepCallOf DEF LockInv, BooksInv, TypeInv
    <2> QED BY <1>2, <1>3, <1>7, <2>1 DEF SweepMoved
<1> QED BY <1>5, <1>6, <1>7 DEF SweepStep

LEMMA UpgradeLock == ASSUME LockInv, BooksInv', Upgrade PROVE LockInv'
<1>1. UNCHANGED <<book, custody_plans, reassignment_plans>> /\ marks' = RebuiltMarks
      /\ \A c \in CallId : call'[c] = None
    BY DEF Upgrade
<1>2. SweepsStored' /\ OneSweepPerPlan'
    BY <1>1 DEF SweepsStored, OneSweepPerPlan, IsSweep
<1>3. PendingKeys' = PendingKeys
    BY <1>1 DEF PendingKeys
<1>4. PartiesApart' /\ NothingLeft'
    BY <1>1, <1>3 DEF LockInv, PartiesApart, NothingLeft, Parties, book
<1>5. \A p \in Principal : marks'[p].locked <=> marks[p].locked
    BY <1>1 DEF RebuiltMarks, LockInv, LockedWhilePending
<1>6. LockedWhilePending' /\ LockedRests'
    BY <1>1, <1>5 DEF LockInv, LockedWhilePending, LockedRests, OpenPlans, book
<1> QED BY <1>2, <1>4, <1>6 DEF LockInv

LEMMA BeginReassignLock ==
    ASSUME LockInv, BooksInv', "serial" \in Discipline, NEW c \in CallId, NEW m \in Move,
           BeginReassign(c, m)
    PROVE  LockInv'
<1> PICK stored : Stores(c, m, NewPlan(m), Lock(m), stored)
    BY ContinueStores, NewPlanType DEF BeginReassign
<1> PICK key : key = PlanKey(m)
    OBVIOUS
<1>1. /\ key \notin DOMAIN reassignment_plans /\ key[1] = m.old
      /\ m.old \in Principal /\ m.new \in Principal /\ m.old # m.new
    BY MoveKinds DEF BeginReassign, MayReassign
<1>2. /\ DOMAIN reassignment_plans' = DOMAIN reassignment_plans \cup {key}
      /\ reassignment_plans'[key] = stored /\ stored.new_owner = m.new
      /\ \A k \in DOMAIN reassignment_plans : reassignment_plans'[k] = reassignment_plans[k]
    BY <1>1, NewPlanType DEF Stores, Put
<1>3. /\ \A k \in DOMAIN reassignment_plans : Parties(k)' = Parties(k)
      /\ Parties(key)' = {m.old, m.new}
    BY <1>1, <1>2 DEF Parties
<1>4. PendingKeys' = IF Pending(stored) THEN PendingKeys \cup {key} ELSE PendingKeys
    BY <1>1, <1>2 DEF PendingKeys
<1>5. ~marks[m.old].locked /\ ~marks[m.new].locked
    BY DEF BeginReassign, MayReassign
<1>6. \A k \in PendingKeys : m.old \notin Parties(k) /\ m.new \notin Parties(k)
    BY <1>1, <1>5, LockedParties DEF Parties
<1>7. \A x \in CallId : \/ call'[x] = call[x] /\ x # c
                        \/ x = c /\ ~IsSweep(call'[x])
                        \/ /\ x = c /\ call'[x].move = m /\ call'[x].plan = NewPlan(m)
                           /\ stored = NewPlan(m)
    BY DEF Stores, Sweep, IsSweep, LockInv, BooksInv, TypeInv, CallType
<1>8. SweepsStored'
    <2> SUFFICES ASSUME NEW x \in CallId, NEW k \in {call'[x]}, IsSweep(k)
                 PROVE  reassignment_plans'[PlanKey(k.move)] = k.plan /\ Pending(k.plan)
        BY DEF SweepsStored
    <2>1. CASE call'[x] = call[x] /\ x # c
        <3>1. /\ PlanKey(k.move) \in DOMAIN reassignment_plans
              /\ reassignment_plans[PlanKey(k.move)] = k.plan /\ Pending(k.plan)
            BY <2>1 DEF LockInv, BooksInv, SweepsNamed, SweepsStored
        <3> QED BY <1>2, <3>1
    <2>2. CASE k.move = m /\ k.plan = NewPlan(m) /\ stored = NewPlan(m)
        BY <1>2, <2>2, NewPlanType
    <2> QED BY <1>7, <2>1, <2>2
<1>9. OneSweepPerPlan'
    <2> SUFFICES ASSUME NEW x \in CallId, NEW y \in CallId, IsSweep(call'[x]), IsSweep(call'[y]),
                        PlanKey(call'[x].move) = PlanKey(call'[y].move), x # y
                 PROVE  FALSE
        BY DEF OneSweepPerPlan
    <2>1. \A z \in CallId : IsSweep(call[z]) => PlanKey(call[z].move) # key
        BY <1>1 DEF LockInv, BooksInv, SweepsNamed
    <2>2. CASE x # c /\ y # c
        BY <1>7, <2>2 DEF LockInv, OneSweepPerPlan
    <2>3. CASE x = c
        BY <1>7, <2>1, <2>3
    <2>4. CASE y = c
        BY <1>7, <2>1, <2>4
    <2> QED BY <2>2, <2>3, <2>4
<1>10. PartiesApart'
    <2>1. PendingKeys \subseteq DOMAIN reassignment_plans
        BY DEF PendingKeys
    <2>2. \A k \in PendingKeys' : k[1] # reassignment_plans'[k].new_owner
        BY <1>1, <1>2, <1>4, <2>1 DEF LockInv, PartiesApart
    <2>3. ASSUME NEW k \in PendingKeys', NEW l \in PendingKeys', k # l
          PROVE  Parties(k)' \cap Parties(l)' = {}
        <3>1. CASE k \in PendingKeys /\ l \in PendingKeys
            BY <1>3, <2>1, <2>3, <3>1 DEF LockInv, PartiesApart
        <3>2. CASE k = key /\ l \in PendingKeys
            BY <1>3, <1>6, <2>1, <3>2
        <3>3. CASE l = key /\ k \in PendingKeys
            BY <1>3, <1>6, <2>1, <3>3
        <3> QED BY <1>4, <2>3, <3>1, <3>2, <3>3
    <2> QED BY <2>2, <2>3 DEF PartiesApart
<1>11. NothingLeft'
    <2> SUFFICES ASSUME NEW k \in PendingKeys'
                 PROVE  /\ k[1] \notin DOMAIN account_states'
                        /\ \A x \in DOMAIN positions' : x[1] # k[1]
        BY DEF NothingLeft
    <2>1. DOMAIN account_states' = (DOMAIN account_states \ {m.old}) \cup {m.new}
        BY WithoutMap DEF BeginReassign, Rekey, Put
    <2>2. DOMAIN positions' = {<<IF x[1] = m.old THEN m.new ELSE x[1], x[2]>> : x \in DOMAIN positions}
        BY DEF BeginReassign, Rekey
    <2>3. ASSUME NEW x \in DOMAIN positions'
          PROVE  \/ x[1] = m.new
                 \/ x[1] # m.old /\ \E y \in DOMAIN positions : x[1] = y[1]
        BY <2>2
    <2>4. CASE k = key
        BY <1>1, <2>1, <2>3, <2>4
    <2>5. CASE k \in PendingKeys
        <3>1. k[1] # m.new
            BY <1>6, <2>5 DEF Parties
        <3> QED BY <2>1, <2>3, <2>5, <3>1, RestingNow
    <2> QED BY <1>4, <2>4, <2>5
<1>12. \A p \in Principal :
          /\ p \notin {m.old, m.new} => marks'[p] = marks[p]
          /\ p \in {m.old, m.new} => (marks'[p].locked <=> Pending(stored))
    <2>1. Lock(m) \in [Principal -> Mark]
        BY LockType DEF LockInv, BooksInv, TypeInv
    <2>2. \A p \in Principal : /\ p \notin {m.old, m.new} => Lock(m)[p] = marks[p]
                               /\ p \in {m.old, m.new} => Lock(m)[p].locked
        BY DEF Lock
    <2>3. \A p \in Principal :
              /\ p \in {m.old, m.new} => ~Unlock(m, Lock(m))[p].locked
              /\ p \notin {m.old, m.new} => Unlock(m, Lock(m))[p] = Lock(m)[p]
        BY <2>1, UnlockedMarks
    <2> QED BY <2>2, <2>3, NewPlanType DEF Stores
<1>13. LockedWhilePending'
    <2>1. ASSUME NEW p \in Principal
          PROVE  marks'[p].locked <=> \E k \in PendingKeys' : p \in Parties(k)'
        <3>1. PendingKeys \subseteq DOMAIN reassignment_plans
            BY DEF PendingKeys
        <3>2. marks[p].locked <=> \E k \in PendingKeys : p \in Parties(k)
            BY LockedByKey DEF LockInv
        <3>3. CASE p \in {m.old, m.new}
            BY <1>3, <1>4, <1>6, <1>12, <3>1, <3>3
        <3>4. CASE p \notin {m.old, m.new}
            BY <1>3, <1>4, <1>12, <3>1, <3>2, <3>4
        <3> QED BY <3>3, <3>4
    <2> QED BY <2>1 DEF LockedWhilePending, PendingKeys, Parties
<1>14. LockedRests'
    <2> SUFFICES ASSUME NEW p \in Principal, marks'[p].locked
                 PROVE  /\ OpenPlans(p)' = {}
                        /\ \A id \in DOMAIN limit_orders' : limit_orders'[id].creator # p
                        /\ \A k \in DOMAIN reassignment_plans' :
                              k[1] = p /\ Pending(reassignment_plans'[k]) => p \notin DOMAIN account_states'
        BY DEF LockedRests
    <2>1. UNCHANGED <<custody_plans, limit_orders>>
        BY DEF BeginReassign
    <2>2. /\ \A k \in DOMAIN custody_plans : k[1] = p => custody_plans[k].status = "Finalised"
          /\ \A id \in DOMAIN limit_orders : limit_orders[id].creator # p
        <3>1. CASE p \in {m.old, m.new}
            BY <3>1 DEF BeginReassign, MayReassign, NoInFlightPlans, HasClearingState, Quiet
        <3>2. CASE p \notin {m.old, m.new}
            BY <1>12, <3>2, RestingNow
        <3> QED BY <3>1, <3>2
    <2> QED BY <1>11, <2>1, <2>2 DEF OpenPlans, NothingLeft, PendingKeys
<1> QED BY <1>8, <1>9, <1>10, <1>11, <1>13, <1>14 DEF LockInv

LEMMA LockStep ==
    ASSUME "serial" \in Discipline, LockInv, MatchesRested, [Next]_vars
    PROVE  LockInv'
<1>1. BooksInv'
    BY BooksStep DEF LockInv
<1>2. ASSUME Untouched, UNCHANGED <<reassignment_plans, marks>>,
             \A c \in CallId : call'[c] = call[c] \/ ~IsSweep(call'[c])
      PROVE  LockInv'
    BY <1>1, <1>2, QuietLock
<1>3. CASE UNCHANGED vars
    <2>1. Untouched
        BY <1>3, RestingNow DEF Untouched, vars, book
    <2> QED BY <1>2, <1>3, <2>1 DEF vars
<1>4. CASE AccountsNext
    <2>1. Untouched
        <3>1. CASE \E c \in UserCallId :
                        RefuseOrder(c) \/ \E r \in Request : BeginOrder(c, r) \/ BeginMatched(c, r)
            BY <3>1, RestingNow DEF RefuseOrder, BeginOrder, BeginMatched, Untouched, book
        <3> QED BY <1>4, <3>1, BeginDepositLock, BeginWithdrawalLock, FinishMatchedLock,
               FreezePositionLock, BeginSettlementLock, CancelOrderLock, DepositSettledLock,
               WithdrawalAnsweredLock, FinishOrderLock, ApplySettlementLock
               DEF AccountsNext, Respond, CallId
    <2>2. UNCHANGED <<reassignment_plans, marks>>
        BY ZenonT(30), <1>4 DEF AccountsNext, Respond, BeginDeposit, BeginWithdrawal, BeginMatched,
           FinishMatched, FreezePosition, BeginSettlement, BeginOrder, CancelOrder, DepositSettled, WithdrawalAnswered,
           FinishOrder, RefuseOrder, ApplySettlement
    <2>3. \A c \in CallId : call'[c] = call[c] \/ ~IsSweep(call'[c])
        <3>1. CASE \E c \in UserCallId, r \in Request : r.op \in {"limit", "market"} /\ BeginOrder(c, r)
            <4>1. PICK c \in CallId, r \in Request : r.op \in {"limit", "market"} /\ BeginOrder(c, r)
                BY <3>1 DEF CallId
            <4>2. \A x \in CallId : x # c => call'[x] = call[x]
                BY <4>1 DEF BeginOrder, LockInv, BooksInv, TypeInv, CallType
            <4>3. call'[c].op = r.op
                BY <4>1 DEF BeginOrder, LockInv, BooksInv, TypeInv, CallType
            <4> QED BY <4>1, <4>2, <4>3 DEF IsSweep
        <3>2. CASE \E c \in UserCallId, r \in Request : BeginMatched(c, r)
            <4>1. PICK c \in CallId, r \in Request : BeginMatched(c, r)
                BY <3>2 DEF CallId
            <4>2. \A x \in CallId : x # c => call'[x] = call[x]
                BY <4>1 DEF BeginMatched, LockInv, BooksInv, TypeInv, CallType
            <4>3. call'[c].op = "matched"
                BY <4>1 DEF BeginMatched, LockInv, BooksInv, TypeInv, CallType
            <4> QED BY <4>2, <4>3 DEF IsSweep
        <3>3. CASE UNCHANGED call \/ \E c : Return(c)
            BY <3>3 DEF Return, IsSweep, LockInv, BooksInv, TypeInv, CallType
        <3>4. \/ \E c \in UserCallId, r \in Request : r.op \in {"limit", "market"} /\ BeginOrder(c, r)
              \/ \E c \in UserCallId, r \in Request : BeginMatched(c, r)
              \/ UNCHANGED call \/ \E c : Return(c)
            BY <1>4 DEF AccountsNext, Respond, BeginDeposit, BeginWithdrawal, FinishMatched,
               FreezePosition, BeginSettlement, CancelOrder, DepositSettled, WithdrawalAnswered,
               FinishOrder, RefuseOrder, ApplySettlement
        <3> QED BY <3>1, <3>2, <3>3, <3>4
    <2> QED BY <1>2, <2>1, <2>2, <2>3
<1>5. CASE ReassignmentNext
    <2>1. CASE \E c \in AdminCallId, m \in Move : BeginReassign(c, m)
        BY <1>1, <2>1, BeginReassignLock DEF CallId
    <2>2. CASE \E c \in AdminCallId, m \in Move : ResumeReassign(c, m)
        BY <1>1, <2>2, ResumeLock DEF CallId
    <2>3. CASE \E c \in AdminCallId : SweepStep(c)
        BY <1>1, <2>3, SweepStepLock DEF CallId
    <2>4. CASE \/ \E c \in AdminCallId : SweepFailed(c) \/ SweepTimesOut(c)
               \/ \E t \in late : LateTransfer(t)
        <3>1. UNCHANGED <<book, custody_plans, reassignment_plans, marks>>
            BY <2>4 DEF SweepFailed, SweepTimesOut, LateTransfer
        <3>2. Untouched
            BY <3>1, RestingNow DEF Untouched, book
        <3>3. \A c \in CallId : call'[c] = call[c] \/ ~IsSweep(call'[c])
            BY <2>4 DEF SweepFailed, SweepTimesOut, LateTransfer, Return, IsSweep,
               LockInv, BooksInv, TypeInv, CallType
        <3> QED BY <1>2, <3>1, <3>2, <3>3
    <2>5. CASE Upgrade
        BY <1>1, <2>5, UpgradeLock
    <2> QED BY <1>5, <2>1, <2>2, <2>3, <2>4, <2>5 DEF ReassignmentNext
<1>6. CASE MigrationNext
    <2>1. UNCHANGED <<reassignment_plans, marks, call>>
        BY <1>6 DEF MigrationNext, MigrateDomain, RefuseMigration
    <2> QED BY <1>2, <1>6, <2>1, MigrationLock
<1> QED BY <1>3, <1>4, <1>5, <1>6 DEF Next

(* The two principals of a handover are locked exactly while it is pending,
   and rest: no plan of theirs is open, no order of theirs is on the book, and
   the one that gave its account away has none, until the last asset is
   drained, through failed sweeps, lost answers and upgrades, provided the
   controllers have one call of a reassignment in flight and match no trade of
   either principal meanwhile: a matched trade asks for no guard.
   (guard_reassign_accounts, rebuild_reassignment_marks,
   check_no_inflight_plans_for_reassignment) *)
THEOREM HandoverLockedHolds ==
    {"serial", "rested_matches"} \subseteq Discipline => (Spec => []HandoverLocked)
<1> SUFFICES ASSUME {"serial", "rested_matches"} \subseteq Discipline PROVE Spec => []HandoverLocked
    OBVIOUS
<1>1. Init => LockInv /\ MatchesRested
    BY LockInit, RestedInit
<1>2. LockInv /\ MatchesRested /\ [Next]_vars => (LockInv /\ MatchesRested)'
    BY LockStep, RestedStep DEF LockInv
<1>3. LockInv => HandoverLocked
    BY DEF LockInv, HandoverLocked
<1> QED BY <1>1, <1>2, <1>3, PTL DEF Spec

-----------------------------------------------------------------------------
(* What an account's margin is made of: its orders, its positions, the frozen
   ones, and what settlements have not accounted for yet. *)

KeysOf(map, p, d) == {k \in DOMAIN map : k[1] = p /\ SeriesDomain[k[2]] = d}
Margins(map) == [k \in DOMAIN map |-> map[k].margin]
MarginUse(map, p, d) == SumOver(Margins(map), KeysOf(map, p, d))
MarginAt(map, k, p, d) == IF k \in KeysOf(map, p, d) THEN map[k].margin ELSE 0

TaggedOrders(orders, p, d) ==
    {id \in DOMAIN orders : orders[id].creator = p /\ orders[id].domain = d}
Blocks(orders) == [id \in DOMAIN orders |-> orders[id].blocked]
OrderUse(orders, p, d) == SumOver(Blocks(orders), TaggedOrders(orders, p, d))
OrderAt(orders, id, p, d) == IF id \in TaggedOrders(orders, p, d) THEN orders[id].blocked ELSE 0

SettlingIn(plans, d) == {s \in DOMAIN plans : SeriesDomain[s] = d}
Lefts(plans, p) == [s \in DOMAIN plans |-> MarginFor(plans[s].left, p)]
PlanUse(plans, p, d) == SumOver(Lefts(plans, p), SettlingIn(plans, d))
PlanAt(plans, s, p, d) == IF s \in SettlingIn(plans, d) THEN MarginFor(plans[s].left, p) ELSE 0

UseOf(p, d) ==
    OrderUse(limit_orders, p, d) + MarginUse(positions, p, d)
      + MarginUse(frozen_transfers, p, d) + PlanUse(settlement_plans, p, d)

MarginsFit == \A p \in Principal, d \in Domain : StateOf(p).margin[d] = UseOf(p, d)

HasMargins(map) == IsFiniteSet(DOMAIN map) /\ \A k \in DOMAIN map : map[k].margin \in Nat
HasBlocks(orders) == IsFiniteSet(DOMAIN orders) /\ \A id \in DOMAIN orders : orders[id].blocked \in Nat
HasLefts(plans) ==
    /\ IsFiniteSet(DOMAIN plans)
    /\ \A s \in DOMAIN plans : IsFiniteSet(plans[s].left) /\ plans[s].left \subseteq Snapshot

FiniteBook ==
    /\ HasMargins(positions) /\ HasMargins(frozen_transfers) /\ HasLefts(settlement_plans)
    /\ DOMAIN settlement_plans \subseteq SeriesId

(* check_no_inflight_plans looks up the users of a plan. *)
LeftNamed ==
    \A s \in DOMAIN settlement_plans :
        \A w \in settlement_plans[s].left : w.user \in settlement_plans[s].users

IsLimit(k) == k # None /\ k.op = "limit"

(* An order that is about to be placed has an id of its own. *)
LimitIds ==
    /\ \A c \in CallId : \A k \in {call[c]} : IsLimit(k) => k.req.id \notin DOMAIN limit_orders
    /\ \A c, x \in CallId : IsLimit(call[c]) /\ IsLimit(call[x]) => c = x

BookFits == FiniteBook /\ LeftNamed /\ MarginsFit

DomainInv == TypeInv /\ LimitIds /\ BookFits

-----------------------------------------------------------------------------
(* The sums. *)

LEMMA MarginUseType ==
    ASSUME NEW map, HasMargins(map), NEW p, NEW d
    PROVE  /\ IsFiniteSet(KeysOf(map, p, d))
           /\ \A k \in KeysOf(map, p, d) : Margins(map)[k] \in Nat
           /\ MarginUse(map, p, d) \in Nat
           /\ \A k : MarginAt(map, k, p, d) \in Nat
           /\ \A k : Term(Margins(map), KeysOf(map, p, d), k) = MarginAt(map, k, p, d)
<1>1. IsFiniteSet(KeysOf(map, p, d))
    BY FS_Subset DEF HasMargins, KeysOf
<1>2. \A k \in KeysOf(map, p, d) : Margins(map)[k] = map[k].margin /\ map[k].margin \in Nat
    BY DEF HasMargins, KeysOf, Margins
<1>3. MarginUse(map, p, d) \in Nat
    BY <1>1, <1>2, SumNat DEF MarginUse
<1> QED BY <1>1, <1>2, <1>3 DEF MarginAt, Term

(* Of one principal's positions one changes. *)
LEMMA MarginMoves ==
    ASSUME NEW map, NEW new, HasMargins(map), HasMargins(new), NEW p, NEW d, NEW k,
           \A x : x # k /\ x[1] = p =>
                     /\ x \in DOMAIN new <=> x \in DOMAIN map
                     /\ x \in DOMAIN map => new[x].margin = map[x].margin
    PROVE  MarginUse(new, p, d)
             = MarginUse(map, p, d) + (MarginAt(new, k, p, d) - MarginAt(map, k, p, d))
<1> DEFINE f == Margins(map)
           h == Margins(new)
           R == KeysOf(map, p, d)
           T == KeysOf(new, p, d)
<1>1. /\ IsFiniteSet(R) /\ \A x \in R : f[x] \in Nat
      /\ IsFiniteSet(T) /\ \A x \in T : h[x] \in Nat
      /\ \A x : Term(f, R, x) = MarginAt(map, x, p, d)
      /\ \A x : Term(h, T, x) = MarginAt(new, x, p, d)
    BY MarginUseType
<1>2. \A x : x # k => MarginAt(new, x, p, d) = MarginAt(map, x, p, d)
    BY DEF MarginAt, KeysOf
<1>3. MarginUse(map, p, d) = SumOver(f, R) /\ MarginUse(new, p, d) = SumOver(h, T)
    BY DEF MarginUse
<1> HIDE DEF f, h, R, T
<1>4. SumOver(h, T) = SumOver(f, R) + (Term(h, T, k) - Term(f, R, k))
    <2>1. \A x \in (R \cup T) \ {k} : Term(h, T, x) = Term(f, R, x)
        BY <1>1, <1>2
    <2>2. (\A x \in R : f[x] \in Int) /\ \A x \in T : h[x] \in Int
        BY <1>1
    <2> QED BY <1>1, <2>1, <2>2, SumMoves
<1> QED BY <1>1, <1>3, <1>4

LEMMA MarginSame ==
    ASSUME NEW map, NEW new, HasMargins(map), HasMargins(new), NEW p, NEW d,
           \A x : x[1] = p => /\ x \in DOMAIN new <=> x \in DOMAIN map
                              /\ x \in DOMAIN map => new[x].margin = map[x].margin
    PROVE  MarginUse(new, p, d) = MarginUse(map, p, d)
<1>1. KeysOf(new, p, d) = KeysOf(map, p, d)
    BY DEF KeysOf
<1>2. \A k \in KeysOf(map, p, d) : Margins(new)[k] = Margins(map)[k]
    BY DEF KeysOf, Margins
<1>3. IsFiniteSet(KeysOf(map, p, d))
    BY MarginUseType
<1> QED BY <1>1, <1>2, <1>3, SumSame DEF MarginUse

LEMMA OrderUseType ==
    ASSUME NEW orders, HasBlocks(orders), NEW p, NEW d
    PROVE  /\ IsFiniteSet(TaggedOrders(orders, p, d))
           /\ \A id \in TaggedOrders(orders, p, d) : Blocks(orders)[id] \in Nat
           /\ OrderUse(orders, p, d) \in Nat
           /\ \A id : OrderAt(orders, id, p, d) \in Nat
           /\ \A id : Term(Blocks(orders), TaggedOrders(orders, p, d), id) = OrderAt(orders, id, p, d)
<1>1. IsFiniteSet(TaggedOrders(orders, p, d))
    BY FS_Subset DEF HasBlocks, TaggedOrders
<1>2. \A id \in TaggedOrders(orders, p, d) :
          Blocks(orders)[id] = orders[id].blocked /\ orders[id].blocked \in Nat
    BY DEF HasBlocks, TaggedOrders, Blocks
<1>3. OrderUse(orders, p, d) \in Nat
    BY <1>1, <1>2, SumNat DEF OrderUse
<1> QED BY <1>1, <1>2, <1>3 DEF OrderAt, Term

LEMMA OrderMoves ==
    ASSUME NEW orders, NEW new, HasBlocks(orders), HasBlocks(new), NEW p, NEW d, NEW id,
           \A x : x # id => /\ x \in DOMAIN new <=> x \in DOMAIN orders
                            /\ x \in DOMAIN orders => new[x] = orders[x]
    PROVE  OrderUse(new, p, d)
             = OrderUse(orders, p, d) + (OrderAt(new, id, p, d) - OrderAt(orders, id, p, d))
<1> DEFINE f == Blocks(orders)
           h == Blocks(new)
           R == TaggedOrders(orders, p, d)
           T == TaggedOrders(new, p, d)
<1>1. /\ IsFiniteSet(R) /\ \A x \in R : f[x] \in Nat
      /\ IsFiniteSet(T) /\ \A x \in T : h[x] \in Nat
      /\ \A x : Term(f, R, x) = OrderAt(orders, x, p, d)
      /\ \A x : Term(h, T, x) = OrderAt(new, x, p, d)
    BY OrderUseType
<1>2. \A x : x # id => OrderAt(new, x, p, d) = OrderAt(orders, x, p, d)
    BY DEF OrderAt, TaggedOrders
<1>3. OrderUse(orders, p, d) = SumOver(f, R) /\ OrderUse(new, p, d) = SumOver(h, T)
    BY DEF OrderUse
<1> HIDE DEF f, h, R, T
<1>4. SumOver(h, T) = SumOver(f, R) + (Term(h, T, id) - Term(f, R, id))
    <2>1. \A x \in (R \cup T) \ {id} : Term(h, T, x) = Term(f, R, x)
        BY <1>1, <1>2
    <2>2. (\A x \in R : f[x] \in Int) /\ \A x \in T : h[x] \in Int
        BY <1>1
    <2> QED BY <1>1, <2>1, <2>2, SumMoves
<1> QED BY <1>1, <1>3, <1>4

(* What is left of a settlement for a principal. *)
LEMMA MarginForType ==
    ASSUME NEW S, IsFiniteSet(S), S \subseteq Snapshot, NEW p
    PROVE  /\ MarginFor(S, p) \in Nat
           /\ IsFiniteSet({w \in S : w.user = p})
           /\ \A w \in {x \in S : x.user = p} : MarginOf({x \in S : x.user = p})[w] \in Nat
           /\ MarginFor(S, p) = SumOver(MarginOf({x \in S : x.user = p}), {x \in S : x.user = p})
<1> DEFINE T == {x \in S : x.user = p}
<1>1. IsFiniteSet(T)
    BY FS_Subset
<1>2. \A w \in T : MarginOf(T)[w] \in Nat
    BY DEF MarginOf, Snapshot
<1>3. MarginFor(S, p) = SumOver(MarginOf(T), T)
    BY MarginIsSum DEF MarginFor
<1> QED BY <1>1, <1>2, <1>3, SumNat

LEMMA MarginForSplits ==
    ASSUME NEW S, IsFiniteSet(S), S \subseteq Snapshot, NEW C \in SUBSET S, NEW p
    PROVE  MarginFor(S, p) = MarginFor(C, p) + MarginFor(S \ C, p)
<1> DEFINE R == {w \in C : w.user = p}
           T == {w \in S \ C : w.user = p}
           U == {w \in S : w.user = p}
           f == MarginOf(R)
           g == MarginOf(T)
           h == MarginOf(U)
<1>1. IsFiniteSet(C) /\ IsFiniteSet(S \ C) /\ C \subseteq Snapshot /\ S \ C \subseteq Snapshot
    BY FS_Subset
<1>2. /\ IsFiniteSet(R) /\ \A w \in R : f[w] \in Nat
      /\ IsFiniteSet(T) /\ \A w \in T : g[w] \in Nat
      /\ IsFiniteSet(U) /\ \A w \in U : h[w] \in Nat
      /\ MarginFor(C, p) = SumOver(f, R) /\ MarginFor(S \ C, p) = SumOver(g, T)
      /\ MarginFor(S, p) = SumOver(h, U)
    <2>1. ASSUME NEW X, IsFiniteSet(X), X \subseteq Snapshot
          PROVE  /\ IsFiniteSet({w \in X : w.user = p})
                 /\ \A w \in {x \in X : x.user = p} : MarginOf({x \in X : x.user = p})[w] \in Nat
                 /\ MarginFor(X, p) = SumOver(MarginOf({x \in X : x.user = p}), {x \in X : x.user = p})
        BY <2>1, MarginForType
    <2>2. IsFiniteSet(R) /\ (\A w \in R : f[w] \in Nat) /\ MarginFor(C, p) = SumOver(f, R)
        BY <1>1, <2>1
    <2>3. IsFiniteSet(T) /\ (\A w \in T : g[w] \in Nat) /\ MarginFor(S \ C, p) = SumOver(g, T)
        BY <1>1, <2>1
    <2>4. IsFiniteSet(U) /\ (\A w \in U : h[w] \in Nat) /\ MarginFor(S, p) = SumOver(h, U)
        BY <1>1, <2>1
    <2> QED BY <2>2, <2>3, <2>4
<1>3. ASSUME NEW w \in R \cup T \cup U PROVE Term(h, U, w) = Term(f, R, w) + Term(g, T, w)
    <2>1. /\ \A x \in R : f[x] = x.margin
          /\ \A x \in T : g[x] = x.margin
          /\ \A x \in U : h[x] = x.margin
        BY DEF MarginOf
    <2>2. w \in U /\ (w \in R <=> w \notin T)
        OBVIOUS
    <2>3. h[w] \in Nat
        BY <1>2, <2>2
    <2> HIDE DEF f, g, h, R, T, U
    <2> QED BY <2>1, <2>2, <2>3 DEF Term
<1> HIDE DEF f, g, h, R, T, U
<1>4. /\ \A w \in R : f[w] \in Int
      /\ \A w \in T : g[w] \in Int
      /\ \A w \in U : h[w] \in Int
    BY <1>2
<1> QED BY <1>2, <1>3, <1>4, SumSplit

LEMMA PlanUseType ==
    ASSUME NEW plans, HasLefts(plans), NEW p, NEW d
    PROVE  /\ IsFiniteSet(SettlingIn(plans, d))
           /\ \A s \in SettlingIn(plans, d) : Lefts(plans, p)[s] \in Nat
           /\ PlanUse(plans, p, d) \in Nat
           /\ \A s : PlanAt(plans, s, p, d) \in Nat
           /\ \A s : Term(Lefts(plans, p), SettlingIn(plans, d), s) = PlanAt(plans, s, p, d)
<1>1. IsFiniteSet(SettlingIn(plans, d))
    BY FS_Subset DEF HasLefts, SettlingIn
<1>2. \A s \in DOMAIN plans : MarginFor(plans[s].left, p) \in Nat
    BY MarginForType DEF HasLefts
<1>3. \A s \in SettlingIn(plans, d) :
          /\ Lefts(plans, p)[s] = MarginFor(plans[s].left, p)
          /\ MarginFor(plans[s].left, p) \in Nat
    BY <1>2 DEF SettlingIn, Lefts
<1>4. PlanUse(plans, p, d) \in Nat
    BY <1>1, <1>3, SumNat DEF PlanUse
<1> QED BY <1>1, <1>3, <1>4 DEF PlanAt, Term

LEMMA PlanMoves ==
    ASSUME NEW plans, NEW new, HasLefts(plans), HasLefts(new), NEW p, NEW d, NEW s,
           \A x : x # s => /\ x \in DOMAIN new <=> x \in DOMAIN plans
                           /\ x \in DOMAIN plans => new[x] = plans[x]
    PROVE  PlanUse(new, p, d)
             = PlanUse(plans, p, d) + (PlanAt(new, s, p, d) - PlanAt(plans, s, p, d))
<1> DEFINE f == Lefts(plans, p)
           h == Lefts(new, p)
           R == SettlingIn(plans, d)
           T == SettlingIn(new, d)
<1>1. /\ IsFiniteSet(R) /\ \A x \in R : f[x] \in Nat
      /\ IsFiniteSet(T) /\ \A x \in T : h[x] \in Nat
      /\ \A x : Term(f, R, x) = PlanAt(plans, x, p, d)
      /\ \A x : Term(h, T, x) = PlanAt(new, x, p, d)
    BY PlanUseType
<1>2. \A x : x # s => PlanAt(new, x, p, d) = PlanAt(plans, x, p, d)
    BY DEF PlanAt, SettlingIn
<1>3. PlanUse(plans, p, d) = SumOver(f, R) /\ PlanUse(new, p, d) = SumOver(h, T)
    BY DEF PlanUse
<1> HIDE DEF f, h, R, T
<1>4. SumOver(h, T) = SumOver(f, R) + (Term(h, T, s) - Term(f, R, s))
    <2>1. \A x \in (R \cup T) \ {s} : Term(h, T, x) = Term(f, R, x)
        BY <1>1, <1>2
    <2>2. (\A x \in R : f[x] \in Int) /\ \A x \in T : h[x] \in Int
        BY <1>1
    <2> QED BY <1>1, <2>1, <2>2, SumMoves
<1> QED BY <1>1, <1>3, <1>4

(* The margin in use, as the property states it. *)
LEMMA PositionUse ==
    ASSUME NEW map, NEW p, NEW d
    PROVE  MapThenSumSet(LAMBDA k : map[k].margin, KeysOf(map, p, d)) = MarginUse(map, p, d)
<1> DEFINE S == KeysOf(map, p, d)
           f == Margins(map)
           Fold(g) == g = [s \in SUBSET S |->
                              IF s = {} THEN 0 ELSE map[Pick(s)].margin + g[s \ {Pick(s)}]]
<1>1. \A g : Fold(g) <=> IsFold(g, f, S)
    <2>1. \A s \in SUBSET S : s # {} => f[Pick(s)] = map[Pick(s)].margin
        BY PickIn DEF Margins, KeysOf
    <2> HIDE DEF f, S
    <2> QED BY <2>1 DEF IsFold
<1>2. (CHOOSE g : Fold(g)) = (CHOOSE g : IsFold(g, f, S))
    <2> HIDE DEF Fold, f, S
    <2> QED BY <1>1
<1>3. MapThenSumSet(LAMBDA k : map[k].margin, KeysOf(map, p, d)) = (CHOOSE g : Fold(g))[S]
    BY DEF MapThenSumSet, MapThenFoldSet, Pick
<1> QED BY <1>2, <1>3, SumIsFold DEF MarginUse

LEMMA OrdersUse ==
    ASSUME NEW p, NEW d
    PROVE  MapThenSumSet(LAMBDA id : limit_orders[id].blocked, OrdersIn(p, d))
             = OrderUse(limit_orders, p, d)
<1>1. OrdersIn(p, d) = TaggedOrders(limit_orders, p, d)
    BY DEF OrdersIn, TaggedOrders
<1> DEFINE S == OrdersIn(p, d)
           f == Blocks(limit_orders)
           Fold(g) == g = [s \in SUBSET S |->
                              IF s = {} THEN 0
                              ELSE limit_orders[Pick(s)].blocked + g[s \ {Pick(s)}]]
<1>2. \A g : Fold(g) <=> IsFold(g, f, S)
    <2>1. \A s \in SUBSET S : s # {} => f[Pick(s)] = limit_orders[Pick(s)].blocked
        BY PickIn DEF Blocks, OrdersIn
    <2> HIDE DEF f, S
    <2> QED BY <2>1 DEF IsFold
<1>3. (CHOOSE g : Fold(g)) = (CHOOSE g : IsFold(g, f, S))
    <2> HIDE DEF Fold, f, S
    <2> QED BY <1>2
<1>4. MapThenSumSet(LAMBDA id : limit_orders[id].blocked, OrdersIn(p, d)) = (CHOOSE g : Fold(g))[S]
    BY DEF MapThenSumSet, MapThenFoldSet, Pick
<1> QED BY <1>1, <1>3, <1>4, SumIsFold DEF OrderUse

LEMMA PlansUse ==
    ASSUME NEW p, NEW d
    PROVE  MapThenSumSet(LAMBDA s : MapThenSumSet(LAMBDA w : w.margin,
                                        {x \in settlement_plans[s].left : x.user = p}),
               {s \in DOMAIN settlement_plans : SeriesDomain[s] = d})
             = PlanUse(settlement_plans, p, d)
<1> DEFINE S == SettlingIn(settlement_plans, d)
           f == Lefts(settlement_plans, p)
           W(s) == MapThenSumSet(LAMBDA w : w.margin, {x \in settlement_plans[s].left : x.user = p})
           Fold(g) == g = [t \in SUBSET S |->
                              IF t = {} THEN 0 ELSE W(Pick(t)) + g[t \ {Pick(t)}]]
<1>1. \A g : Fold(g) <=> IsFold(g, f, S)
    <2>1. \A t \in SUBSET S : t # {} => f[Pick(t)] = W(Pick(t))
        BY PickIn DEF Lefts, SettlingIn, MarginFor
    <2> HIDE DEF f, S, W
    <2> QED BY <2>1 DEF IsFold
<1>2. (CHOOSE g : Fold(g)) = (CHOOSE g : IsFold(g, f, S))
    <2> HIDE DEF Fold, f, S
    <2> QED BY <1>1
<1>3. MapThenSumSet(LAMBDA s : W(s), {s \in DOMAIN settlement_plans : SeriesDomain[s] = d})
        = (CHOOSE g : Fold(g))[S]
    <2> HIDE DEF W
    <2> QED BY DEF MapThenSumSet, MapThenFoldSet, Pick, SettlingIn
<1> QED BY <1>2, <1>3, SumIsFold DEF PlanUse

LEMMA UseIs == ASSUME NEW p, NEW d PROVE InUse(p, d) = UseOf(p, d)
<1>1. MapThenSumSet(LAMBDA k : positions[k].margin, PositionsIn(p, d)) = MarginUse(positions, p, d)
    <2>1. PositionsIn(p, d) = KeysOf(positions, p, d)
        BY DEF PositionsIn, KeysOf
    <2> QED BY <2>1, PositionUse
<1>2. MapThenSumSet(LAMBDA k : frozen_transfers[k].margin,
            {x \in DOMAIN frozen_transfers : x[1] = p /\ SeriesDomain[x[2]] = d})
        = MarginUse(frozen_transfers, p, d)
    BY PositionUse DEF KeysOf
<1> QED BY <1>1, <1>2, OrdersUse, PlansUse DEF InUse, UseOf

-----------------------------------------------------------------------------
(* What a step changes of the margin in use, it changes of the account's. *)

LEMMA BlocksHere == OrdersType => HasBlocks(limit_orders)
BY DEF OrdersType, HasBlocks, Order

LEMMA BlocksNext == OrdersType' => HasBlocks(limit_orders')
BY DEF OrdersType, HasBlocks, Order

LEMMA FiniteMargins ==
    ASSUME AccountsType', IsFiniteSet(DOMAIN positions') PROVE HasMargins(positions')
BY DEF AccountsType, HasMargins, Position

(* The four sums are natural numbers. *)
LEMMA PartsType ==
    ASSUME NEW orders, HasBlocks(orders), NEW pos, HasMargins(pos), NEW frozen, HasMargins(frozen),
           NEW plans, HasLefts(plans), NEW p, NEW d
    PROVE  /\ OrderUse(orders, p, d) \in Nat /\ MarginUse(pos, p, d) \in Nat
           /\ MarginUse(frozen, p, d) \in Nat /\ PlanUse(plans, p, d) \in Nat
<1>1. OrderUse(orders, p, d) \in Nat
    BY OrderUseType
<1>2. PlanUse(plans, p, d) \in Nat
    BY PlanUseType
<1>3. ASSUME NEW map, HasMargins(map) PROVE MarginUse(map, p, d) \in Nat
    BY <1>3, MarginUseType
<1> QED BY <1>1, <1>2, <1>3

LEMMA StatePut ==
    ASSUME NEW p, NEW state, account_states' = Put(account_states, p, state)
    PROVE  StateOf(p)' = state /\ \A q : q # p => StateOf(q)' = StateOf(q)
BY DEF Put, StateOf

LEMMA AdjustedExact ==
    ASSUME NEW x \in Int, NEW y \in Int, x + y >= 0 PROVE Adjusted(x, y) = x + y
BY DEF Adjusted, Less

LEMMA LessExact ==
    ASSUME NEW x \in Int, NEW y \in Int, x - y >= 0 PROVE Less(x, y) = x - y
BY DEF Less

(* A step that leaves every margin, and what it is for, as it was. *)
LEMMA MarginsUntouched ==
    ASSUME BookFits, \A p \in Principal : StateOf(p).margin' = StateOf(p).margin,
           UNCHANGED <<positions, limit_orders, frozen_transfers, settlement_plans>>
    PROVE  BookFits'
<1>1. FiniteBook' /\ LeftNamed'
    BY DEF BookFits, FiniteBook, LeftNamed
<1>2. ASSUME NEW p \in Principal, NEW d \in Domain PROVE StateOf(p)'.margin[d] = UseOf(p, d)'
    <2>1. UseOf(p, d)' = UseOf(p, d)
        BY DEF UseOf
    <2>2. StateOf(p).margin[d] = UseOf(p, d)
        BY DEF BookFits, MarginsFit
    <2> QED BY <2>1, <2>2
<1> QED BY <1>1, <1>2 DEF BookFits, MarginsFit

-----------------------------------------------------------------------------
(* Trades. *)

LEMMA LegFits ==
    ASSUME TypeInv, TypeInv', BookFits, HasMargins(positions'),
           NEW p \in Principal, NEW d \in Domain, NEW s \in SeriesId, NEW price \in Nat,
           NEW dq \in Int, NEW rel \in Nat,
           StateOf(p)' = AfterLeg(p, s, Leg(p, s, price, dq, rel)),
           <<p, s>> \in DOMAIN positions',
           positions'[<<p, s>>] = Leg(p, s, price, dq, rel).position,
           \A x : x # <<p, s>> /\ x[1] = p =>
                     /\ x \in DOMAIN positions' <=> x \in DOMAIN positions
                     /\ x \in DOMAIN positions => positions'[x].margin = positions[x].margin,
           OrderUse(limit_orders', p, d)
             = OrderUse(limit_orders, p, d) - (IF d = SeriesDomain[s] THEN rel ELSE 0),
           UNCHANGED <<frozen_transfers, settlement_plans>>
    PROVE  StateOf(p)'.margin[d] = UseOf(p, d)'
<1> DEFINE k == <<p, s>>
           leg == Leg(p, s, price, dq, rel)
           old == PositionOf(p, s).margin
           new == leg.position.margin
           sd == SeriesDomain[s]
           m == StateOf(p).margin[d]
           O == OrderUse(limit_orders, p, d)
           P == MarginUse(positions, p, d)
           Q == MarginUse(positions', p, d)
           F == MarginUse(frozen_transfers, p, d)
           L == PlanUse(settlement_plans, p, d)
           N == OrderUse(limit_orders', p, d)
<1>1. /\ HasBlocks(limit_orders) /\ HasBlocks(limit_orders')
      /\ HasMargins(positions) /\ HasMargins(frozen_transfers) /\ HasLefts(settlement_plans)
    BY BlocksHere, BlocksNext DEF TypeInv, BookFits, FiniteBook
<1>2. O \in Nat /\ P \in Nat /\ F \in Nat /\ L \in Nat
    BY <1>1, PartsType
<1>3. N \in Nat
    BY <1>1, OrderUseType
<1>4. Q \in Nat
    <2> DEFINE map == positions'
    <2>1. HasMargins(map)
        OBVIOUS
    <2> HIDE DEF map
    <2>2. MarginUse(map, p, d) \in Nat
        BY <2>1, MarginUseType
    <2> QED BY <2>2 DEF map
<1>5. Q = P + (MarginAt(positions', k, p, d) - MarginAt(positions, k, p, d))
    <2> DEFINE map == positions'
    <2>1. /\ HasMargins(map)
          /\ \A x : x # k /\ x[1] = p =>
                     /\ x \in DOMAIN map <=> x \in DOMAIN positions
                     /\ x \in DOMAIN positions => map[x].margin = positions[x].margin
        OBVIOUS
    <2> HIDE DEF map, k
    <2>2. MarginUse(map, p, d)
             = MarginUse(positions, p, d) + (MarginAt(map, k, p, d) - MarginAt(positions, k, p, d))
        BY <1>1, <2>1, MarginMoves
    <2> QED BY <2>2 DEF map, k
<1>6. m = O + P + F + L
    BY DEF BookFits, MarginsFit, UseOf
<1>7. UseOf(p, d)' = N + Q + F + L
    BY DEF UseOf
<1>8. /\ d = sd => MarginAt(positions', k, p, d) = new /\ MarginAt(positions, k, p, d) = old
      /\ d # sd => MarginAt(positions', k, p, d) = 0 /\ MarginAt(positions, k, p, d) = 0
    BY DEF MarginAt, KeysOf, PositionOf
<1>9. old \in Nat /\ new \in Nat /\ leg.reserve = new - old - rel
    <2>1. PositionOf(p, s) \in Position
        BY DEF PositionOf, Position, TypeInv, AccountsType
    <2>2. leg.position \in Position
        BY LegType
    <2>3. leg.reserve = leg.position.margin - old - rel
        BY DEF Leg
    <2> QED BY <2>1, <2>2, <2>3 DEF Position
<1>10. StateOf(p) \in AccountState /\ sd \in Domain
    BY StateType, AccountsAssumption DEF TypeInv
<1>11. d # sd => StateOf(p)'.margin[d] = m
    BY <1>10 DEF AfterLeg, AccountState
<1>12. d = sd => StateOf(p)'.margin[d] = Adjusted(m, leg.reserve)
    BY <1>10 DEF AfterLeg, AccountState
<1>13. N = O - (IF d = sd THEN rel ELSE 0)
    OBVIOUS
<1> HIDE DEF leg, old, new, sd, O, P, Q, F, L, N, k, m
<1>14. CASE d = sd
    <2>1. N + Q + F + L = m + leg.reserve
        BY <1>2, <1>3, <1>4, <1>5, <1>6, <1>8, <1>9, <1>13, <1>14
    <2>2. m \in Int /\ leg.reserve \in Int /\ m + leg.reserve >= 0
        BY <2>1, <1>2, <1>3, <1>4, <1>6, <1>9
    <2>3. Adjusted(m, leg.reserve) = m + leg.reserve
        BY <2>2, AdjustedExact
    <2> QED BY <2>1, <2>3, <1>7, <1>12, <1>14
<1>15. CASE d # sd
    BY <1>2, <1>3, <1>4, <1>5, <1>6, <1>7, <1>8, <1>11, <1>13, <1>15
<1> QED BY <1>14, <1>15

(* What a trade of b and v takes off the orders it fills. *)
Leaves(b, v, s, released) ==
    \A p \in Principal, d \in Domain :
        OrderUse(limit_orders', p, d)
          = OrderUse(limit_orders, p, d)
              - (IF p \in {b, v} /\ d = SeriesDomain[s] THEN released[p] ELSE 0)

LEMMA TradeFits ==
    ASSUME TypeInv, TypeInv', BookFits,
           NEW b \in Principal, NEW v \in Principal, NEW s \in SeriesId,
           NEW price \in Nat, NEW released \in [Principal -> Nat], Trade(b, v, s, price, released),
           Leaves(b, v, s, released),
           UNCHANGED <<frozen_transfers, settlement_plans>>
    PROVE  BookFits'
<1> DEFINE bought == Leg(b, s, price, 1, released[b])
           sold == Leg(v, s, price, -1, released[v])
           paid == Put(account_states, b, AfterLeg(b, s, bought))
           held == Put(positions, <<b, s>>, bought.position)
<1>1. /\ b # v
      /\ account_states' = Put(paid, v, AfterLeg(v, s, sold))
      /\ positions' = Put(held, <<v, s>>, sold.position)
    BY DEF Trade
<1>2. /\ StateOf(b)' = AfterLeg(b, s, bought) /\ StateOf(v)' = AfterLeg(v, s, sold)
      /\ \A q : q \notin {b, v} => StateOf(q)' = StateOf(q)
    <2> HIDE DEF bought, sold
    <2> QED BY <1>1 DEF Put, StateOf
<1>3. /\ DOMAIN positions' = DOMAIN positions \cup {<<b, s>>, <<v, s>>}
      /\ positions'[<<b, s>>] = bought.position /\ positions'[<<v, s>>] = sold.position
      /\ \A k \in DOMAIN positions : k \notin {<<b, s>>, <<v, s>>} =>
                                       positions'[k] = positions[k]
    <2> HIDE DEF bought, sold
    <2> QED BY <1>1 DEF Put
<1>4. HasMargins(positions')
    <2>1. IsFiniteSet(DOMAIN positions \cup {<<b, s>>} \cup {<<v, s>>})
        BY FS_AddElement DEF BookFits, FiniteBook, HasMargins
    <2>2. DOMAIN positions' = DOMAIN positions \cup {<<b, s>>} \cup {<<v, s>>}
        BY <1>3
    <2> QED BY <2>1, <2>2, FiniteMargins DEF TypeInv
<1>5. released[b] \in Nat /\ released[v] \in Nat
    OBVIOUS
<1> HIDE DEF bought, sold, paid, held
<1>6. ASSUME NEW d \in Domain PROVE StateOf(b)'.margin[d] = UseOf(b, d)'
    <2>1. \A x : x # <<b, s>> /\ x[1] = b =>
                     /\ x \in DOMAIN positions' <=> x \in DOMAIN positions
                     /\ x \in DOMAIN positions => positions'[x].margin = positions[x].margin
        BY <1>1, <1>3
    <2>2. OrderUse(limit_orders', b, d)
            = OrderUse(limit_orders, b, d) - (IF d = SeriesDomain[s] THEN released[b] ELSE 0)
        BY DEF Leaves
    <2> QED BY <1>2, <1>3, <1>4, <1>5, <2>1, <2>2, LegFits DEF bought
<1>7. ASSUME NEW d \in Domain PROVE StateOf(v)'.margin[d] = UseOf(v, d)'
    <2>1. \A x : x # <<v, s>> /\ x[1] = v =>
                     /\ x \in DOMAIN positions' <=> x \in DOMAIN positions
                     /\ x \in DOMAIN positions => positions'[x].margin = positions[x].margin
        BY <1>1, <1>3
    <2>2. OrderUse(limit_orders', v, d)
            = OrderUse(limit_orders, v, d) - (IF d = SeriesDomain[s] THEN released[v] ELSE 0)
        BY DEF Leaves
    <2> QED BY <1>2, <1>3, <1>4, <1>5, <2>1, <2>2, LegFits DEF sold
<1>8. ASSUME NEW p \in Principal, p \notin {b, v}, NEW d \in Domain
      PROVE  StateOf(p)'.margin[d] = UseOf(p, d)'
    <2> DEFINE map == positions'
    <2>1. /\ HasMargins(map) /\ HasMargins(positions)
          /\ \A x : x[1] = p => /\ x \in DOMAIN map <=> x \in DOMAIN positions
                                /\ x \in DOMAIN positions => map[x].margin = positions[x].margin
        BY <1>3, <1>4, <1>8 DEF BookFits, FiniteBook
    <2> HIDE DEF map
    <2>2. MarginUse(map, p, d) = MarginUse(positions, p, d)
        BY <2>1, MarginSame
    <2>3. OrderUse(limit_orders', p, d) = OrderUse(limit_orders, p, d)
        <3>1. OrderUse(limit_orders, p, d) \in Nat
            BY OrderUseType, BlocksHere DEF TypeInv
        <3>2. OrderUse(limit_orders', p, d) = OrderUse(limit_orders, p, d) - 0
            BY <1>8 DEF Leaves
        <3> QED BY <3>1, <3>2
    <2>4. UseOf(p, d)' = UseOf(p, d)
        BY <2>2, <2>3 DEF UseOf, map
    <2> QED BY <1>2, <1>8, <2>4 DEF BookFits, MarginsFit
<1>9. MarginsFit'
    BY <1>6, <1>7, <1>8 DEF MarginsFit
<1> QED BY <1>4, <1>9 DEF BookFits, FiniteBook, LeftNamed

LEMMA FinishMatchedFits ==
    ASSUME TypeInv, TypeInv', BookFits, NEW c \in CallId, FinishMatched(c) PROVE BookFits'
<1> DEFINE r == call[c].req
           none == [p \in Principal |-> 0]
<1>1. none \in [Principal -> Nat] /\ Trade(r.buyer, r.seller, r.series, r.price, none)
    BY DEF FinishMatched
<1>2. /\ r.buyer \in Principal /\ r.seller \in Principal /\ r.series \in SeriesId
      /\ r.price \in Nat
    BY MatchedCallOf, RequestKinds DEF FinishMatched, IsMatch, TypeInv
<1>3. UNCHANGED <<limit_orders, frozen_transfers, settlement_plans>>
    BY DEF FinishMatched
<1>4. ASSUME NEW p \in Principal, NEW d \in Domain
      PROVE  OrderUse(limit_orders', p, d)
               = OrderUse(limit_orders, p, d)
                   - (IF p \in {r.buyer, r.seller} /\ d = SeriesDomain[r.series] THEN none[p] ELSE 0)
    <2>1. OrderUse(limit_orders, p, d) \in Nat
        BY OrderUseType, BlocksHere DEF TypeInv
    <2> QED BY <1>3, <2>1
<1>5. Leaves(r.buyer, r.seller, r.series, none)
    BY <1>4 DEF Leaves
<1> HIDE DEF none, r
<1> QED BY <1>1, <1>2, <1>3, <1>5, TradeFits

-----------------------------------------------------------------------------
(* Orders. *)

(* An order that leaves the book. *)
LEMMA OrderLeaves ==
    ASSUME TypeInv, TypeInv', NEW id \in DOMAIN limit_orders,
           limit_orders' = Without(limit_orders, {id}), NEW p, NEW d
    PROVE  OrderUse(limit_orders', p, d)
             = OrderUse(limit_orders, p, d) - OrderAt(limit_orders, id, p, d)
<1> DEFINE new == limit_orders'
<1>1. DOMAIN new = DOMAIN limit_orders \ {id} /\ \A x \in DOMAIN new : new[x] = limit_orders[x]
    <2>1. DOMAIN Without(limit_orders, {id}) = DOMAIN limit_orders \ {id}
        BY WithoutMap
    <2>2. \A x \in DOMAIN limit_orders \ {id} : Without(limit_orders, {id})[x] = limit_orders[x]
        BY WithoutMap
    <2> QED BY <2>1, <2>2
<1>2. HasBlocks(limit_orders) /\ HasBlocks(new)
    BY BlocksHere, BlocksNext DEF TypeInv
<1> HIDE DEF new
<1>3. OrderUse(new, p, d)
        = OrderUse(limit_orders, p, d) + (OrderAt(new, id, p, d) - OrderAt(limit_orders, id, p, d))
    BY <1>1, <1>2, OrderMoves
<1>4. OrderAt(new, id, p, d) = 0
    BY <1>1 DEF OrderAt, TaggedOrders
<1>5. OrderUse(limit_orders, p, d) \in Nat /\ OrderAt(limit_orders, id, p, d) \in Nat
    BY <1>2, OrderUseType
<1> QED BY <1>3, <1>4, <1>5 DEF new

LEMMA FillOrderFits ==
    ASSUME "no_migrated_fills" \in Discipline, TypeInv, TypeInv', BookFits,
           NEW u \in Principal, NEW r, NEW seen, FillOrder(u, r, seen),
           UNCHANGED <<frozen_transfers, settlement_plans>>
    PROVE  BookFits'
<1> DEFINE order == limit_orders[r.id]
           s == order.series
           released == [q \in Principal |-> IF q = order.creator THEN order.blocked ELSE 0]
           b == IF order.side = "Buy" THEN order.creator ELSE u
           v == IF order.side = "Buy" THEN u ELSE order.creator
<1>1. order \in Order /\ r.id \in DOMAIN limit_orders
    BY DEF FillOrder, TypeInv, OrdersType
<1>2. /\ order.domain = SeriesDomain[s] /\ Trade(b, v, s, OrderPrice, released)
      /\ limit_orders' = Without(limit_orders, {r.id})
    BY DEF FillOrder
<1>3. /\ released \in [Principal -> Nat] /\ s \in SeriesId
      /\ b \in Principal /\ v \in Principal /\ order.creator \in {b, v}
    BY <1>1 DEF Order
<1>4. ASSUME NEW p \in Principal, NEW d \in Domain
      PROVE  OrderUse(limit_orders', p, d)
               = OrderUse(limit_orders, p, d)
                   - (IF p \in {b, v} /\ d = SeriesDomain[s] THEN released[p] ELSE 0)
    <2>1. OrderUse(limit_orders', p, d)
            = OrderUse(limit_orders, p, d) - OrderAt(limit_orders, r.id, p, d)
        BY <1>1, <1>2, OrderLeaves
    <2>2. OrderAt(limit_orders, r.id, p, d)
            = IF p = order.creator /\ d = order.domain THEN order.blocked ELSE 0
        BY <1>1 DEF OrderAt, TaggedOrders
    <2>3. OrderAt(limit_orders, r.id, p, d)
            = IF p \in {b, v} /\ d = SeriesDomain[s] THEN released[p] ELSE 0
        BY <1>2, <1>3, <2>2
    <2> QED BY <2>1, <2>3
<1>5. Leaves(b, v, s, released)
    BY <1>4 DEF Leaves
<1>6. OrderPrice \in Nat
    BY DEF OrderPrice
<1> HIDE DEF order, released, b, v, s
<1> QED BY <1>2, <1>3, <1>5, <1>6, TradeFits

LEMMA PlaceOrderFits ==
    ASSUME TypeInv, TypeInv', BookFits, NEW u \in Principal, NEW r \in Request, r.op = "limit",
           r.id \notin DOMAIN limit_orders, PlaceOrder(u, r),
           UNCHANGED <<frozen_transfers, settlement_plans>>
    PROVE  BookFits'
<1> DEFINE sd == SeriesDomain[r.series]
           state == StateOf(u)
           blocked == OrderMargin(r)
           order == [creator |-> u, series |-> r.series, side |-> r.side, domain |-> sd,
                     blocked |-> blocked]
           covered == Clamped(RawEquity(state, sd)) >= state.margin[sd] + blocked
           new == limit_orders'
           booked == [state EXCEPT !.margin[sd] = @ + blocked]
<1>1. state \in AccountState /\ sd \in Domain /\ blocked \in Nat
    BY StateType, RequestKinds, OrderMarginType, AccountsAssumption DEF TypeInv
<1>2. /\ account_states' = Put(account_states, u, IF covered THEN booked ELSE state)
      /\ new = IF covered THEN Put(limit_orders, r.id, order) ELSE limit_orders
    BY DEF PlaceOrder, OrderMargin
<1> HIDE DEF blocked, covered
<1>3. CASE ~covered
    <2>1. account_states' = Put(account_states, u, state) /\ limit_orders' = limit_orders
        BY <1>2, <1>3
    <2>2. \A p \in Principal : StateOf(p).margin' = StateOf(p).margin
        <3> HIDE DEF state
        <3>1. StateOf(u)' = state /\ \A q : q # u => StateOf(q)' = StateOf(q)
            BY <2>1, StatePut
        <3> QED BY <3>1 DEF state
    <2> QED BY <2>1, <2>2, MarginsUntouched DEF PlaceOrder
<1>4. CASE covered
    <2>1. account_states' = Put(account_states, u, booked) /\ new = Put(limit_orders, r.id, order)
        BY <1>2, <1>4
    <2>2. StateOf(u)' = booked /\ \A q : q # u => StateOf(q)' = StateOf(q)
        <3> HIDE DEF booked
        <3> QED BY <2>1, StatePut
    <2>3. /\ \A x : x # r.id => /\ x \in DOMAIN new <=> x \in DOMAIN limit_orders
                                /\ x \in DOMAIN limit_orders => new[x] = limit_orders[x]
          /\ r.id \in DOMAIN new /\ new[r.id] = order
        <3> HIDE DEF order
        <3> QED BY <2>1 DEF Put
    <2>4. HasBlocks(limit_orders) /\ HasBlocks(new)
        BY BlocksHere, BlocksNext DEF TypeInv
    <2>5. ASSUME NEW p \in Principal, NEW d \in Domain PROVE StateOf(p)'.margin[d] = UseOf(p, d)'
        <3> DEFINE more == IF p = u /\ d = sd THEN blocked ELSE 0
        <3>1. OrderUse(new, p, d) = OrderUse(limit_orders, p, d) + more
            <4>1. OrderAt(new, r.id, p, d) = more /\ OrderAt(limit_orders, r.id, p, d) = 0
                BY <2>3 DEF OrderAt, TaggedOrders
            <4> HIDE DEF new
            <4>2. OrderUse(new, p, d) = OrderUse(limit_orders, p, d)
                    + (OrderAt(new, r.id, p, d) - OrderAt(limit_orders, r.id, p, d))
                BY <2>3, <2>4, OrderMoves
            <4>3. OrderUse(limit_orders, p, d) \in Nat /\ more \in Nat
                BY <1>1, <2>4, OrderUseType
            <4> QED BY <4>1, <4>2, <4>3
        <3>2. StateOf(p)'.margin[d] = StateOf(p).margin[d] + more
            <4>1. StateOf(p).margin[d] \in Nat
                BY StateType DEF TypeInv, AccountState
            <4>2. CASE p = u
                BY <1>1, <2>2, <4>1, <4>2 DEF AccountState
            <4>3. CASE p # u
                BY <2>2, <4>1, <4>3
            <4> QED BY <4>2, <4>3
        <3>3. /\ OrderUse(limit_orders, p, d) \in Nat /\ MarginUse(positions, p, d) \in Nat
              /\ MarginUse(frozen_transfers, p, d) \in Nat /\ PlanUse(settlement_plans, p, d) \in Nat
            BY <2>4, PartsType DEF BookFits, FiniteBook
        <3>4. UseOf(p, d)' = UseOf(p, d) + more
            <4>1. UseOf(p, d)' = OrderUse(new, p, d) + MarginUse(positions, p, d)
                    + MarginUse(frozen_transfers, p, d) + PlanUse(settlement_plans, p, d)
                BY DEF UseOf, PlaceOrder
            <4>2. more \in Nat
                BY <1>1
            <4> QED BY <3>1, <3>3, <4>1, <4>2 DEF UseOf
        <3> QED BY <3>2, <3>4 DEF BookFits, MarginsFit
    <2> QED BY <2>5 DEF PlaceOrder, BookFits, MarginsFit, FiniteBook, LeftNamed
<1> QED BY <1>3, <1>4

LEMMA CancelOrderFits ==
    ASSUME TypeInv, TypeInv', BookFits, NEW id \in OrderId, CancelOrder(id) PROVE BookFits'
<1> DEFINE order == limit_orders[id]
<1>1. order \in Order /\ id \in DOMAIN limit_orders
    BY DEF CancelOrder, TypeInv, OrdersType
<1>2. HasBlocks(limit_orders) /\ HasBlocks(limit_orders')
    BY BlocksHere, BlocksNext DEF TypeInv
<1>3. ASSUME NEW p \in Principal, NEW d \in Domain PROVE StateOf(p)'.margin[d] = UseOf(p, d)'
    <2> DEFINE at == OrderAt(limit_orders, id, p, d)
               m == StateOf(p).margin[d]
               O == OrderUse(limit_orders, p, d)
               N == OrderUse(limit_orders', p, d)
               P == MarginUse(positions, p, d)
               F == MarginUse(frozen_transfers, p, d)
               L == PlanUse(settlement_plans, p, d)
    <2>1. N = O - at
        BY <1>1, OrderLeaves DEF CancelOrder
    <2>2. at = IF p = order.creator /\ d = order.domain THEN order.blocked ELSE 0
        BY <1>1 DEF OrderAt, TaggedOrders
    <2>3. O \in Nat /\ P \in Nat /\ F \in Nat /\ L \in Nat
        BY <1>2, PartsType DEF BookFits, FiniteBook
    <2>4. N \in Nat /\ at \in Nat
        BY <1>2, OrderUseType
    <2>5. m = O + P + F + L
        BY DEF BookFits, MarginsFit, UseOf
    <2>6. UseOf(p, d)' = N + P + F + L
        BY DEF UseOf, CancelOrder
    <2>7. ASSUME p \in DOMAIN account_states
          PROVE  (StateOf(p)'.margin[d] = Less(m, at)) \/ (at = 0 /\ StateOf(p)'.margin[d] = m)
        <3>1. account_states[p] \in AccountState
            BY <2>7 DEF TypeInv, AccountsType
        <3>2. account_states' = [account_states EXCEPT
                  ![order.creator].margin[order.domain] = Less(@, order.blocked)]
            BY DEF CancelOrder
        <3> HIDE DEF order
        <3>3. CASE p = order.creator /\ d = order.domain
            BY <1>1, <2>2, <2>7, <3>1, <3>2, <3>3 DEF StateOf, AccountState
        <3>4. CASE ~(p = order.creator /\ d = order.domain)
            BY <1>1, <2>2, <2>7, <3>1, <3>2, <3>4 DEF StateOf, AccountState
        <3> QED BY <3>3, <3>4
    <2>8. p \notin DOMAIN account_states => StateOf(p)'.margin[d] = 0 /\ m = 0
        BY DEF CancelOrder, StateOf, Empty
    <2> HIDE DEF at, m, O, N, P, F, L
    <2>9. m - at >= 0 /\ UseOf(p, d)' = m - at
        BY <2>1, <2>3, <2>4, <2>5, <2>6
    <2>10. Less(m, at) = m - at
        <3>1. m \in Int /\ at \in Int
            BY <2>3, <2>4, <2>5
        <3> QED BY <2>9, <3>1, LessExact
    <2> QED BY <2>3, <2>4, <2>5, <2>7, <2>8, <2>9, <2>10
<1> QED BY <1>3 DEF CancelOrder, BookFits, MarginsFit, FiniteBook, LeftNamed

(* The margin of a frozen position stays where it was. *)
LEMMA FreezePositionFits ==
    ASSUME TypeInv, TypeInv', BookFits, NEW r \in Request, r.op = "freeze", FreezePosition(r)
    PROVE  BookFits'
<1> DEFINE k == <<r.user, r.series>>
           pos == positions'
           froz == frozen_transfers'
<1>1. /\ k \in DOMAIN positions /\ k \notin DOMAIN frozen_transfers
      /\ pos = Without(positions, {k}) /\ froz = Put(frozen_transfers, k, positions[k])
    BY DEF FreezePosition
<1> HIDE DEF k
<1>2. /\ k \notin DOMAIN pos
      /\ \A x : x # k => /\ x \in DOMAIN pos <=> x \in DOMAIN positions
                         /\ x \in DOMAIN positions => pos[x].margin = positions[x].margin
      /\ DOMAIN pos \subseteq DOMAIN positions
    <2>1. DOMAIN Without(positions, {k}) = DOMAIN positions \ {k}
        BY WithoutMap
    <2>2. \A x \in DOMAIN positions \ {k} : Without(positions, {k})[x] = positions[x]
        BY WithoutMap
    <2> QED BY <1>1, <2>1, <2>2
<1>3. /\ DOMAIN froz = DOMAIN frozen_transfers \cup {k} /\ froz[k] = positions[k]
      /\ \A x : x # k => /\ x \in DOMAIN froz <=> x \in DOMAIN frozen_transfers
                         /\ x \in DOMAIN frozen_transfers =>
                                froz[x].margin = frozen_transfers[x].margin
    BY <1>1 DEF Put
<1>4. HasMargins(positions) /\ HasMargins(frozen_transfers)
    BY DEF BookFits, FiniteBook
<1>5. HasMargins(pos)
    BY <1>2, <1>4, FS_Subset, FiniteMargins DEF HasMargins, TypeInv
<1>6. HasMargins(froz)
    <2>1. IsFiniteSet(DOMAIN froz)
        BY <1>3, <1>4, FS_AddElement DEF HasMargins
    <2>2. \A x \in DOMAIN froz : froz[x].margin \in Nat
        BY <1>1, <1>3, <1>4 DEF HasMargins
    <2> QED BY <2>1, <2>2 DEF HasMargins
<1> HIDE DEF pos, froz
<1>7. ASSUME NEW p \in Principal, NEW d \in Domain PROVE StateOf(p)'.margin[d] = UseOf(p, d)'
    <2>1. MarginUse(pos, p, d) = MarginUse(positions, p, d)
            + (MarginAt(pos, k, p, d) - MarginAt(positions, k, p, d))
        BY <1>2, <1>4, <1>5, MarginMoves
    <2>2. MarginUse(froz, p, d) = MarginUse(frozen_transfers, p, d)
            + (MarginAt(froz, k, p, d) - MarginAt(frozen_transfers, k, p, d))
        BY <1>3, <1>4, <1>6, MarginMoves
    <2>3. /\ MarginAt(pos, k, p, d) = 0 /\ MarginAt(frozen_transfers, k, p, d) = 0
          /\ MarginAt(froz, k, p, d) = MarginAt(positions, k, p, d)
        BY <1>1, <1>2, <1>3 DEF MarginAt, KeysOf
    <2>4. MarginAt(positions, k, p, d) \in Nat
        BY <1>4, MarginUseType
    <2>5. /\ MarginUse(positions, p, d) \in Nat /\ MarginUse(frozen_transfers, p, d) \in Nat
          /\ OrderUse(limit_orders, p, d) \in Nat /\ PlanUse(settlement_plans, p, d) \in Nat
        BY PartsType, BlocksHere DEF TypeInv, BookFits, FiniteBook
    <2>6. UseOf(p, d)' = OrderUse(limit_orders, p, d) + MarginUse(pos, p, d)
            + MarginUse(froz, p, d) + PlanUse(settlement_plans, p, d)
        BY DEF UseOf, FreezePosition, pos, froz
    <2>7. UseOf(p, d)' = UseOf(p, d)
        BY <2>1, <2>2, <2>3, <2>4, <2>5, <2>6 DEF UseOf
    <2>8. StateOf(p)' = StateOf(p)
        BY DEF FreezePosition, StateOf
    <2> QED BY <2>7, <2>8 DEF BookFits, MarginsFit
<1> QED BY <1>5, <1>6, <1>7 DEF FreezePosition, BookFits, MarginsFit, FiniteBook, LeftNamed, pos, froz

-----------------------------------------------------------------------------
(* Settlements. *)

LEMMA AppliedMargin ==
    ASSUME NEW accounts, NEW p \in DOMAIN accounts, accounts[p] \in AccountState,
           NEW s, NEW chunk, NEW d \in Domain
    PROVE  Applied(accounts, s, chunk)[p].margin[d]
             = IF d = SeriesDomain[s] THEN Less(accounts[p].margin[d], MarginFor(chunk, p))
               ELSE accounts[p].margin[d]
<1> DEFINE margin == MarginFor(chunk, p)
           cash == CashFor(chunk, p)
           state == accounts[p]
           sd == SeriesDomain[s]
<1>1. Applied(accounts, s, chunk)[p] =
        [state EXCEPT !.cash[sd] = @ + cash, !.margin[sd] = Less(@, margin)]
    BY DEF Applied, CashFor, MarginFor
<1> HIDE DEF margin, cash, state
<1>2. state \in AccountState
    BY DEF state
<1>3. [state EXCEPT !.cash[sd] = @ + cash, !.margin[sd] = Less(@, margin)].margin
        = [state.margin EXCEPT ![sd] = Less(@, margin)]
    BY <1>2 DEF AccountState
<1>4. DOMAIN state.margin = Domain
    BY <1>2 DEF AccountState
<1> QED BY <1>1, <1>3, <1>4 DEF margin, state

(* A chunk of what is left of a settlement. *)
LEMMA LeftSplits ==
    ASSUME NEW left, IsFiniteSet(left), left \subseteq Snapshot, NEW chunk \in Chunks(left), NEW p
    PROVE  /\ MarginFor(left, p) = MarginFor(chunk, p) + MarginFor(left \ chunk, p)
           /\ MarginFor(chunk, p) \in Nat /\ MarginFor(left \ chunk, p) \in Nat
           /\ IsFiniteSet(left \ chunk) /\ left \ chunk \subseteq Snapshot
<1>1. chunk \in SUBSET left
    BY ChunkType
<1>2. /\ IsFiniteSet(chunk) /\ chunk \subseteq Snapshot
      /\ IsFiniteSet(left \ chunk) /\ left \ chunk \subseteq Snapshot
    BY <1>1, FS_Subset
<1>3. ASSUME NEW S, IsFiniteSet(S), S \subseteq Snapshot PROVE MarginFor(S, p) \in Nat
    BY <1>3, MarginForType
<1> QED BY <1>1, <1>2, <1>3, MarginForSplits

LEMMA ApplySettlementFits ==
    ASSUME TypeInv, TypeInv', BookFits, NEW s \in SeriesId, ApplySettlement(s) PROVE BookFits'
<1> DEFINE left == settlement_plans[s].left
           plans == settlement_plans'
           sd == SeriesDomain[s]
<1>1. PICK chunk \in Chunks(left) :
          /\ plans = [settlement_plans EXCEPT ![s].left = left \ chunk]
          /\ account_states' = Applied(account_states, s, chunk)
    BY DEF ApplySettlement
<1>2. /\ s \in DOMAIN settlement_plans /\ HasLefts(settlement_plans)
      /\ IsFiniteSet(left) /\ left \subseteq Snapshot
    BY DEF ApplySettlement, BookFits, FiniteBook, HasLefts
<1>3. settlement_plans[s] \in SettlementPlan
    BY <1>2 DEF TypeInv, AccountsType
<1>4. /\ DOMAIN plans = DOMAIN settlement_plans
      /\ plans[s].left = left \ chunk /\ plans[s].users = settlement_plans[s].users
      /\ \A x \in DOMAIN plans : x # s => plans[x] = settlement_plans[x]
    BY <1>1, <1>2, <1>3 DEF SettlementPlan
<1>5. ASSUME NEW p
      PROVE  /\ MarginFor(left, p) = MarginFor(chunk, p) + MarginFor(left \ chunk, p)
             /\ MarginFor(chunk, p) \in Nat /\ MarginFor(left \ chunk, p) \in Nat
             /\ IsFiniteSet(left \ chunk) /\ left \ chunk \subseteq Snapshot
    BY <1>2, LeftSplits
<1>6. HasLefts(plans)
    BY <1>2, <1>4, <1>5 DEF HasLefts
<1>7. LeftNamed'
    <2>1. LeftNamed
        BY DEF BookFits
    <2> QED BY <1>4, <2>1 DEF LeftNamed
<1> HIDE DEF plans, left, sd
<1>8. ASSUME NEW p \in Principal, NEW d \in Domain PROVE StateOf(p)'.margin[d] = UseOf(p, d)'
    <2> DEFINE part == IF d = sd THEN MarginFor(chunk, p) ELSE 0
               m == StateOf(p).margin[d]
               O == OrderUse(limit_orders, p, d)
               P == MarginUse(positions, p, d)
               F == MarginUse(frozen_transfers, p, d)
               L == PlanUse(settlement_plans, p, d)
               N == PlanUse(plans, p, d)
    <2>1. N = L + (PlanAt(plans, s, p, d) - PlanAt(settlement_plans, s, p, d))
        BY <1>2, <1>4, <1>6, PlanMoves
    <2>2. /\ d = sd => /\ PlanAt(plans, s, p, d) = MarginFor(left \ chunk, p)
                       /\ PlanAt(settlement_plans, s, p, d) = MarginFor(left, p)
          /\ d # sd => PlanAt(plans, s, p, d) = 0 /\ PlanAt(settlement_plans, s, p, d) = 0
        BY <1>2, <1>4 DEF PlanAt, SettlingIn, left, sd
    <2>3. O \in Nat /\ P \in Nat /\ F \in Nat /\ L \in Nat
        BY PartsType, BlocksHere DEF TypeInv, BookFits, FiniteBook
    <2>4. N \in Nat
        BY <1>6, PlanUseType
    <2>5. part \in Nat /\ N = L - part
        BY <1>5, <2>1, <2>2, <2>3
    <2>6. m = O + P + F + L
        BY DEF BookFits, MarginsFit, UseOf
    <2>7. UseOf(p, d)' = O + P + F + N
        BY DEF UseOf, ApplySettlement, plans
    <2>8. CASE p \notin DOMAIN account_states
        <3>1. m = 0
            BY <2>8 DEF StateOf, Empty
        <3>2. StateOf(p)'.margin[d] = 0
            BY <1>1, <2>8 DEF StateOf, Empty, Applied
        <3> HIDE DEF m, O, P, F, L, N, part
        <3>3. O + P + F + N = 0
            BY <2>3, <2>4, <2>5, <2>6, <3>1
        <3> QED BY <2>7, <3>2, <3>3
    <2>9. CASE p \in DOMAIN account_states
        <3>1. account_states[p] \in AccountState
            BY <2>9 DEF TypeInv, AccountsType
        <3>2. account_states'[p].margin[d]
                = IF d = sd THEN Less(account_states[p].margin[d], MarginFor(chunk, p))
                  ELSE account_states[p].margin[d]
            BY <1>1, <2>9, <3>1, AppliedMargin DEF sd
        <3>3. StateOf(p)'.margin[d] = IF d = sd THEN Less(m, part) ELSE m
            BY <1>1, <2>9, <3>2 DEF StateOf, Applied
        <3>4. d # sd => part = 0
            OBVIOUS
        <3> HIDE DEF m, O, P, F, L, N, part
        <3>5. m \in Int /\ part \in Int /\ m - part >= 0 /\ UseOf(p, d)' = m - part
            BY <2>3, <2>4, <2>5, <2>6, <2>7
        <3>6. Less(m, part) = m - part
            BY <3>5, LessExact
        <3> QED BY <3>3, <3>4, <3>5, <3>6
    <2> QED BY <2>8, <2>9
<1>9. MarginsFit'
    BY <1>8 DEF MarginsFit
<1>10. FiniteBook'
    BY <1>4, <1>6 DEF BookFits, FiniteBook, ApplySettlement, plans
<1> QED BY <1>7, <1>9, <1>10 DEF BookFits

(* What the orders of a series give back, and what stays on the book. *)
LEMMA SeriesReleases ==
    ASSUME TypeInv, TypeInv', NEW s,
           limit_orders' = Restrict(limit_orders,
                              {id \in DOMAIN limit_orders : limit_orders[id].series # s}),
           NEW p, NEW d
    PROVE  /\ OrderUse(limit_orders, p, d) = OrderUse(limit_orders', p, d) + OrdersRelease(p, d, s)
           /\ OrdersRelease(p, d, s) \in Nat
<1> DEFINE new == limit_orders'
           S == {id \in DOMAIN limit_orders : /\ limit_orders[id].creator = p
                                              /\ limit_orders[id].domain = d
                                              /\ limit_orders[id].series = s}
           R == TaggedOrders(new, p, d)
           T == TaggedOrders(limit_orders, p, d)
           f == Blocks(new)
           g == BlockedOf(S)
           h == Blocks(limit_orders)
<1>1. /\ DOMAIN new = {id \in DOMAIN limit_orders : limit_orders[id].series # s}
      /\ \A id \in DOMAIN new : new[id] = limit_orders[id]
    BY DEF Restrict
<1>2. HasBlocks(limit_orders) /\ HasBlocks(new)
    BY BlocksHere, BlocksNext DEF TypeInv
<1>3. OrdersRelease(p, d, s) = SumOver(g, S)
    BY BlockedIsSum DEF OrdersRelease
<1>4. IsFiniteSet(S) /\ \A id \in S : g[id] = limit_orders[id].blocked /\ g[id] \in Nat
    BY <1>2, FS_Subset DEF HasBlocks, BlockedOf
<1>5. /\ T = R \cup S /\ R \cap S = {}
      /\ \A id \in R : new[id] = limit_orders[id]
    BY <1>1 DEF TaggedOrders
<1>6. /\ \A id \in R : f[id] = limit_orders[id].blocked
      /\ \A id \in T : h[id] = limit_orders[id].blocked
    BY <1>5 DEF Blocks, TaggedOrders
<1> HIDE DEF new
<1>7. /\ IsFiniteSet(R) /\ \A id \in R : f[id] \in Nat
      /\ IsFiniteSet(T) /\ \A id \in T : h[id] \in Nat
    BY <1>2, OrderUseType
<1> HIDE DEF S, R, T, f, g, h
<1>8. SumOver(h, T) = SumOver(f, R) + SumOver(g, S)
    <2>1. \A x \in R \cup S \cup T : Term(h, T, x) = Term(f, R, x) + Term(g, S, x)
        BY <1>4, <1>5, <1>6, <1>7 DEF Term
    <2>2. (\A x \in R : f[x] \in Int) /\ (\A x \in S : g[x] \in Int) /\ \A x \in T : h[x] \in Int
        BY <1>4, <1>7
    <2> QED BY <1>4, <1>7, <2>1, <2>2, SumSplit
<1>9. SumOver(g, S) \in Nat
    BY <1>4, SumNat
<1> QED BY <1>3, <1>8, <1>9 DEF OrderUse, R, T, f, h, new

(* A principal has one position in a series. *)
LEMMA SnapshotMargin ==
    ASSUME TypeInv, NEW s, NEW value, NEW p
    PROVE  MarginFor(Snapshots(s, value), p) = MarginAt(positions, <<p, s>>, p, SeriesDomain[s])
<1> DEFINE of(k) == [user |-> k[1], margin |-> positions[k].margin,
                     cash |-> Payoff(s, positions[k].net_qty, value) - positions[k].margin]
           S == {w \in Snapshots(s, value) : w.user = p}
           k == <<p, s>>
<1>1. MarginFor(Snapshots(s, value), p) = SumOver(MarginOf(S), S)
    BY MarginIsSum DEF MarginFor
<1>2. S = {of(x) : x \in {y \in DOMAIN positions : y[2] = s /\ y[1] = p}}
    BY DEF Snapshots
<1>3. {y \in DOMAIN positions : y[2] = s /\ y[1] = p} = IF k \in DOMAIN positions THEN {k} ELSE {}
    <2>1. \A y \in DOMAIN positions : y = <<y[1], y[2]>>
        BY DEF TypeInv, AccountsType
    <2> QED BY <2>1
<1>4. CASE k \in DOMAIN positions
    <2> DEFINE w == of(k)
    <2>1. S = {w}
        BY <1>2, <1>3, <1>4
    <2>2. w.margin = positions[k].margin /\ positions[k].margin \in Int
        BY <1>4 DEF TypeInv, AccountsType, Position
    <2> HIDE DEF S, w
    <2>3. MarginOf(S)[w] = positions[k].margin
        BY <2>1, <2>2 DEF MarginOf
    <2>4. SumOver(MarginOf(S), S) = MarginOf(S)[w] + SumOver(MarginOf(S), S \ {w})
        <3> DEFINE f == MarginOf(S)
        <3>1. IsFiniteSet(S) /\ w \in S
            BY <2>1, FS_Singleton
        <3>2. \A x \in S : f[x] \in Int
            BY <2>1, <2>2, <2>3
        <3> HIDE DEF f
        <3>3. SumOver(f, S) = f[w] + SumOver(f, S \ {w})
            BY <3>1, <3>2, SumRemove
        <3> QED BY <3>3 DEF f
    <2>5. S \ {w} = {}
        BY <2>1
    <2>6. SumOver(MarginOf(S), S) = positions[k].margin
        BY <2>2, <2>3, <2>4, <2>5, SumEmpty
    <2> QED BY <1>1, <1>4, <2>6 DEF MarginAt, KeysOf, S
<1>5. CASE k \notin DOMAIN positions
    <2>1. S = {}
        BY <1>2, <1>3, <1>5
    <2>2. SumOver(MarginOf(S), S) = 0
        BY <2>1, SumEmpty
    <2> QED BY <1>1, <1>5, <2>2 DEF MarginAt, KeysOf
<1> QED BY <1>4, <1>5

LEMMA BeginSettlementFits ==
    ASSUME TypeInv, TypeInv', BookFits, NEW r \in Request, r.op = "settle", BeginSettlement(r)
    PROVE  BookFits'
<1> DEFINE s == r.series
           sd == SeriesDomain[s]
           snapshots == Snapshots(s, r.value)
           released == [p \in DOMAIN account_states |->
               [account_states[p] EXCEPT !.margin =
                   [d \in Domain |-> Less(@[d], OrdersRelease(p, d, s))]]]
           gone == {k \in DOMAIN positions : k[2] = s}
           pos == positions'
           plans == settlement_plans'
           plan(chunk) == [users |-> {w.user : w \in snapshots}, left |-> snapshots \ chunk]
<1>1. PICK chunk \in Chunks(snapshots) :
          /\ plans = Put(settlement_plans, s, plan(chunk))
          /\ account_states' = Applied(released, s, chunk)
    BY DEF BeginSettlement
<1>2. /\ s \in SeriesId /\ s \notin DOMAIN settlement_plans
      /\ HasMargins(positions) /\ HasMargins(frozen_transfers) /\ HasLefts(settlement_plans)
    BY RequestKinds DEF BeginSettlement, NotSettled, BookFits, FiniteBook
<1>3. IsFiniteSet(snapshots) /\ snapshots \subseteq Snapshot
    <2>1. IsFiniteSet(gone)
        BY <1>2, FS_Subset DEF HasMargins
    <2>2. IsFiniteSet(snapshots)
        <3> DEFINE f == [k \in gone |->
                           [user |-> k[1], margin |-> positions[k].margin,
                            cash |-> Payoff(s, positions[k].net_qty, r.value) - positions[k].margin]]
        <3>1. snapshots = {f[k] : k \in gone}
            BY DEF Snapshots
        <3> HIDE DEF snapshots
        <3>2. f \in Surjection(gone, snapshots)
            BY <3>1 DEF Surjection
        <3> HIDE DEF f, gone
        <3> QED BY <2>1, <3>2, FS_Surjection
    <2>3. snapshots \in SUBSET Snapshot
        BY SnapshotsType, RequestKinds DEF TypeInv
    <2> QED BY <2>2, <2>3
<1>4. \A p : MarginFor(snapshots, p) = MarginAt(positions, <<p, s>>, p, sd)
    BY SnapshotMargin
<1>5. limit_orders' = Restrict(limit_orders,
                              {id \in DOMAIN limit_orders : limit_orders[id].series # s})
    BY DEF BeginSettlement
<1>6. /\ DOMAIN pos = DOMAIN positions \ gone
      /\ \A k \in DOMAIN pos : pos[k] = positions[k]
    <2>1. pos = Without(positions, gone)
        BY DEF BeginSettlement
    <2>2. \A k \in DOMAIN positions \ gone : Without(positions, gone)[k] = positions[k]
        BY WithoutMap
    <2>3. DOMAIN Without(positions, gone) = DOMAIN positions \ gone
        BY WithoutMap
    <2> QED BY <2>1, <2>2, <2>3
<1>7. HasMargins(pos)
    BY <1>2, <1>6, FS_Subset, FiniteMargins DEF HasMargins, TypeInv
<1>8. /\ \A p : \A x : x # <<p, s>> /\ x[1] = p =>
                     /\ x \in DOMAIN pos <=> x \in DOMAIN positions
                     /\ x \in DOMAIN positions => pos[x].margin = positions[x].margin
      /\ \A p : <<p, s>> \notin DOMAIN pos
    <2>1. \A y \in DOMAIN positions : y = <<y[1], y[2]>>
        BY DEF TypeInv, AccountsType
    <2> QED BY <1>6, <2>1
<1>9. ASSUME NEW p
      PROVE  /\ MarginFor(snapshots, p) = MarginFor(chunk, p) + MarginFor(snapshots \ chunk, p)
             /\ MarginFor(chunk, p) \in Nat /\ MarginFor(snapshots \ chunk, p) \in Nat
             /\ IsFiniteSet(snapshots \ chunk) /\ snapshots \ chunk \subseteq Snapshot
    BY <1>3, LeftSplits
<1> HIDE DEF snapshots
<1>10. /\ DOMAIN plans = DOMAIN settlement_plans \cup {s}
       /\ plans[s] = plan(chunk) /\ plan(chunk).left = snapshots \ chunk
       /\ \A x : x # s => /\ x \in DOMAIN plans <=> x \in DOMAIN settlement_plans
                          /\ x \in DOMAIN settlement_plans => plans[x] = settlement_plans[x]
    BY <1>1 DEF Put
<1>11. HasLefts(plans)
    <2>1. IsFiniteSet(snapshots \ chunk) /\ snapshots \ chunk \subseteq Snapshot
        BY <1>9
    <2>2. IsFiniteSet(DOMAIN settlement_plans \cup {s})
        BY <1>2, FS_AddElement DEF HasLefts
    <2> HIDE DEF plans, plan
    <2>3. ASSUME NEW x \in DOMAIN plans
          PROVE  IsFiniteSet(plans[x].left) /\ plans[x].left \subseteq Snapshot
        BY <1>2, <1>10, <2>1 DEF HasLefts
    <2> QED BY <1>10, <2>2, <2>3 DEF HasLefts
<1>12. LeftNamed'
    <2>1. LeftNamed
        BY DEF BookFits
    <2>2. \A w \in plan(chunk).left : w.user \in plan(chunk).users
        OBVIOUS
    <2> HIDE DEF plan
    <2> QED BY <1>10, <2>1, <2>2 DEF LeftNamed
<1> HIDE DEF plans, plan, sd, pos, gone
<1>13. ASSUME NEW p \in Principal, NEW d \in Domain PROVE StateOf(p)'.margin[d] = UseOf(p, d)'
    <2> DEFINE part == IF d = sd THEN MarginFor(chunk, p) ELSE 0
               rel == OrdersRelease(p, d, s)
               m == StateOf(p).margin[d]
               O == OrderUse(limit_orders, p, d)
               N == OrderUse(limit_orders', p, d)
               P == MarginUse(positions, p, d)
               Q == MarginUse(pos, p, d)
               F == MarginUse(frozen_transfers, p, d)
               L == PlanUse(settlement_plans, p, d)
               K == PlanUse(plans, p, d)
               k == <<p, s>>
    <2>1. O = N + rel /\ rel \in Nat
        BY <1>5, SeriesReleases
    <2>2. Q = P + (MarginAt(pos, k, p, d) - MarginAt(positions, k, p, d))
        <3>1. \A x : x # k /\ x[1] = p =>
                     /\ x \in DOMAIN pos <=> x \in DOMAIN positions
                     /\ x \in DOMAIN positions => pos[x].margin = positions[x].margin
            BY <1>8
        <3> HIDE DEF k
        <3> QED BY <1>2, <1>7, <3>1, MarginMoves
    <2>3. /\ MarginAt(pos, k, p, d) = 0
          /\ MarginAt(positions, k, p, d) = IF d = sd THEN MarginFor(snapshots, p) ELSE 0
        BY <1>4, <1>8 DEF MarginAt, KeysOf, sd
    <2>4. K = L + (PlanAt(plans, s, p, d) - PlanAt(settlement_plans, s, p, d))
        BY <1>2, <1>10, <1>11, PlanMoves
    <2>5. /\ PlanAt(plans, s, p, d) = IF d = sd THEN MarginFor(snapshots \ chunk, p) ELSE 0
          /\ PlanAt(settlement_plans, s, p, d) = 0
        BY <1>2, <1>10 DEF PlanAt, SettlingIn, sd
    <2>6. O \in Nat /\ P \in Nat /\ F \in Nat /\ L \in Nat
        BY <1>2, PartsType, BlocksHere DEF TypeInv
    <2>7. N \in Nat
        BY OrderUseType, BlocksNext DEF TypeInv
    <2>8. K \in Nat /\ Q \in Nat
        BY <1>7, <1>11, PlanUseType, MarginUseType
    <2>9. part \in Nat /\ Q + K = P + L - part
        <3>1. /\ MarginFor(snapshots, p) = MarginFor(chunk, p) + MarginFor(snapshots \ chunk, p)
              /\ MarginFor(chunk, p) \in Nat /\ MarginFor(snapshots \ chunk, p) \in Nat
            BY <1>9
        <3>2. CASE d = sd
            <4>1. /\ part = MarginFor(chunk, p)
                  /\ Q = P + (0 - MarginFor(snapshots, p))
                  /\ K = L + (MarginFor(snapshots \ chunk, p) - 0)
                BY <2>2, <2>3, <2>4, <2>5, <3>2
            <4> HIDE DEF part, P, Q, K, L
            <4> QED BY <2>6, <3>1, <4>1
        <3>3. CASE d # sd
            <4>1. part = 0 /\ Q = P + (0 - 0) /\ K = L + (0 - 0)
                BY <2>2, <2>3, <2>4, <2>5, <3>3
            <4> HIDE DEF part, P, Q, K, L
            <4> QED BY <2>6, <4>1
        <3> QED BY <3>2, <3>3
    <2>10. m = O + P + F + L
        BY DEF BookFits, MarginsFit, UseOf
    <2>11. UseOf(p, d)' = N + Q + F + K
        BY DEF UseOf, BeginSettlement, plans, pos
    <2>12. CASE p \notin DOMAIN account_states
        <3>1. m = 0
            BY <2>12 DEF StateOf, Empty
        <3>2. StateOf(p)'.margin[d] = 0
            BY <1>1, <2>12 DEF StateOf, Empty, Applied
        <3> HIDE DEF m, O, P, F, L, N, K, Q, part, rel
        <3>3. N + Q + F + K = 0
            BY <2>1, <2>6, <2>7, <2>8, <2>9, <2>10, <3>1
        <3> QED BY <2>11, <3>2, <3>3
    <2>13. CASE p \in DOMAIN account_states
        <3>1. /\ released[p] \in AccountState
              /\ released[p].margin[d] = Less(account_states[p].margin[d], rel)
            <4>1. account_states[p] \in AccountState
                BY <2>13 DEF TypeInv, AccountsType
            <4>2. released[p] = [account_states[p] EXCEPT !.margin =
                                    [x \in Domain |-> Less(@[x], OrdersRelease(p, x, s))]]
                BY <2>13
            <4>3. released[p] \in AccountState
                BY <2>13, ReleasedType
            <4> HIDE DEF released
            <4> QED BY <4>1, <4>2, <4>3 DEF AccountState
        <3>2. p \in DOMAIN released
            BY <2>13
        <3> HIDE DEF released
        <3>3. account_states'[p].margin[d]
                = IF d = sd THEN Less(released[p].margin[d], MarginFor(chunk, p))
                  ELSE released[p].margin[d]
            BY <1>1, <3>1, <3>2, AppliedMargin DEF sd
        <3>4. p \in DOMAIN account_states'
            BY <1>1, <3>2 DEF Applied
        <3>5. StateOf(p)'.margin[d] = IF d = sd THEN Less(Less(m, rel), part) ELSE Less(m, rel)
            BY <2>13, <3>1, <3>3, <3>4 DEF StateOf
        <3>6. d # sd => part = 0
            OBVIOUS
        <3> HIDE DEF m, O, P, F, L, N, K, Q, part, rel
        <3>7. /\ m \in Int /\ part \in Int /\ rel \in Int
              /\ m - rel >= 0 /\ (m - rel) - part >= 0 /\ N + Q + F + K = (m - rel) - part
            BY <2>1, <2>6, <2>7, <2>8, <2>9, <2>10
        <3>8. Less(m, rel) = m - rel
            BY <3>7, LessExact
        <3>9. Less(m - rel, part) = (m - rel) - part
            BY <3>7, LessExact
        <3> QED BY <2>11, <3>5, <3>6, <3>7, <3>8, <3>9
    <2> QED BY <2>12, <2>13
<1>14. MarginsFit'
    BY <1>13 DEF MarginsFit
<1>15. FiniteBook'
    <2>1. DOMAIN plans \subseteq SeriesId
        BY <1>2, <1>10 DEF BookFits, FiniteBook
    <2> QED BY <1>2, <1>7, <1>11, <2>1 DEF FiniteBook, BeginSettlement, plans, pos
<1> QED BY <1>12, <1>14, <1>15 DEF BookFits

-----------------------------------------------------------------------------
(* Accounts on the move. *)

(* Nothing is left of a settlement for a principal that is in none. *)
LEMMA OutOfSettlements ==
    ASSUME BookFits, NEW p, NEW d,
           \A s \in SeriesId : SeriesDomain[s] = d => ~InSettlement(p, s)
    PROVE  PlanUse(settlement_plans, p, d) = 0
<1> DEFINE T == SettlingIn(settlement_plans, d)
           f == Lefts(settlement_plans, p)
<1>1. IsFiniteSet(T)
    BY PlanUseType DEF BookFits, FiniteBook
<1>2. ASSUME NEW s \in T PROVE f[s] = 0
    <2> DEFINE S == {w \in settlement_plans[s].left : w.user = p}
    <2>1. s \in SeriesId /\ s \in DOMAIN settlement_plans /\ SeriesDomain[s] = d
        BY DEF SettlingIn, BookFits, FiniteBook
    <2>2. ~InSettlement(p, s)
        BY <2>1
    <2>3. S = {}
        BY <2>1, <2>2 DEF InSettlement, BookFits, LeftNamed
    <2>4. MarginFor(settlement_plans[s].left, p) = SumOver(MarginOf(S), S)
        BY MarginIsSum DEF MarginFor
    <2>5. SumOver(MarginOf(S), S) = 0
        <3> HIDE DEF S
        <3> QED BY <2>3, SumEmpty
    <2> QED BY <2>1, <2>4, <2>5 DEF Lefts
<1> HIDE DEF T, f
<1>3. SumOver(f, T) = 0
    BY <1>1, <1>2, SumZero
<1> QED BY <1>3 DEF PlanUse, f, T

LEMMA NoMargins ==
    ASSUME NEW map, NEW p, NEW d, KeysOf(map, p, d) = {} PROVE MarginUse(map, p, d) = 0
BY SumEmpty DEF MarginUse

LEMMA NoOrders ==
    ASSUME NEW orders, NEW p, NEW d, TaggedOrders(orders, p, d) = {} PROVE OrderUse(orders, p, d) = 0
BY SumEmpty DEF OrderUse

(* The orders of a domain follow the account to the other. *)
RetaggedUse(u, from, to, p, d) ==
    IF p = u /\ d = from THEN 0
    ELSE IF p = u /\ d = to
         THEN OrderUse(limit_orders, u, to) + OrderUse(limit_orders, u, from)
         ELSE OrderUse(limit_orders, p, d)

LEMMA OrdersRetagged ==
    ASSUME TypeInv, TypeInv', NEW u, NEW from \in Domain, NEW to \in Domain, from # to,
           limit_orders' = Retagged(u, from, to), NEW p, NEW d
    PROVE  OrderUse(limit_orders', p, d) = RetaggedUse(u, from, to, p, d)
<1> DEFINE new == limit_orders'
<1>1. /\ DOMAIN new = DOMAIN limit_orders
      /\ \A id \in DOMAIN limit_orders :
            /\ new[id].creator = limit_orders[id].creator
            /\ new[id].blocked = limit_orders[id].blocked
            /\ new[id].domain = IF limit_orders[id].creator = u /\ limit_orders[id].domain = from
                                THEN to ELSE limit_orders[id].domain
    BY DEF Retagged, OrdersIn, TypeInv, OrdersType, Order
<1>2. HasBlocks(limit_orders) /\ HasBlocks(new)
    BY BlocksHere, BlocksNext DEF TypeInv
<1> HIDE DEF new
<1>3. CASE p = u /\ d = from
    <2>1. TaggedOrders(new, p, d) = {}
        BY <1>1, <1>3 DEF TaggedOrders
    <2> QED BY <1>3, <2>1, NoOrders DEF RetaggedUse, new
<1>4. CASE p = u /\ d = to
    <2> DEFINE R == TaggedOrders(limit_orders, u, to)
               S == TaggedOrders(limit_orders, u, from)
               T == TaggedOrders(new, u, to)
               f == Blocks(limit_orders)
               h == Blocks(new)
    <2>1. /\ IsFiniteSet(R) /\ \A id \in R : f[id] \in Nat
          /\ IsFiniteSet(S) /\ \A id \in S : f[id] \in Nat
          /\ IsFiniteSet(T) /\ \A id \in T : h[id] \in Nat
        BY <1>2, OrderUseType
    <2>2. T = R \cup S /\ R \cap S = {} /\ \A id \in T : h[id] = f[id]
        BY <1>1 DEF TaggedOrders, Blocks
    <2> HIDE DEF R, S, T, f, h
    <2>3. \A x \in R \cup S \cup T : Term(h, T, x) = Term(f, R, x) + Term(f, S, x)
        BY <2>1, <2>2 DEF Term
    <2>4. (\A x \in R : f[x] \in Int) /\ (\A x \in S : f[x] \in Int) /\ \A x \in T : h[x] \in Int
        BY <2>1
    <2>5. SumOver(h, T) = SumOver(f, R) + SumOver(f, S)
        BY <2>1, <2>3, <2>4, SumSplit
    <2> QED BY <1>4, <2>5 DEF RetaggedUse, OrderUse, R, S, T, f, h, new
<1>5. CASE ~(p = u /\ d = from) /\ ~(p = u /\ d = to)
    <2>1. TaggedOrders(new, p, d) = TaggedOrders(limit_orders, p, d)
        BY <1>1, <1>5 DEF TaggedOrders
    <2>2. \A id \in TaggedOrders(limit_orders, p, d) : Blocks(new)[id] = Blocks(limit_orders)[id]
        BY <1>1 DEF TaggedOrders, Blocks
    <2>3. IsFiniteSet(TaggedOrders(limit_orders, p, d))
        BY <1>2, OrderUseType
    <2> QED BY <1>5, <2>1, <2>2, <2>3, SumSame DEF RetaggedUse, OrderUse, new
<1> QED BY <1>3, <1>4, <1>5

LEMMA MigrateDomainFits ==
    ASSUME "flat" \in Discipline, TypeInv, TypeInv', BookFits,
           NEW g \in Migrations, MigrateDomain(g)
    PROVE  BookFits'
<1> DEFINE u == g.user
           from == g.from
           to == g.to
<1>1. /\ u \in Principal /\ from \in Domain /\ to \in Domain /\ from # to
      /\ u \in DOMAIN account_states /\ limit_orders' = Retagged(u, from, to)
    BY MigrationAssumption DEF MigrateDomain, SomethingToMigrate
<1>2. /\ MarginUse(positions, u, from) = 0
      /\ MarginUse(frozen_transfers, u, from) = 0
      /\ PlanUse(settlement_plans, u, from) = 0
    <2>1. KeysOf(positions, u, from) = {}
        BY DEF MigrateDomain, PositionsIn, KeysOf
    <2>2. KeysOf(frozen_transfers, u, from) = {}
        <3>1. \A k \in DOMAIN frozen_transfers : k = <<k[1], k[2]>> /\ k[2] \in SeriesId
            BY DEF TypeInv, AccountsType
        <3> QED BY <3>1 DEF MigrateDomain, KeysOf
    <2>3. PlanUse(settlement_plans, u, from) = 0
        BY OutOfSettlements DEF MigrateDomain, NoPlanInTheWay
    <2> QED BY <2>1, <2>2, <2>3, NoMargins
<1>3. ASSUME NEW p \in Principal, NEW d \in Domain
      PROVE  StateOf(p)'.margin[d]
               = IF p = u /\ d = from THEN 0
                 ELSE IF p = u /\ d = to THEN StateOf(u).margin[to] + StateOf(u).margin[from]
                 ELSE StateOf(p).margin[d]
    <2>1. account_states[u] \in AccountState
        BY <1>1 DEF TypeInv, AccountsType
    <2>2. account_states' = [account_states EXCEPT ![u] = MovedDomain(@, from, to)]
        BY DEF MigrateDomain
    <2>3. p # u => StateOf(p)' = StateOf(p)
        BY <2>2 DEF StateOf
    <2>4. StateOf(u) = account_states[u] /\ StateOf(u)' = MovedDomain(account_states[u], from, to)
        BY <1>1, <2>2 DEF StateOf
    <2>5. MovedDomain(account_states[u], from, to).margin
            = [account_states[u].margin EXCEPT ![to] = @ + account_states[u].margin[from],
                                               ![from] = 0]
        BY DEF MovedDomain
    <2>6. DOMAIN account_states[u].margin = Domain
        BY <2>1 DEF AccountState
    <2> HIDE DEF u, from, to
    <2> QED BY <1>1, <2>3, <2>4, <2>5, <2>6
<1> HIDE DEF u, from, to
<1>4. ASSUME NEW p \in Principal, NEW d \in Domain PROVE StateOf(p)'.margin[d] = UseOf(p, d)'
    <2> DEFINE O(e) == OrderUse(limit_orders, p, e)
               N == OrderUse(limit_orders', p, d)
               P(e) == MarginUse(positions, p, e)
               F(e) == MarginUse(frozen_transfers, p, e)
               L(e) == PlanUse(settlement_plans, p, e)
    <2>1. N = IF p = u /\ d = from THEN 0
              ELSE IF p = u /\ d = to THEN O(to) + O(from) ELSE O(d)
        <3>1. OrderUse(limit_orders', p, d) = RetaggedUse(u, from, to, p, d)
            BY <1>1, OrdersRetagged
        <3> QED BY <3>1 DEF RetaggedUse
    <2>2. \A e \in Domain : O(e) \in Nat /\ P(e) \in Nat /\ F(e) \in Nat /\ L(e) \in Nat
        BY PartsType, BlocksHere DEF TypeInv, BookFits, FiniteBook
    <2>3. \A e \in Domain : StateOf(p).margin[e] = O(e) + P(e) + F(e) + L(e)
        BY DEF BookFits, MarginsFit, UseOf
    <2>4. UseOf(p, d)' = N + P(d) + F(d) + L(d)
        BY DEF UseOf, MigrateDomain
    <2>5. p = u => P(from) = 0 /\ F(from) = 0 /\ L(from) = 0
        BY <1>2
    <2>6. StateOf(p)'.margin[d]
            = IF p = u /\ d = from THEN 0
              ELSE IF p = u /\ d = to THEN StateOf(p).margin[to] + StateOf(p).margin[from]
              ELSE StateOf(p).margin[d]
        BY <1>3
    <2> HIDE DEF O, N, P, F, L
    <2>7. CASE p = u /\ d = from
        BY <2>1, <2>4, <2>5, <2>6, <2>7
    <2>8. CASE p = u /\ d = to
        <3>1. d # from
            BY <1>1, <2>8
        <3>2. StateOf(p)'.margin[d] = (O(to) + P(to) + F(to) + L(to)) + O(from)
            BY <1>1, <2>2, <2>3, <2>5, <2>6, <2>8, <3>1
        <3>3. UseOf(p, d)' = (O(to) + O(from)) + P(to) + F(to) + L(to)
            BY <2>1, <2>4, <2>8, <3>1
        <3> QED BY <1>1, <2>2, <3>2, <3>3
    <2>9. CASE ~(p = u /\ d = from) /\ ~(p = u /\ d = to)
        BY <2>1, <2>3, <2>4, <2>6, <2>9
    <2> QED BY <2>7, <2>8, <2>9
<1>5. MarginsFit'
    BY <1>4 DEF MarginsFit
<1> QED BY <1>5 DEF MigrateDomain, BookFits, FiniteBook, LeftNamed

LEMMA BeginReassignFits ==
    ASSUME TypeInv, TypeInv', BookFits, NEW c, NEW m \in Move, BeginReassign(c, m) PROVE BookFits'
<1> DEFINE old == m.old
           new == m.new
           pos == positions'
           moved == [k \in DOMAIN positions |->
                        IF k[1] = old THEN <<new, k[2]>> ELSE k]
<1>1. /\ old # new /\ old \in DOMAIN account_states
      /\ Quiet(old) /\ Quiet(new) /\ NoInFlightPlans(old) /\ NoInFlightPlans(new)
      /\ StateOf(new) = Empty /\ \A k \in DOMAIN positions : k[1] # new
    BY DEF BeginReassign, MayReassign, HasClearingState
<1>2. old \in Principal /\ new \in Principal
    BY MoveKinds
<1>3. \A k \in DOMAIN positions : k = <<k[1], k[2]>>
    BY DEF TypeInv, AccountsType
<1>4. /\ DOMAIN pos = {<<IF x[1] = old THEN new ELSE x[1], x[2]>> : x \in DOMAIN positions}
      /\ \A k \in DOMAIN pos : pos[k] = IF k[1] = new THEN positions[<<old, k[2]>>]
                                                    ELSE positions[k]
    BY DEF BeginReassign, Rekey
<1>5. /\ DOMAIN pos = {moved[k] : k \in DOMAIN positions}
      /\ \A k \in DOMAIN positions : k[1] = old => pos[<<new, k[2]>>] = positions[k]
      /\ \A k \in DOMAIN pos : k[1] # old
      /\ \A k : k[1] \notin {old, new} =>
                    /\ k \in DOMAIN pos <=> k \in DOMAIN positions
                    /\ k \in DOMAIN positions => pos[k] = positions[k]
    <2>1. \A k \in DOMAIN positions : moved[k] = <<IF k[1] = old THEN new ELSE k[1], k[2]>>
        BY <1>3
    <2>2. \A k \in DOMAIN positions : moved[k] \in DOMAIN pos
        BY <1>4, <2>1
    <2>3. \A k \in DOMAIN pos : \E x \in DOMAIN positions : k = moved[x]
        BY ZenonT(30), <1>4, <2>1
    <2>4. \A k \in DOMAIN positions : k[1] = old => pos[<<new, k[2]>>] = positions[k]
        BY <1>3, <1>4, <2>2
    <2>5. \A k \in DOMAIN pos : k[1] # old
        BY <1>1, <2>1, <2>3
    <2>6. ASSUME NEW k, k[1] \notin {old, new}
          PROVE  /\ k \in DOMAIN pos <=> k \in DOMAIN positions
                 /\ k \in DOMAIN positions => pos[k] = positions[k]
        <3>1. k \in DOMAIN positions => k \in DOMAIN pos /\ pos[k] = positions[k]
            BY <1>4, <2>2, <2>6
        <3>2. k \in DOMAIN pos => k \in DOMAIN positions
            BY <2>3, <2>6
        <3> QED BY <3>1, <3>2
    <2> HIDE DEF moved, pos
    <2> QED BY <2>2, <2>3, <2>4, <2>5, <2>6
<1>6. HasMargins(positions) /\ HasMargins(frozen_transfers) /\ HasLefts(settlement_plans)
    BY DEF BookFits, FiniteBook
<1>7. HasMargins(pos)
    <2>1. moved \in Surjection(DOMAIN positions, DOMAIN pos)
        <3> HIDE DEF pos
        <3> QED BY <1>5 DEF Surjection
    <2>2. IsFiniteSet(DOMAIN pos)
        <3> DEFINE A == DOMAIN positions
                   B == DOMAIN pos
        <3>1. IsFiniteSet(A) /\ moved \in Surjection(A, B)
            BY <1>6, <2>1 DEF HasMargins
        <3> HIDE DEF A, B, moved
        <3>2. IsFiniteSet(B)
            BY <3>1, FS_Surjection
        <3> QED BY <3>2 DEF B
    <2> QED BY <2>2, FiniteMargins DEF TypeInv
<1>8. account_states' = Put(Without(account_states, {old}), new, account_states[old])
    BY DEF BeginReassign, Rekey
<1>9. /\ StateOf(new)' = StateOf(old) /\ StateOf(old)' = Empty
      /\ \A p : p \notin {old, new} => StateOf(p)' = StateOf(p)
    <2>1. DOMAIN Without(account_states, {old}) = DOMAIN account_states \ {old}
        BY WithoutMap
    <2>2. \A p \in DOMAIN account_states \ {old} :
              Without(account_states, {old})[p] = account_states[p]
        BY WithoutMap
    <2>3. /\ DOMAIN account_states' = (DOMAIN account_states \ {old}) \cup {new}
          /\ account_states'[new] = account_states[old]
          /\ \A p \in DOMAIN account_states \ {old} :
                p # new => account_states'[p] = account_states[p]
        BY <1>8, <2>1, <2>2 DEF Put
    <2> HIDE DEF old, new
    <2> QED BY <1>1, <2>3 DEF StateOf
<1> HIDE DEF moved, pos
<1>10. ASSUME NEW p \in {old, new}, NEW d
       PROVE  /\ OrderUse(limit_orders, p, d) = 0 /\ MarginUse(frozen_transfers, p, d) = 0
              /\ PlanUse(settlement_plans, p, d) = 0
    <2>1. TaggedOrders(limit_orders, p, d) = {} /\ KeysOf(frozen_transfers, p, d) = {}
        BY <1>1 DEF Quiet, TaggedOrders, KeysOf
    <2>2. PlanUse(settlement_plans, p, d) = 0
        BY <1>1, OutOfSettlements DEF NoInFlightPlans
    <2> QED BY <2>1, <2>2, NoOrders, NoMargins
<1>11. ASSUME NEW d PROVE MarginUse(pos, new, d) = MarginUse(positions, old, d)
    <2> DEFINE S == KeysOf(positions, old, d)
               T == KeysOf(pos, new, d)
               f == Margins(positions)
               g == Margins(pos)
               b == [k \in S |-> <<new, k[2]>>]
    <2>1. IsFiniteSet(S) /\ \A k \in S : f[k] \in Int
        BY <1>6, MarginUseType
    <2>2. \A k \in S : /\ <<new, k[2]>> \in T /\ g[<<new, k[2]>>] = f[k]
        <3> SUFFICES ASSUME NEW k \in S PROVE <<new, k[2]>> \in T /\ g[<<new, k[2]>>] = f[k]
            OBVIOUS
        <3>1. k \in DOMAIN positions /\ k[1] = old /\ SeriesDomain[k[2]] = d
            BY DEF KeysOf
        <3>2. <<new, k[2]>> \in DOMAIN pos /\ pos[<<new, k[2]>>] = positions[k]
            BY <1>5, <3>1 DEF moved
        <3> QED BY <3>1, <3>2 DEF KeysOf, Margins
    <2>3. \A x \in S, y \in S : b[x] = b[y] => x = y
        BY <1>3 DEF KeysOf
    <2>4. ASSUME NEW y \in T PROVE \E x \in S : b[x] = y
        <3>1. y \in DOMAIN pos /\ y[1] = new /\ SeriesDomain[y[2]] = d
            BY DEF KeysOf
        <3>2. PICK x \in DOMAIN positions : y = moved[x]
            BY <1>5, <3>1
        <3>3. x[1] = old /\ y = <<new, x[2]>>
            BY <1>1, <1>3, <3>1, <3>2 DEF moved
        <3>4. x \in S
            BY <3>1, <3>3 DEF KeysOf
        <3> QED BY <3>3, <3>4
    <2>5. \A x \in S : b[x] \in T /\ g[b[x]] = f[x]
        BY <2>2
    <2>6. Renames(b, f, S, g, T)
        BY <2>3, <2>4, <2>5 DEF Renames
    <2> HIDE DEF S, T, f, g, b
    <2>7. SumOver(f, S) = SumOver(g, T)
        BY <2>1, <2>6, SumRenamed
    <2> QED BY <2>7 DEF MarginUse, S, T, f, g
<1>12. UNCHANGED <<limit_orders, frozen_transfers, settlement_plans>>
    BY DEF BeginReassign
<1>13. ASSUME NEW p \in Principal, NEW d \in Domain PROVE StateOf(p)'.margin[d] = UseOf(p, d)'
    <2>1. UseOf(p, d)' = OrderUse(limit_orders, p, d) + MarginUse(pos, p, d)
            + MarginUse(frozen_transfers, p, d) + PlanUse(settlement_plans, p, d)
        BY <1>12 DEF UseOf, pos
    <2>2. \A q \in Principal : StateOf(q).margin[d] = UseOf(q, d)
        BY DEF BookFits, MarginsFit
    <2>3. CASE p = old
        <3>1. KeysOf(pos, old, d) = {}
            BY <1>5 DEF KeysOf
        <3>2. MarginUse(pos, old, d) = 0
            BY <3>1, NoMargins
        <3> QED BY <1>9, <1>10, <2>1, <2>3, <3>2 DEF Empty
    <2>4. CASE p = new
        <3>1. UseOf(old, d) = 0 + MarginUse(positions, old, d) + 0 + 0
            BY <1>10 DEF UseOf
        <3>2. UseOf(p, d)' = 0 + MarginUse(positions, old, d) + 0 + 0
            BY <1>10, <1>11, <2>1, <2>4
        <3>3. StateOf(p)'.margin[d] = StateOf(old).margin[d]
            BY <1>9, <2>4
        <3> QED BY <1>2, <2>2, <3>1, <3>2, <3>3
    <2>5. CASE p \notin {old, new}
        <3>1. MarginUse(pos, p, d) = MarginUse(positions, p, d)
            <4>1. \A x : x[1] = p => /\ x \in DOMAIN pos <=> x \in DOMAIN positions
                                     /\ x \in DOMAIN positions => pos[x].margin = positions[x].margin
                BY <1>5, <2>5
            <4> QED BY <1>6, <1>7, <4>1, MarginSame
        <3>2. UseOf(p, d)' = UseOf(p, d)
            BY <2>1, <3>1 DEF UseOf
        <3> QED BY <1>9, <2>2, <2>5, <3>2
    <2> QED BY <2>3, <2>4, <2>5
<1>14. MarginsFit'
    BY <1>13 DEF MarginsFit
<1> QED BY <1>7, <1>12, <1>14 DEF BookFits, FiniteBook, LeftNamed, pos

-----------------------------------------------------------------------------
(* Every step. *)

LEMMA LimitIdsKept ==
    ASSUME LimitIds, DOMAIN limit_orders' \subseteq DOMAIN limit_orders,
           \A c \in CallId : call'[c] = call[c] \/ ~IsLimit(call'[c])
    PROVE  LimitIds'
BY DEF LimitIds, IsLimit

LEMMA BeginMatchedIds ==
    ASSUME TypeInv, LimitIds, NEW c \in CallId, NEW r, BeginMatched(c, r) PROVE LimitIds'
<1>1. call'[c].op = "matched" /\ \A x \in CallId : x # c => call'[x] = call[x]
    BY DEF BeginMatched, TypeInv, CallType
<1>2. limit_orders' = limit_orders
    BY DEF BeginMatched, book
<1> QED BY <1>1, <1>2, LimitIdsKept DEF IsLimit

LEMMA BeginOrderIds ==
    ASSUME "own_order_ids" \in Discipline, TypeInv, NEW c \in CallId, NEW r, BeginOrder(c, r)
    PROVE  LimitIds'
<1>1. /\ \A x \in CallId : x # c => call'[x] = call[x]
      /\ call'[c].op = r.op /\ call'[c].req = r
      /\ \A x \in CallId : ~IsLimit(call[x])
    BY DEF BeginOrder, TypeInv, CallType, IsLimit
<1>2. r.op = "limit" => r.id \notin DOMAIN limit_orders
    BY DEF BeginOrder
<1>3. limit_orders' = limit_orders
    BY DEF BeginOrder, book
<1> QED BY <1>1, <1>2, <1>3 DEF LimitIds, IsLimit

LEMMA FinishOrderIds ==
    ASSUME TypeInv, LimitIds, NEW c \in CallId, FinishOrder(c) PROVE LimitIds'
<1>1. call'[c] = None /\ \A x \in CallId : x # c => call'[x] = call[x]
    BY DEF FinishOrder, Return, TypeInv, CallType
<1>2. CASE call[c].op = "limit"
    <2>1. \A x \in CallId : ~IsLimit(call'[x])
        BY <1>1, <1>2 DEF LimitIds, IsLimit, FinishOrder
    <2> QED BY <2>1 DEF LimitIds, IsLimit
<1>3. CASE call[c].op # "limit"
    <2>1. limit_orders' = Without(limit_orders, {call[c].req.id})
        BY <1>3 DEF FinishOrder, FillOrder
    <2>2. DOMAIN limit_orders' \subseteq DOMAIN limit_orders
        BY <2>1, WithoutSome
    <2> QED BY <1>1, <2>2, LimitIdsKept DEF IsLimit
<1> QED BY <1>2, <1>3

LEMMA FinishOrderFits ==
    ASSUME "no_migrated_fills" \in Discipline, DomainInv, TypeInv',
           NEW c \in CallId, FinishOrder(c)
    PROVE  BookFits'
<1>1. /\ call[c].req \in Request /\ call[c].user \in Principal
      /\ call[c].req.op = call[c].op
    BY OrderCallOf DEF FinishOrder, DomainInv, TypeInv
<1>2. UNCHANGED <<frozen_transfers, settlement_plans>>
    BY DEF FinishOrder
<1>3. CASE call[c].op = "limit" /\ PlaceOrder(call[c].user, call[c].req)
    <2>1. call[c].req.id \notin DOMAIN limit_orders
        BY <1>3 DEF DomainInv, LimitIds, IsLimit, FinishOrder
    <2> QED BY <1>1, <1>2, <1>3, <2>1, PlaceOrderFits DEF DomainInv
<1>4. CASE FillOrder(call[c].user, call[c].req, call[c].seen)
    BY <1>1, <1>2, <1>4, FillOrderFits DEF DomainInv
<1> QED BY <1>3, <1>4 DEF FinishOrder

(* Tokens in and out leave the margin alone. *)
LEMMA CustodyFits ==
    ASSUME TypeInv, BookFits,
           \/ \E r \in Request : r.op = "deposit" /\ BeginDeposit(r)
           \/ \E r \in Request : r.op = "withdraw" /\ BeginWithdrawal(r)
           \/ \E p \in Principal : \/ \E id \in DepositId : DepositSettled(p, id)
                                   \/ \E id \in WithdrawalId : WithdrawalAnswered(p, id)
    PROVE  BookFits'
<1>1. UNCHANGED <<positions, limit_orders, frozen_transfers, settlement_plans>>
    BY DEF BeginDeposit, book, BeginWithdrawal, DepositSettled, WithdrawalAnswered
<1>2. ASSUME NEW p \in Principal, NEW state, state.margin = StateOf(p).margin,
             account_states' = Put(account_states, p, state)
      PROVE  \A q : StateOf(q).margin' = StateOf(q).margin
    <2>1. StateOf(p)' = state /\ \A q : q # p => StateOf(q)' = StateOf(q)
        BY <1>2, StatePut
    <2> QED BY <1>2, <2>1
<1>3. CASE UNCHANGED account_states
    BY <1>1, <1>3, MarginsUntouched DEF StateOf
<1>4. ASSUME NEW p \in Principal, NEW d, NEW a,
             account_states' = Put(account_states, p, [StateOf(p) EXCEPT !.balances[d][a] = @ + 1])
      PROVE  BookFits'
    <2> DEFINE state == [StateOf(p) EXCEPT !.balances[d][a] = @ + 1]
    <2>1. state.margin = StateOf(p).margin
        BY StateType DEF TypeInv, AccountState
    <2>2. account_states' = Put(account_states, p, state)
        BY <1>4
    <2> HIDE DEF state
    <2>3. \A q : StateOf(q).margin' = StateOf(q).margin
        BY <1>2, <2>1, <2>2
    <2> QED BY <1>1, <2>3, MarginsUntouched
<1>5. ASSUME NEW p \in DOMAIN account_states, NEW d, NEW a,
             account_states' = [account_states EXCEPT ![p] = Debited(@, d, a)]
      PROVE  BookFits'
    <2>1. Debited(account_states[p], d, a).margin = account_states[p].margin
        BY DEF Debited, TypeInv, AccountsType, AccountState
    <2>2. \A q : StateOf(q).margin' = StateOf(q).margin
        BY <1>5, <2>1 DEF StateOf
    <2> QED BY <1>1, <2>2, MarginsUntouched
<1>6. CASE \E r \in Request : r.op = "deposit" /\ BeginDeposit(r)
    BY <1>3, <1>6 DEF BeginDeposit, book
<1>7. CASE \E r \in Request : r.op = "withdraw" /\ BeginWithdrawal(r)
    BY <1>3, <1>5, <1>7 DEF BeginWithdrawal, WithdrawalCovered
<1>8. CASE \E p \in Principal, id \in DepositId : DepositSettled(p, id)
    <2>1. PICK p \in Principal, id \in DepositId : DepositSettled(p, id)
        BY <1>8
    <2> DEFINE plan == custody_plans[<<p, id>>]
    <2>2. account_states' = Put(account_states, p,
              [StateOf(p) EXCEPT !.balances[plan.domain][plan.asset] = @ + 1])
        BY <2>1 DEF DepositSettled
    <2> QED BY <1>4, <2>2
<1>9. CASE \E p \in Principal, id \in WithdrawalId : WithdrawalAnswered(p, id)
    <2>1. PICK p \in Principal, id \in WithdrawalId : WithdrawalAnswered(p, id)
        BY <1>9
    <2> DEFINE plan == custody_plans[<<p, id>>]
    <2>2. \/ UNCHANGED account_states
          \/ account_states' = Put(account_states, p,
                [StateOf(p) EXCEPT !.balances[plan.domain][plan.asset] = @ + 1])
        BY <2>1 DEF WithdrawalAnswered
    <2> QED BY <1>3, <1>4, <2>2
<1> QED BY <1>6, <1>7, <1>8, <1>9

LEMMA BookUnchanged == ASSUME BookFits, UNCHANGED book PROVE BookFits'
BY MarginsUntouched DEF book, StateOf

(* A reassignment under way suspends no order. *)
LEMMA SweepIds ==
    ASSUME TypeInv, LimitIds, ReassignmentNext PROVE LimitIds'
<1>1. limit_orders' = limit_orders
    BY DEF ReassignmentNext, SweepStep, BeginReassign, ResumeReassign, BalanceRead, Transferred,
       SweepMoved, SweepFailed, SweepTimesOut, LateTransfer, Upgrade, book
<1> DEFINE Alone == \A x \in CallId : call'[x] = call[x] \/ ~IsLimit(call'[x])
<1> SUFFICES Alone
    BY <1>1, LimitIdsKept
<1>2. ASSUME NEW c, \/ call' = [call EXCEPT ![c] = None]
                    \/ \E k : k.op = "sweep" /\ call' = [call EXCEPT ![c] = k]
      PROVE  Alone
    BY <1>2 DEF IsLimit, TypeInv, CallType
<1>3. ASSUME NEW c, NEW m, NEW plan, NEW marked, Continue(c, m, plan, marked) PROVE Alone
    <2>1. CASE call' = [call EXCEPT ![c] = None]
        BY <1>2, <2>1
    <2>2. CASE \E a : call' = [call EXCEPT ![c] = Sweep(m, plan, a, "balance", 0)]
        BY <1>2, <2>2 DEF Sweep
    <2> QED BY <1>3, <2>1, <2>2 DEF Continue, Return
<1>4. ASSUME NEW c \in CallId, NEW stage, AtStage(c, stage)
      PROVE  \E S \in SUBSET Asset : call[c] \in SweepOver(S)
    BY <1>4 DEF AtStage, TypeInv, CallType, CallOK, OrderCall, MatchedCall
<1>5. CASE \E c \in AdminCallId, m \in Move : BeginReassign(c, m) \/ ResumeReassign(c, m)
    BY <1>3, <1>5 DEF BeginReassign, ResumeReassign
<1>6. CASE \E c \in AdminCallId : BalanceRead(c) \/ Transferred(c)
    <2>1. PICK c \in CallId : BalanceRead(c) \/ Transferred(c)
        BY <1>6 DEF CallId
    <2>2. call[c].op = "sweep" /\ \E S \in SUBSET Asset : call[c] \in SweepOver(S)
        BY <1>4, <2>1 DEF BalanceRead, Transferred, AtStage
    <2>3. CASE \E m, plan, marked : Continue(c, m, plan, marked)
        BY <1>3, <2>3
    <2>4. CASE \E stage, amount :
              call' = [call EXCEPT ![c] = [@ EXCEPT !.stage = stage, !.amount = amount]]
        <3>1. PICK stage, amount :
                  call' = [call EXCEPT ![c] = [@ EXCEPT !.stage = stage, !.amount = amount]]
            BY <2>4
        <3> DEFINE k == [call[c] EXCEPT !.stage = stage, !.amount = amount]
        <3>2. k.op = "sweep" /\ call' = [call EXCEPT ![c] = k]
            BY <2>2, <3>1 DEF SweepOver
        <3> HIDE DEF k
        <3> QED BY <1>2, <3>2
    <2>5. CASE call' = [call EXCEPT ![c].stage = "ok"]
        <3> DEFINE k == [call[c] EXCEPT !.stage = "ok"]
        <3>1. k.op = "sweep" /\ call' = [call EXCEPT ![c] = k]
            BY <2>2, <2>5 DEF SweepOver
        <3> HIDE DEF k
        <3> QED BY <1>2, <3>1
    <2> QED BY <2>1, <2>3, <2>4, <2>5 DEF BalanceRead, Transferred
<1>7. CASE \E c \in AdminCallId : SweepMoved(c)
    BY <1>3, <1>7 DEF SweepMoved
<1>8. CASE \E c \in AdminCallId : SweepFailed(c) \/ SweepTimesOut(c)
    BY <1>2, <1>8 DEF SweepFailed, SweepTimesOut, Return
<1>9. CASE (\E t \in late : LateTransfer(t)) \/ Upgrade
    BY <1>9 DEF LateTransfer, Upgrade, IsLimit
<1> QED BY <1>5, <1>6, <1>7, <1>8, <1>9 DEF ReassignmentNext, SweepStep

LEMMA DomainStep ==
    ASSUME {"flat", "no_migrated_fills", "own_order_ids"} \subseteq Discipline,
           DomainInv, [Next]_vars
    PROVE  DomainInv'
<1>1. TypeInv'
    BY TypeStep DEF DomainInv
<1>2. TypeInv /\ LimitIds /\ BookFits
    BY DEF DomainInv
<1>3. CASE UNCHANGED vars
    <2>1. BookFits'
        BY <1>2, <1>3, BookUnchanged DEF vars
    <2>2. LimitIds'
        BY <1>2, <1>3, LimitIdsKept DEF vars, book
    <2> QED BY <1>1, <2>1, <2>2 DEF DomainInv
<1>4. CASE AccountsNext
    <2>1. BookFits'
        <3>1. CASE \E c \in UserCallId :
                        RefuseOrder(c) \/ \E r \in Request : BeginOrder(c, r) \/ BeginMatched(c, r)
            BY <1>2, <3>1, BookUnchanged DEF RefuseOrder, BeginOrder, BeginMatched
        <3>2. CASE \E c \in UserCallId : FinishOrder(c) \/ FinishMatched(c)
            BY <1>1, <1>2, <3>2, FinishOrderFits, FinishMatchedFits DEF CallId
        <3>3. CASE \/ \E r \in Request : \/ r.op = "deposit" /\ BeginDeposit(r)
                                         \/ r.op = "withdraw" /\ BeginWithdrawal(r)
                   \/ \E p \in Principal : \/ \E id \in DepositId : DepositSettled(p, id)
                                           \/ \E id \in WithdrawalId : WithdrawalAnswered(p, id)
            BY <1>2, <3>3, CustodyFits
        <3> QED BY <1>1, <1>2, <1>4, <3>1, <3>2, <3>3, FreezePositionFits,
               BeginSettlementFits, CancelOrderFits, ApplySettlementFits DEF AccountsNext, Respond
    <2>2. LimitIds'
        <3>1. CASE \E c \in UserCallId, r \in Request : BeginOrder(c, r)
            BY <1>2, <3>1, BeginOrderIds DEF CallId
        <3>2. CASE \E c \in UserCallId : FinishOrder(c)
            BY <1>2, <3>2, FinishOrderIds DEF CallId
        <3>3. CASE \E c \in UserCallId : RefuseOrder(c) \/ FinishMatched(c)
            <4>1. limit_orders' = limit_orders /\ \E c : call' = [call EXCEPT ![c] = None]
                BY <3>3 DEF RefuseOrder, FinishMatched, Return, book
            <4>2. \A x \in CallId : call'[x] = call[x] \/ call'[x] = None
                BY <1>2, <4>1 DEF TypeInv, CallType
            <4> QED BY <1>2, <4>1, <4>2, LimitIdsKept DEF IsLimit
        <3>4. CASE UNCHANGED <<call, limit_orders>>
            BY <1>2, <3>4, LimitIdsKept
        <3>5. CASE \E id \in OrderId : CancelOrder(id)
            <4>1. PICK id : call' = call /\ limit_orders' = Without(limit_orders, {id})
                BY <3>5 DEF CancelOrder
            <4>2. DOMAIN limit_orders' \subseteq DOMAIN limit_orders
                BY <4>1, WithoutSome
            <4> QED BY <1>2, <4>1, <4>2, LimitIdsKept
        <3>6. CASE \E r \in Request : BeginSettlement(r)
            BY <1>2, <3>6, LimitIdsKept DEF BeginSettlement, Restrict
        <3>7. CASE \E c \in UserCallId, r \in Request : BeginMatched(c, r)
            BY <1>2, <3>7, BeginMatchedIds DEF CallId
        <3>8. \/ \E c \in UserCallId, r \in Request : BeginOrder(c, r) \/ BeginMatched(c, r)
              \/ \E c \in UserCallId : FinishOrder(c) \/ FinishMatched(c) \/ RefuseOrder(c)
              \/ UNCHANGED <<call, limit_orders>>
              \/ \E id \in OrderId : CancelOrder(id)
              \/ \E r \in Request : BeginSettlement(r)
            BY ZenonT(30), <1>4 DEF AccountsNext, Respond, BeginDeposit, BeginWithdrawal,
               FreezePosition, DepositSettled, WithdrawalAnswered, ApplySettlement, book
        <3> QED BY <3>1, <3>2, <3>3, <3>4, <3>5, <3>6, <3>7, <3>8
    <2> QED BY <1>1, <2>1, <2>2 DEF DomainInv
<1>5. CASE ReassignmentNext
    <2>1. LimitIds'
        BY <1>2, <1>5, SweepIds
    <2>2. CASE \E c \in AdminCallId, m \in Move : BeginReassign(c, m)
        BY <1>1, <1>2, <2>1, <2>2, BeginReassignFits DEF DomainInv
    <2>3. CASE UNCHANGED book
        BY <1>1, <1>2, <2>1, <2>3, BookUnchanged DEF DomainInv
    <2> QED BY <1>5, <2>2, <2>3 DEF ReassignmentNext, SweepStep, ResumeReassign, BalanceRead,
           Transferred, SweepMoved, SweepFailed, SweepTimesOut, LateTransfer, Upgrade
<1>6. CASE MigrationNext
    <2>1. PICK g \in Migrations : MigrateDomain(g) \/ RefuseMigration(g)
        BY <1>6 DEF MigrationNext
    <2>2. BookFits'
        BY <1>1, <1>2, <2>1, MigrateDomainFits, BookUnchanged DEF RefuseMigration
    <2>3. LimitIds'
        BY <1>2, <2>1, LimitIdsKept DEF MigrateDomain, RefuseMigration, Retagged, book
    <2> QED BY <1>1, <2>2, <2>3 DEF DomainInv
<1> QED BY <1>3, <1>4, <1>5, <1>6 DEF Next

LEMMA DomainInit == Init => DomainInv
<1> SUFFICES ASSUME Init PROVE DomainInv
    OBVIOUS
<1>1. /\ DOMAIN positions = {} /\ DOMAIN limit_orders = {} /\ DOMAIN frozen_transfers = {}
      /\ DOMAIN settlement_plans = {} /\ \A c \in CallId : call[c] = None
    BY DEF Init, EmptyMap
<1>2. FiniteBook /\ LeftNamed /\ LimitIds
    BY <1>1, FS_EmptySet DEF FiniteBook, HasMargins, HasLefts, LeftNamed, LimitIds, IsLimit
<1>3. ASSUME NEW p \in Principal, NEW d \in Domain PROVE StateOf(p).margin[d] = UseOf(p, d)
    <2>1. /\ KeysOf(positions, p, d) = {} /\ KeysOf(frozen_transfers, p, d) = {}
          /\ TaggedOrders(limit_orders, p, d) = {} /\ SettlingIn(settlement_plans, d) = {}
        BY <1>1 DEF KeysOf, TaggedOrders, SettlingIn
    <2>2. UseOf(p, d) = 0 + 0 + 0 + 0
        BY <2>1, NoMargins, NoOrders, SumEmpty DEF UseOf, PlanUse
    <2>3. StateOf(p).margin[d] = 0
        BY DEF Init, StateOf, Opened, Empty
    <2> QED BY <2>2, <2>3
<1> QED BY <1>2, <1>3, TypeInit DEF DomainInv, BookFits, MarginsFit

(* The margin an account reserves in a domain is what its orders and
   positions there need, frozen ones and those of settlements under way
   included: through trades, fills, cancellations, settlements in chunks,
   migrations and reassignments, and whatever is suspended across them,
   provided users migrate a domain without positions in it, migrated orders
   are not filled, and no two orders are placed under one id at once.
   (migrate_domain_impl, cancel_limit_order, settle_series_inner) *)
THEOREM MarginInDomainHolds ==
    {"flat", "no_migrated_fills", "own_order_ids"} \subseteq Discipline
        => (Spec => []MarginInDomain)
<1> SUFFICES ASSUME {"flat", "no_migrated_fills", "own_order_ids"} \subseteq Discipline
             PROVE  Spec => []MarginInDomain
    OBVIOUS
<1>1. Init => DomainInv
    BY DomainInit
<1>2. DomainInv /\ [Next]_vars => DomainInv'
    BY DomainStep
<1>3. DomainInv => MarginInDomain
    BY UseIs DEF DomainInv, BookFits, MarginsFit, MarginInDomain
<1> QED BY <1>1, <1>2, <1>3, PTL DEF Spec

-----------------------------------------------------------------------------
(* What a reassignment promises, and where the tokens are meanwhile: an
   account passes whole, and at rest it is covered by the tokens in its
   subaccounts, but for the ledger's fees. *)

(* A plan is pending while some asset is not drained. *)
PendingUnswept ==
    \A k \in DOMAIN reassignment_plans :
        Pending(reassignment_plans[k]) <=> Unswept(reassignment_plans[k]) # {}

(* A call sweeps an asset that is not drained; once the ledger has been asked
   for a balance, no more than a fee remains beside the amount, and after the
   transfer no more than a fee. *)
SweepsDrain ==
    \A c \in CallId : \A k \in {call[c]} : IsSweep(k) =>
        /\ k.asset \in Unswept(k.plan)
        /\ k.stage = "transfer" => custody[k.move.old][k.asset] <= k.amount + Fee
        /\ k.stage = "ok" => custody[k.move.old][k.asset] <= Fee

(* in_order: a transfer nobody waits for is of a pending plan, of an asset that
   is not drained, and no call of that plan is past its balance. *)
LateInTransit ==
    \A t \in late :
        /\ PlanKey(t.move) \in PendingKeys
        /\ reassignment_plans[PlanKey(t.move)].new_owner = t.move.new
        /\ t.asset \in Unswept(reassignment_plans[PlanKey(t.move)])
        /\ custody[t.move.old][t.asset] <= t.amount + Fee
        /\ \A c \in CallId : \A k \in {call[c]} :
              IsSweep(k) /\ PlanKey(k.move) = PlanKey(t.move) => k.stage = "balance"

(* Nobody owns nothing: an account is told from a missing one. *)
OwnersNamed == \A p \in DOMAIN account_states : Owns(p) # Nobody

TransitInv == LockInv /\ MatchesRested /\ PendingUnswept /\ SweepsDrain /\ LateInTransit /\ OwnersNamed

-----------------------------------------------------------------------------
(* The withdrawals that have taken a token of p out of its balance and not
   yet out of its subaccount. *)
Reserving(p, a) ==
    {k \in DOMAIN custody_plans :
        /\ k[1] = p /\ custody_plans[k].asset = a
        /\ custody_plans[k].reserved /\ custody_plans[k].status = "Executing"}

FiniteStores == IsFiniteSet(DOMAIN custody_plans) /\ IsFiniteSet(DOMAIN reassignment_plans)

ReservedOnce ==
    \A k \in DOMAIN custody_plans : custody_plans[k].reserved => k[2] \in WithdrawalId

FinishedMoves == {k \in DOMAIN reassignment_plans : ~Pending(reassignment_plans[k])}

PaidOut ==
    {k \in DOMAIN custody_plans : k[2] \in WithdrawalId /\ custody_plans[k].status = "Finalised"}

Charged == Fee * FeesPaid

(* The tokens of a principal at rest are in its subaccounts. *)
CoveredAtRest ==
    \A p \in Principal, a \in Asset : ~marks[p].locked =>
        Held(p, a) + Cardinality(Reserving(p, a)) <= custody[p][a] + Charged

(* Those of an account on its way are in either place, but for a fee. *)
AtLeastFee(x) == IF x < Fee THEN Fee ELSE x

CoveredInTransit ==
    \A k \in PendingKeys, a \in Asset : \A q \in {reassignment_plans[k].new_owner} :
        /\ Held(q, a) <= custody[q][a] + AtLeastFee(custody[k[1]][a]) + Charged
        /\ a \notin Unswept(reassignment_plans[k]) => Held(q, a) = 0 \/ custody[k[1]][a] <= Fee

CustodyInv == TransitInv /\ FiniteStores /\ ReservedOnce /\ CoveredAtRest /\ CoveredInTransit

-----------------------------------------------------------------------------
(* Nobody is told from an account by its value. *)
LEMMA OwnersAreNamed == TypeInv => OwnersNamed
<1> SUFFICES ASSUME TypeInv, NEW p \in DOMAIN account_states PROVE Owns(p) # Nobody
    BY DEF OwnersNamed
<1>1. CASE ~HasClearingState(p)
    BY <1>1, AccountMovesAssumption DEF Owns
<1>2. CASE HasClearingState(p)
    <2> DEFINE S == {r \in SeriesId : <<p, r>> \in DOMAIN positions}
               held == [s \in S |-> positions[<<p, s>>]]
    <2>1. held \in [S -> Position] /\ S \in SUBSET SeriesId
        BY DEF TypeInv, AccountsType
    <2>2. account_states[p] \in AccountState
        BY DEF TypeInv, AccountsType
    <2>3. Owns(p) = [state |-> account_states[p], positions |-> held]
        BY <1>2 DEF Owns
    <2> HIDE DEF held, S
    <2>4. held \in UNION {[T -> Position] : T \in SUBSET SeriesId}
        BY <2>1
    <2> QED BY <2>2, <2>3, <2>4, AccountMovesAssumption
<1> QED BY <1>1, <1>2

-----------------------------------------------------------------------------
(* Plans, requests and tokens on their way. *)

LEMMA TransitInit == Init => TransitInv
<1> SUFFICES ASSUME Init PROVE TransitInv
    OBVIOUS
<1>1. LockInv /\ MatchesRested
    BY LockInit, RestedInit
<1>2. PendingUnswept /\ SweepsDrain /\ LateInTransit
    BY DEF Init, EmptyMap, PendingUnswept, SweepsDrain, LateInTransit, IsSweep
<1> QED BY <1>1, <1>2, OwnersAreNamed DEF TransitInv, LockInv, BooksInv

(* A step that leaves the plans as they are, and no token in the subaccounts
   of who has handed its account over. *)
SamePlans ==
    /\ DOMAIN reassignment_plans' = DOMAIN reassignment_plans
    /\ \A k \in DOMAIN reassignment_plans : reassignment_plans'[k] = reassignment_plans[k]

Drains ==
    /\ SamePlans
    /\ \A k \in PendingKeys, a \in Asset : custody'[k[1]][a] <= custody[k[1]][a]

LEMMA DrainsAtMost ==
    ASSUME TransitInv, TypeInv', Drains, NEW k \in PendingKeys, NEW a \in Asset, NEW x \in Nat,
           custody[k[1]][a] <= x
    PROVE  custody'[k[1]][a] <= x
<1>1. k[1] \in Principal
    BY LockedParties DEF TransitInv
<1>2. custody[k[1]][a] \in Nat /\ custody'[k[1]][a] \in Nat
    BY <1>1 DEF TransitInv, LockInv, BooksInv, TypeInv, LedgerType
<1> QED BY <1>2 DEF Drains

LEMMA TransitKept ==
    ASSUME TransitInv, TypeInv', Drains, late' \subseteq late,
           \A c \in CallId : call'[c] = call[c] \/ ~IsSweep(call'[c])
    PROVE  PendingUnswept' /\ SweepsDrain' /\ LateInTransit'
<1>1. /\ SamePlans /\ PendingKeys' = PendingKeys
      /\ \A k \in PendingKeys : reassignment_plans'[k] = reassignment_plans[k]
    BY DEF Drains, SamePlans, PendingKeys
<1>2. PendingUnswept'
    BY <1>1 DEF TransitInv, PendingUnswept, SamePlans
<1>3. SweepsDrain'
    <2> SUFFICES ASSUME NEW c \in CallId, NEW k \in {call'[c]}, IsSweep(k)
                 PROVE  /\ k.asset \in Unswept(k.plan)
                        /\ k.stage = "transfer" => custody'[k.move.old][k.asset] <= k.amount + Fee
                        /\ k.stage = "ok" => custody'[k.move.old][k.asset] <= Fee
        BY DEF SweepsDrain
    <2>1. k = call[c]
        OBVIOUS
    <2>2. /\ k.asset \in Unswept(k.plan)
          /\ k.stage = "transfer" => custody[k.move.old][k.asset] <= k.amount + Fee
          /\ k.stage = "ok" => custody[k.move.old][k.asset] <= Fee
        BY <2>1 DEF TransitInv, SweepsDrain
    <2>3. PlanKey(k.move) \in PendingKeys /\ PlanKey(k.move)[1] = k.move.old
        BY <2>1, SweepLocked, MoveKinds DEF TransitInv
    <2>4. k.asset \in Asset /\ k.amount + Fee \in Nat /\ Fee \in Nat
        BY <2>1, SweepCallOf, AccountsAssumption DEF TransitInv, LockInv, BooksInv, TypeInv
    <2> QED BY <2>2, <2>3, <2>4, DrainsAtMost
<1>4. LateInTransit'
    <2> SUFFICES ASSUME NEW t \in late'
                 PROVE  /\ PlanKey(t.move) \in PendingKeys'
                        /\ reassignment_plans'[PlanKey(t.move)].new_owner = t.move.new
                        /\ t.asset \in Unswept(reassignment_plans'[PlanKey(t.move)])
                        /\ custody'[t.move.old][t.asset] <= t.amount + Fee
                        /\ \A c \in CallId : \A k \in {call'[c]} :
                              IsSweep(k) /\ PlanKey(k.move) = PlanKey(t.move) => k.stage = "balance"
        BY DEF LateInTransit
    <2>1. /\ PlanKey(t.move) \in PendingKeys
          /\ reassignment_plans[PlanKey(t.move)].new_owner = t.move.new
          /\ t.asset \in Unswept(reassignment_plans[PlanKey(t.move)])
          /\ custody[t.move.old][t.asset] <= t.amount + Fee
          /\ \A c \in CallId : \A k \in {call[c]} :
                IsSweep(k) /\ PlanKey(k.move) = PlanKey(t.move) => k.stage = "balance"
        BY DEF TransitInv, LateInTransit
    <2>2. t \in LedgerTransfer
        BY DEF TransitInv, LockInv, BooksInv, TypeInv, LedgerType
    <2>3. /\ t.asset \in Asset /\ t.amount + Fee \in Nat
          /\ PlanKey(t.move)[1] = t.move.old
        BY <2>2, MoveKinds, AccountsAssumption DEF LedgerTransfer
    <2>4. custody'[t.move.old][t.asset] <= t.amount + Fee
        BY <2>1, <2>3, DrainsAtMost
    <2> QED BY <1>1, <2>1, <2>4
<1> QED BY <1>2, <1>3, <1>4

(* The ledger's answers to users change the subaccounts of who is not locked. *)
LEMMA AnswersDrain ==
    ASSUME LockInv, NEW p \in Principal, ~marks[p].locked, NEW a, NEW x,
           custody' = [custody EXCEPT ![p][a] = x], UNCHANGED reassignment_plans
    PROVE  Drains
<1> SUFFICES ASSUME NEW k \in PendingKeys, NEW b \in Asset
             PROVE  custody'[k[1]][b] <= custody[k[1]][b]
    BY DEF Drains, SamePlans
<1>1. k[1] \in Principal /\ k[1] # p
    BY LockedParties
<1>2. custody'[k[1]][b] = custody[k[1]][b] /\ custody[k[1]][b] \in Nat
    BY <1>1 DEF LockInv, BooksInv, TypeInv, LedgerType
<1> QED BY <1>2

LEMMA StillDrains ==
    ASSUME LockInv, SamePlans, UNCHANGED custody PROVE Drains
<1> SUFFICES ASSUME NEW k \in PendingKeys, NEW b \in Asset
             PROVE  custody'[k[1]][b] <= custody[k[1]][b]
    BY DEF Drains, SamePlans
<1>1. k[1] \in Principal
    BY LockedParties
<1>2. custody'[k[1]][b] = custody[k[1]][b] /\ custody[k[1]][b] \in Nat
    BY <1>1 DEF LockInv, BooksInv, TypeInv, LedgerType
<1> QED BY <1>2

LEMMA AccountsTransit ==
    ASSUME TransitInv, TypeInv', AccountsNext \/ MigrationNext \/ UNCHANGED vars
    PROVE  Drains /\ PendingUnswept' /\ SweepsDrain' /\ LateInTransit'
<1>1. LockInv
    BY DEF TransitInv
<1>2. UNCHANGED <<reassignment_plans, late>>
    <2> DEFINE Kept == UNCHANGED <<reassignment_plans, late>>
    <2> SUFFICES Kept
        OBVIOUS
    <2>1. \A r \in Request : BeginDeposit(r) => Kept
        BY DEF BeginDeposit
    <2>2. \A r \in Request : BeginWithdrawal(r) => Kept
        BY DEF BeginWithdrawal
    <2>3. \A r \in Request : FreezePosition(r) => Kept
        BY DEF FreezePosition
    <2>4. \A r \in Request : BeginSettlement(r) => Kept
        BY DEF BeginSettlement
    <2>5. \A c \in UserCallId, r \in Request : BeginMatched(c, r) \/ BeginOrder(c, r) => Kept
        BY DEF BeginMatched, BeginOrder
    <2>6. \A id \in OrderId : CancelOrder(id) => Kept
        BY DEF CancelOrder
    <2>7. \A p \in Principal, id \in DepositId : DepositSettled(p, id) => Kept
        BY DEF DepositSettled
    <2>8. \A p \in Principal, id \in WithdrawalId : WithdrawalAnswered(p, id) => Kept
        BY DEF WithdrawalAnswered
    <2>9. \A c \in UserCallId : FinishMatched(c) \/ FinishOrder(c) \/ RefuseOrder(c) => Kept
        BY DEF FinishMatched, FinishOrder, RefuseOrder
    <2>10. \A s \in SeriesId : ApplySettlement(s) => Kept
        BY DEF ApplySettlement
    <2>11. MigrationNext => Kept
        BY DEF MigrationNext, MigrateDomain, RefuseMigration
    <2>12. UNCHANGED vars => Kept
        BY DEF vars
    <2> HIDE DEF Kept
    <2>13. AccountsNext => Kept
        <3>1. Respond => Kept
            BY <2>7, <2>8, <2>9, <2>10 DEF Respond
        <3> QED BY <2>1, <2>2, <2>3, <2>4, <2>5, <2>6, <3>1 DEF AccountsNext
    <2> QED BY <2>11, <2>12, <2>13
<1>3. Drains
    <2>1. CASE \E p \in Principal, id \in DepositId : DepositSettled(p, id)
        <3>1. PICK p \in Principal, id \in DepositId : DepositSettled(p, id)
            BY <2>1
        <3>2. /\ ~marks[p].locked
              /\ custody' = [custody EXCEPT ![p][custody_plans[<<p, id>>].asset] = @ + 1]
            BY <1>1, <3>1, PlanUnlocked DEF DepositSettled
        <3> QED BY <1>1, <1>2, <3>2, AnswersDrain
    <2>2. CASE \E p \in Principal, id \in WithdrawalId : WithdrawalAnswered(p, id)
        <3>1. PICK p \in Principal, id \in WithdrawalId : WithdrawalAnswered(p, id)
            BY <2>2
        <3>2. /\ ~marks[p].locked
              /\ \/ custody' = [custody EXCEPT ![p][custody_plans[<<p, id>>].asset] = @ - 1 - Fee]
                 \/ UNCHANGED custody
            BY <1>1, <3>1, PlanUnlocked DEF WithdrawalAnswered
        <3> QED BY <1>1, <1>2, <3>2, AnswersDrain, StillDrains DEF SamePlans
    <2>3. \/ \E p \in Principal, id \in DepositId : DepositSettled(p, id)
          \/ \E p \in Principal, id \in WithdrawalId : WithdrawalAnswered(p, id)
          \/ UNCHANGED custody
        BY DEF AccountsNext, Respond, BeginDeposit, BeginWithdrawal, BeginMatched,
           FinishMatched, FreezePosition, BeginSettlement, BeginOrder, CancelOrder, FinishOrder, RefuseOrder,
           ApplySettlement, MigrationNext, MigrateDomain, RefuseMigration, vars
    <2> QED BY <1>1, <1>2, <2>1, <2>2, <2>3, StillDrains DEF SamePlans
<1>4. \A c \in CallId : call'[c] = call[c] \/ ~IsSweep(call'[c])
    <2>1. CASE \E c \in UserCallId, r \in Request : r.op \in {"limit", "market"} /\ BeginOrder(c, r)
        <3>1. PICK c \in CallId, r \in Request : r.op \in {"limit", "market"} /\ BeginOrder(c, r)
            BY <2>1 DEF CallId
        <3>2. \A x \in CallId : x # c => call'[x] = call[x]
            BY <3>1 DEF BeginOrder, TransitInv, LockInv, BooksInv, TypeInv, CallType
        <3>3. call'[c].op = r.op
            BY <3>1 DEF BeginOrder, TransitInv, LockInv, BooksInv, TypeInv, CallType
        <3> QED BY <3>1, <3>2, <3>3 DEF IsSweep
    <2>2. CASE \E c \in UserCallId, r \in Request : BeginMatched(c, r)
        <3>1. PICK c \in CallId, r \in Request : BeginMatched(c, r)
            BY <2>2 DEF CallId
        <3>2. \A x \in CallId : x # c => call'[x] = call[x]
            BY <3>1 DEF BeginMatched, TransitInv, LockInv, BooksInv, TypeInv, CallType
        <3>3. call'[c].op = "matched"
            BY <3>1 DEF BeginMatched, TransitInv, LockInv, BooksInv, TypeInv, CallType
        <3> QED BY <3>2, <3>3 DEF IsSweep
    <2>3. CASE UNCHANGED call \/ \E c : Return(c)
        BY <2>3 DEF Return, IsSweep, TransitInv, LockInv, BooksInv, TypeInv, CallType
    <2>4. \/ \E c \in UserCallId, r \in Request : r.op \in {"limit", "market"} /\ BeginOrder(c, r)
          \/ \E c \in UserCallId, r \in Request : BeginMatched(c, r)
          \/ UNCHANGED call \/ \E c : Return(c)
        BY DEF AccountsNext, Respond, BeginDeposit, BeginWithdrawal, FinishMatched,
           FreezePosition, BeginSettlement, CancelOrder, DepositSettled, WithdrawalAnswered,
           FinishOrder, RefuseOrder, ApplySettlement, MigrationNext, MigrateDomain, RefuseMigration, vars
    <2> QED BY <2>1, <2>2, <2>3, <2>4
<1> QED BY <1>2, <1>3, <1>4, TransitKept

(* A transfer moves tokens out of the old subaccount into that of the new
   owner, who hands nothing over. *)
LEMMA MovedDrains ==
    ASSUME LockInv, NEW t \in LedgerTransfer, PlanKey(t.move) \in PendingKeys,
           reassignment_plans[PlanKey(t.move)].new_owner = t.move.new,
           Covers(t), custody' = Moved(t), UNCHANGED reassignment_plans
    PROVE  Drains
<1>1. /\ t.move.old \in Principal /\ t.move.new \in Principal /\ t.asset \in Asset
      /\ t.amount \in Nat /\ Fee \in Nat /\ PlanKey(t.move)[1] = t.move.old
    BY MoveKinds, AccountsAssumption DEF LedgerTransfer
<1>2. Parties(PlanKey(t.move)) = {t.move.old, t.move.new} /\ t.move.old # t.move.new
    BY <1>1 DEF Parties, LockInv, PartiesApart
<1> SUFFICES ASSUME NEW k \in PendingKeys, NEW b \in Asset
             PROVE  custody'[k[1]][b] <= custody[k[1]][b]
    BY DEF Drains, SamePlans
<1>3. k[1] \in Principal
    BY LockedParties
<1>4. k[1] # t.move.new
    BY <1>1, <1>2 DEF LockInv, PartiesApart, Parties
<1>5. custody[k[1]][b] \in Nat
    BY <1>3 DEF LockInv, BooksInv, TypeInv, LedgerType
<1>6. custody'[k[1]][b] = IF k[1] = t.move.old /\ b = t.asset
                          THEN custody[k[1]][b] - t.amount - Fee ELSE custody[k[1]][b]
    BY <1>1, <1>2, <1>3, <1>4 DEF Moved, LockInv, BooksInv, TypeInv, LedgerType
<1> QED BY <1>1, <1>5, <1>6

LEMMA LateTransferTransit ==
    ASSUME TransitInv, TypeInv', NEW t \in late, LateTransfer(t)
    PROVE  Drains /\ PendingUnswept' /\ SweepsDrain' /\ LateInTransit'
<1>1. LockInv /\ t \in LedgerTransfer
    BY DEF TransitInv, LockInv, BooksInv, TypeInv, LedgerType
<1>2. /\ PlanKey(t.move) \in PendingKeys
      /\ reassignment_plans[PlanKey(t.move)].new_owner = t.move.new
    BY DEF TransitInv, LateInTransit
<1>3. Drains
    BY <1>1, <1>2, MovedDrains, StillDrains DEF SamePlans, LateTransfer
<1> QED BY <1>3, TransitKept DEF LateTransfer

(* What a caller gives up on, or leaves behind in an upgrade, is of its plan. *)
LEMMA GivenUp ==
    ASSUME TransitInv, NEW c \in CallId, AtStage(c, "transfer"), NEW t, t = TransferOf(call[c])
    PROVE  /\ PlanKey(t.move) \in PendingKeys
           /\ reassignment_plans[PlanKey(t.move)].new_owner = t.move.new
           /\ t.asset \in Unswept(reassignment_plans[PlanKey(t.move)])
           /\ custody[t.move.old][t.asset] <= t.amount + Fee
           /\ \A x \in CallId : IsSweep(call[x]) /\ PlanKey(call[x].move) = PlanKey(t.move) => x = c
<1>1. IsSweep(call[c]) /\ call[c].stage = "transfer"
    BY AtStageSweeps
<1>2. t.move = call[c].move /\ t.asset = call[c].asset /\ t.amount = call[c].amount
    BY DEF TransferOf
<1> QED BY <1>1, <1>2, SweepLocked DEF TransitInv, SweepsDrain

LEMMA TimesOutTransit ==
    ASSUME TransitInv, TypeInv', NEW c \in CallId, SweepFailed(c) \/ SweepTimesOut(c)
    PROVE  Drains /\ PendingUnswept' /\ SweepsDrain' /\ LateInTransit'
<1>1. /\ UNCHANGED <<reassignment_plans, custody>> /\ Return(c)
      /\ \/ UNCHANGED late
         \/ AtStage(c, "transfer") /\ late' = late \cup {TransferOf(call[c])}
    BY DEF SweepFailed, SweepTimesOut
<1>2. Drains
    BY <1>1, StillDrains DEF SamePlans, TransitInv
<1>3. /\ \A x \in CallId : (call'[x] = call[x] /\ x # c) \/ ~IsSweep(call'[x])
      /\ ~IsSweep(call'[c])
    BY <1>1 DEF Return, IsSweep, TransitInv, LockInv, BooksInv, TypeInv, CallType
<1>4. CASE UNCHANGED late
    BY <1>2, <1>3, <1>4, TransitKept
<1>5. CASE AtStage(c, "transfer") /\ late' = late \cup {TransferOf(call[c])}
    <2>1. PendingKeys' = PendingKeys /\ UNCHANGED <<reassignment_plans, custody>>
        BY <1>1 DEF PendingKeys
    <2>2. PendingUnswept' /\ SweepsDrain'
        BY <1>3, <2>1 DEF TransitInv, PendingUnswept, SweepsDrain
    <2>3. LateInTransit'
        <3> SUFFICES ASSUME NEW t \in late'
                     PROVE  /\ PlanKey(t.move) \in PendingKeys'
                            /\ reassignment_plans'[PlanKey(t.move)].new_owner = t.move.new
                            /\ t.asset \in Unswept(reassignment_plans'[PlanKey(t.move)])
                            /\ custody'[t.move.old][t.asset] <= t.amount + Fee
                            /\ \A x \in CallId : \A k \in {call'[x]} :
                                  IsSweep(k) /\ PlanKey(k.move) = PlanKey(t.move) => k.stage = "balance"
            BY DEF LateInTransit
        <3>1. CASE t \in late
            <4>1. /\ PlanKey(t.move) \in PendingKeys
                  /\ reassignment_plans[PlanKey(t.move)].new_owner = t.move.new
                  /\ t.asset \in Unswept(reassignment_plans[PlanKey(t.move)])
                  /\ custody[t.move.old][t.asset] <= t.amount + Fee
                  /\ \A x \in CallId : \A k \in {call[x]} :
                        IsSweep(k) /\ PlanKey(k.move) = PlanKey(t.move) => k.stage = "balance"
                BY <3>1 DEF TransitInv, LateInTransit
            <4> QED BY <1>3, <2>1, <4>1
        <3>2. CASE t = TransferOf(call[c])
            BY <1>3, <1>5, <2>1, <3>2, GivenUp
        <3> QED BY <1>5, <3>1, <3>2
    <2> QED BY <1>2, <2>2, <2>3
<1> QED BY <1>1, <1>4, <1>5

LEMMA UpgradeTransit ==
    ASSUME TransitInv, Upgrade
    PROVE  Drains /\ PendingUnswept' /\ SweepsDrain' /\ LateInTransit'
<1>1. /\ UNCHANGED <<reassignment_plans, custody>> /\ \A x \in CallId : ~IsSweep(call'[x])
      /\ late' = late \cup {TransferOf(call[c]) : c \in {x \in CallId : AtStage(x, "transfer")}}
    BY DEF Upgrade, IsSweep
<1>2. PendingKeys' = PendingKeys
    BY <1>1 DEF PendingKeys
<1>3. Drains
    BY <1>1, StillDrains DEF SamePlans, TransitInv
<1>4. PendingUnswept' /\ SweepsDrain'
    BY <1>1 DEF TransitInv, PendingUnswept, SweepsDrain
<1>5. ASSUME NEW t \in late'
      PROVE  /\ PlanKey(t.move) \in PendingKeys
             /\ reassignment_plans[PlanKey(t.move)].new_owner = t.move.new
             /\ t.asset \in Unswept(reassignment_plans[PlanKey(t.move)])
             /\ custody[t.move.old][t.asset] <= t.amount + Fee
    <2>1. CASE t \in late
        BY <2>1 DEF TransitInv, LateInTransit
    <2>2. CASE \E c \in CallId : AtStage(c, "transfer") /\ t = TransferOf(call[c])
        BY <2>2, GivenUp
    <2> QED BY <1>1, <2>1, <2>2
<1>6. LateInTransit'
    BY <1>1, <1>2, <1>5 DEF LateInTransit
<1> QED BY <1>3, <1>4, <1>6

-----------------------------------------------------------------------------
(* A call at the top of the loop: it stores its plan, and the requests nobody
   waits for are of other plans, or of this one as it was. *)
LEMMA ContinueTransit ==
    ASSUME TransitInv, NEW c \in CallId, NEW m \in Move, NEW plan, IsPlan(plan), Pending(plan),
           NEW marked, Continue(c, m, plan, marked), UNCHANGED <<late, custody>>,
           \A x \in CallId : IsSweep(call[x]) /\ PlanKey(call[x].move) = PlanKey(m) => x = c,
           \A t \in late : PlanKey(t.move) = PlanKey(m) => plan = reassignment_plans[PlanKey(m)]
    PROVE  PendingUnswept' /\ SweepsDrain' /\ LateInTransit'
<1> PICK stored : Stores(c, m, plan, marked, stored)
    BY ContinueStores
<1> PICK key : key = PlanKey(m)
    OBVIOUS
<1>1. /\ DOMAIN reassignment_plans' = DOMAIN reassignment_plans \cup {key}
      /\ reassignment_plans'[key] = stored
      /\ \A k \in DOMAIN reassignment_plans : k # key => reassignment_plans'[k] = reassignment_plans[k]
    BY DEF Stores, Put
<1>2. Unswept(stored) = Unswept(plan)
    BY DEF Stores, Unswept
<1>3. Unswept(plan) # {} => stored = plan
    BY DEF Stores
<1>4. Pending(stored) <=> Unswept(stored) # {}
    BY <1>2, <1>3 DEF Stores
<1>5. \A x \in CallId : \/ x # c /\ call'[x] = call[x]
                        \/ x = c /\ ~IsSweep(call'[x])
                        \/ /\ x = c /\ call'[x].move = m /\ call'[x].plan = plan
                           /\ call'[x].asset \in Unswept(plan) /\ call'[x].stage = "balance"
    BY DEF Stores, Sweep, IsSweep, TransitInv, LockInv, BooksInv, TypeInv, CallType
<1>6. PendingUnswept'
    BY <1>1, <1>4 DEF TransitInv, PendingUnswept
<1>7. SweepsDrain'
    <2> SUFFICES ASSUME NEW x \in CallId, NEW k \in {call'[x]}, IsSweep(k)
                 PROVE  /\ k.asset \in Unswept(k.plan)
                        /\ k.stage = "transfer" => custody'[k.move.old][k.asset] <= k.amount + Fee
                        /\ k.stage = "ok" => custody'[k.move.old][k.asset] <= Fee
        BY DEF SweepsDrain
    <2>1. CASE k = call[x]
        BY <2>1 DEF TransitInv, SweepsDrain
    <2>2. CASE k.asset \in Unswept(plan) /\ k.plan = plan /\ k.stage = "balance"
        BY <2>2
    <2> QED BY <1>5, <2>1, <2>2
<1>8. LateInTransit'
    <2> SUFFICES ASSUME NEW t \in late
                 PROVE  /\ PlanKey(t.move) \in PendingKeys'
                        /\ reassignment_plans'[PlanKey(t.move)].new_owner = t.move.new
                        /\ t.asset \in Unswept(reassignment_plans'[PlanKey(t.move)])
                        /\ custody[t.move.old][t.asset] <= t.amount + Fee
                        /\ \A x \in CallId : \A k \in {call'[x]} :
                              IsSweep(k) /\ PlanKey(k.move) = PlanKey(t.move) => k.stage = "balance"
        BY DEF LateInTransit
    <2>1. /\ PlanKey(t.move) \in PendingKeys
          /\ reassignment_plans[PlanKey(t.move)].new_owner = t.move.new
          /\ t.asset \in Unswept(reassignment_plans[PlanKey(t.move)])
          /\ custody[t.move.old][t.asset] <= t.amount + Fee
          /\ \A x \in CallId : \A k \in {call[x]} :
                IsSweep(k) /\ PlanKey(k.move) = PlanKey(t.move) => k.stage = "balance"
        BY DEF TransitInv, LateInTransit
    <2>2. PlanKey(t.move) \in DOMAIN reassignment_plans /\ Pending(reassignment_plans[PlanKey(t.move)])
        BY <2>1 DEF PendingKeys
    <2>3. reassignment_plans'[PlanKey(t.move)] = reassignment_plans[PlanKey(t.move)]
        <3>1. CASE PlanKey(t.move) = key
            BY <1>1, <1>3, <2>1, <3>1
        <3>2. CASE PlanKey(t.move) # key
            BY <1>1, <2>2, <3>2
        <3> QED BY <3>1, <3>2
    <2>4. PlanKey(t.move) \in PendingKeys'
        BY <1>1, <2>2, <2>3 DEF PendingKeys
    <2>5. ASSUME NEW x \in CallId, NEW k \in {call'[x]}, IsSweep(k), PlanKey(k.move) = PlanKey(t.move)
          PROVE  k.stage = "balance"
        BY <1>5, <2>1, <2>5
    <2> QED BY <2>1, <2>3, <2>4, <2>5
<1> QED BY <1>6, <1>7, <1>8

(* An asset is drained: the tokens of the old subaccount are a fee's worth. *)
Drained(key, a) ==
    /\ key \in PendingKeys /\ a \in Asset /\ a \in Unswept(reassignment_plans[key])
    /\ custody[key[1]][a] <= Fee
    /\ \E amount \in Nat : \E stored :
          /\ stored.new_owner = reassignment_plans[key].new_owner
          /\ stored.sweeps = [reassignment_plans[key].sweeps EXCEPT ![a] = amount]
          /\ reassignment_plans' = Put(reassignment_plans, key, stored)
    /\ UNCHANGED <<book, custody>>

LEMMA SweptTransit ==
    ASSUME TransitInv, NEW c \in CallId, IsSweep(call[c]), NEW amount \in Nat,
           Continue(c, call[c].move, [call[c].plan EXCEPT !.sweeps[call[c].asset] = amount], marks),
           custody[call[c].move.old][call[c].asset] <= Fee,
           ~ \E t \in late : PlanKey(t.move) = PlanKey(call[c].move),
           UNCHANGED <<book, late, custody>>
    PROVE  /\ PendingUnswept' /\ SweepsDrain' /\ LateInTransit'
           /\ Drained(PlanKey(call[c].move), call[c].asset)
<1> PICK k : k = call[c]
    OBVIOUS
<1> DEFINE plan == [k.plan EXCEPT !.sweeps[k.asset] = amount]
<1>1. /\ k.move \in Move /\ IsPlan(k.plan) /\ Pending(k.plan) /\ PlanKey(k.move) \in PendingKeys
      /\ reassignment_plans[PlanKey(k.move)] = k.plan
      /\ \A x \in CallId : IsSweep(call[x]) /\ PlanKey(call[x].move) = PlanKey(k.move) => x = c
    BY SweepLocked DEF TransitInv
<1>2. k.asset \in Unswept(k.plan) /\ k.asset \in Asset
    BY SweepCallOf DEF TransitInv, SweepsDrain, LockInv, BooksInv, TypeInv
<1>3. /\ IsPlan(plan) /\ plan.status = k.plan.status /\ plan.new_owner = k.plan.new_owner
      /\ plan.sweeps = [k.plan.sweeps EXCEPT ![k.asset] = amount]
    <2>1. IsPlan(k.plan)
        BY <1>1
    <2> QED BY ONLY <2>1, amount \in Nat, SweptPlan
<1>4. Continue(c, k.move, plan, marks)
    OBVIOUS
<1> HIDE DEF plan
<1>5. PendingUnswept' /\ SweepsDrain' /\ LateInTransit'
    BY <1>1, <1>3, <1>4, ContinueTransit DEF Pending
<1>6. PICK stored : Stores(c, k.move, plan, marks, stored)
    BY <1>3, <1>4, ContinueStores
<1>7. Drained(PlanKey(k.move), k.asset)
    <2>1. PlanKey(k.move)[1] = k.move.old
        BY <1>1, MoveKinds
    <2> QED BY <1>1, <1>2, <1>3, <1>6, <2>1 DEF Drained, Stores
<1> QED BY <1>5, <1>7

(* A sweep that goes on to its next await, no other request being under way. *)
LEMMA StageTransit ==
    ASSUME TransitInv, TypeInv', Drains, late = {}, UNCHANGED late,
           NEW c \in CallId, IsSweep(call[c]), NEW next, call' = [call EXCEPT ![c] = next],
           next.move = call[c].move, next.plan = call[c].plan, next.asset = call[c].asset,
           next.stage = "transfer" =>
               custody'[call[c].move.old][call[c].asset] <= next.amount + Fee,
           next.stage = "ok" => custody'[call[c].move.old][call[c].asset] <= Fee
    PROVE  PendingUnswept' /\ SweepsDrain' /\ LateInTransit'
<1>1. PendingUnswept'
    BY DEF TransitInv, PendingUnswept, Drains, SamePlans
<1>2. LateInTransit'
    BY DEF LateInTransit
<1>3. SweepsDrain'
    <2> SUFFICES ASSUME NEW x \in CallId, NEW k \in {call'[x]}, IsSweep(k)
                 PROVE  /\ k.asset \in Unswept(k.plan)
                        /\ k.stage = "transfer" => custody'[k.move.old][k.asset] <= k.amount + Fee
                        /\ k.stage = "ok" => custody'[k.move.old][k.asset] <= Fee
        BY DEF SweepsDrain
    <2>1. \/ x # c /\ k = call[x]
          \/ x = c /\ k = next
        BY DEF TransitInv, LockInv, BooksInv, TypeInv, CallType
    <2>2. CASE x # c /\ k = call[x]
        <3>1. /\ k.asset \in Unswept(k.plan)
              /\ k.stage = "transfer" => custody[k.move.old][k.asset] <= k.amount + Fee
              /\ k.stage = "ok" => custody[k.move.old][k.asset] <= Fee
            BY <2>2 DEF TransitInv, SweepsDrain
        <3>2. PlanKey(k.move) \in PendingKeys /\ PlanKey(k.move)[1] = k.move.old
            BY <2>2, SweepLocked, MoveKinds DEF TransitInv
        <3>3. k.asset \in Asset /\ k.amount + Fee \in Nat /\ Fee \in Nat
            BY <2>2, SweepCallOf, AccountsAssumption DEF TransitInv, LockInv, BooksInv, TypeInv
        <3> QED BY <3>1, <3>2, <3>3, DrainsAtMost
    <2>3. CASE x = c /\ k = next
        <3>1. call[c].asset \in Unswept(call[c].plan)
            BY DEF TransitInv, SweepsDrain
        <3> QED BY <2>3, <3>1
    <2> QED BY <2>1, <2>2, <2>3
<1> QED BY <1>1, <1>2, <1>3

(* The sweep's own steps: they drain an asset, or move tokens to the new owner. *)
LEMMA SweepStepTransit ==
    ASSUME TransitInv, TypeInv', "in_order" \in Discipline, NEW c \in CallId, SweepStep(c)
    PROVE  /\ PendingUnswept' /\ SweepsDrain' /\ LateInTransit'
           /\ \/ Drains /\ UNCHANGED book
              \/ \E key \in PendingKeys, a \in Asset : Drained(key, a)
<1>1. IsSweep(call[c])
    BY AtStageSweeps DEF SweepStep, BalanceRead, Transferred, SweepMoved
<1>2. PICK k : k = call[c]
    OBVIOUS
<1>3. PICK S \in SUBSET Asset : k \in SweepOver(S)
    BY <1>1, <1>2, SweepCallOf DEF TransitInv, LockInv, BooksInv, TypeInv
<1>4. /\ k.move.old \in Principal /\ k.asset \in Asset /\ k.amount \in Nat /\ Fee \in Nat
      /\ custody[k.move.old][k.asset] \in Nat /\ k.move.new \in Principal
    BY <1>3, MoveKinds, AccountsAssumption
       DEF SweepOver, TransitInv, LockInv, BooksInv, TypeInv, LedgerType
<1>5. PlanKey(k.move) \in PendingKeys /\ reassignment_plans[PlanKey(k.move)].new_owner = k.move.new
    BY <1>1, <1>2, SweepLocked DEF TransitInv
<1>6. CASE BalanceRead(c)
    <2> DEFINE amount == Less(custody[k.move.old][k.asset], Fee)
    <2>1. late = {} /\ UNCHANGED <<book, late, custody>>
        BY <1>6 DEF BalanceRead, InTurn
    <2>2. CASE amount = 0
        <3>1. custody[k.move.old][k.asset] <= Fee
            BY <1>4, <2>2 DEF Less
        <3>2. Continue(c, k.move, [k.plan EXCEPT !.sweeps[k.asset] = 0], marks)
            BY <1>2, <1>6, <2>2 DEF BalanceRead
        <3> QED BY <1>1, <1>2, <1>4, <1>5, <2>1, <3>1, <3>2, SweptTransit
    <2>3. CASE amount # 0
        <3> DEFINE next == [k EXCEPT !.stage = "transfer", !.amount = amount]
        <3>1. custody[k.move.old][k.asset] <= amount + Fee
            BY <1>4, <2>3 DEF Less
        <3>2. call' = [call EXCEPT ![c] = next] /\ UNCHANGED reassignment_plans
            BY <1>2, <1>6, <2>3 DEF BalanceRead
        <3>3. /\ next.move = k.move /\ next.plan = k.plan /\ next.asset = k.asset
              /\ next.stage = "transfer" /\ next.amount = amount
            BY <1>3 DEF SweepOver
        <3>4. Drains
            BY <2>1, <3>2, StillDrains DEF SamePlans, TransitInv
        <3> HIDE DEF next, amount
        <3>5. PendingUnswept' /\ SweepsDrain' /\ LateInTransit'
            BY <1>1, <1>2, <2>1, <3>1, <3>2, <3>3, <3>4, StageTransit
        <3> QED BY <2>1, <3>2, <3>4, <3>5
    <2> QED BY <2>2, <2>3
<1>7. CASE Transferred(c)
    <2> DEFINE next == [k EXCEPT !.stage = "ok"]
               t == TransferOf(k)
    <2>1. /\ late = {} /\ UNCHANGED <<book, late, reassignment_plans>>
          /\ call' = [call EXCEPT ![c] = next] /\ Covers(t) /\ custody' = Moved(t)
          /\ k.stage = "transfer"
        BY <1>2, <1>7 DEF Transferred, InTurn, AtStage
    <2>2. next.move = k.move /\ next.plan = k.plan /\ next.asset = k.asset /\ next.stage = "ok"
        BY <1>3 DEF SweepOver
    <2>3. t \in LedgerTransfer /\ t.move = k.move /\ t.asset = k.asset /\ t.amount = k.amount
        BY <1>1, <1>2, TransferOfType DEF TransferOf, TransitInv, LockInv, BooksInv, TypeInv
    <2> HIDE DEF next, t
    <2>4. Drains
        BY <1>5, <2>1, <2>3, MovedDrains DEF TransitInv
    <2>5. custody'[k.move.old][k.asset] <= Fee
        <3>1. custody[k.move.old][k.asset] <= k.amount + Fee
            BY <1>1, <1>2, <2>1 DEF TransitInv, SweepsDrain
        <3>2. k.move.old # k.move.new
            BY <1>3, <1>5, MoveKinds DEF SweepOver, TransitInv, LockInv, PartiesApart
        <3>3. custody'[k.move.old][k.asset] = custody[k.move.old][k.asset] - k.amount - Fee
            BY <1>4, <2>1, <2>3, <3>2 DEF Moved, TransitInv, LockInv, BooksInv, TypeInv, LedgerType
        <3> QED BY <1>4, <3>1, <3>3
    <2>6. PendingUnswept' /\ SweepsDrain' /\ LateInTransit'
        BY <1>1, <1>2, <2>1, <2>2, <2>4, <2>5, StageTransit
    <2> QED BY <2>1, <2>4, <2>6
<1>8. CASE SweepMoved(c)
    <2>1. /\ Continue(c, k.move, [k.plan EXCEPT !.sweeps[k.asset] = k.amount], marks)
          /\ UNCHANGED <<book, late, custody>> /\ k.stage = "ok"
        BY <1>2, <1>8 DEF SweepMoved, AtStage
    <2>2. custody[k.move.old][k.asset] <= Fee
        BY <1>1, <1>2, <2>1 DEF TransitInv, SweepsDrain
    <2>3. ~ \E t \in late : PlanKey(t.move) = PlanKey(k.move)
        BY <1>1, <1>2, <2>1 DEF TransitInv, LateInTransit
    <2> QED BY <1>1, <1>2, <1>4, <1>5, <2>1, <2>2, <2>3, SweptTransit
<1> QED BY <1>6, <1>7, <1>8 DEF SweepStep

LEMMA ResumeTransit ==
    ASSUME TransitInv, "serial" \in Discipline, NEW c \in CallId, NEW m \in Move,
           ResumeReassign(c, m)
    PROVE  /\ PendingUnswept' /\ SweepsDrain' /\ LateInTransit'
           /\ Drains /\ UNCHANGED <<book, custody>>
<1> PICK plan : plan = reassignment_plans[PlanKey(m)]
    OBVIOUS
<1>1. /\ PlanKey(m) \in DOMAIN reassignment_plans /\ Pending(plan)
      /\ Continue(c, m, plan, marks) /\ UNCHANGED <<book, late, custody>>
    BY DEF ResumeReassign
<1>2. IsPlan(plan)
    BY <1>1 DEF TransitInv, LockInv, BooksInv, TypeInv, PlansType
<1>3. \A x \in CallId : IsSweep(call[x]) /\ PlanKey(call[x].move) = PlanKey(m) => x = c
    BY DEF ResumeReassign, MayCall, IsSweep
<1>4. PendingUnswept' /\ SweepsDrain' /\ LateInTransit'
    BY <1>1, <1>2, <1>3, ContinueTransit
<1>5. SamePlans
    <2>1. Unswept(plan) # {}
        BY <1>1 DEF TransitInv, PendingUnswept
    <2>2. reassignment_plans' = Put(reassignment_plans, PlanKey(m), plan)
        BY <1>1, <2>1 DEF Continue
    <2> QED BY <1>1, <2>2 DEF Put, SamePlans
<1> QED BY <1>1, <1>4, <1>5, StillDrains DEF TransitInv

LEMMA BeginTransit ==
    ASSUME TransitInv, NEW c \in CallId, NEW m \in Move, BeginReassign(c, m)
    PROVE  PendingUnswept' /\ SweepsDrain' /\ LateInTransit'
<1>1. /\ PlanKey(m) \notin DOMAIN reassignment_plans
      /\ Continue(c, m, NewPlan(m), Lock(m)) /\ UNCHANGED <<late, custody>>
    BY DEF BeginReassign
<1>2. IsPlan(NewPlan(m)) /\ Pending(NewPlan(m))
    BY NewPlanType
<1>3. \A x \in CallId : IsSweep(call[x]) => PlanKey(call[x].move) # PlanKey(m)
    BY <1>1 DEF TransitInv, LockInv, BooksInv, SweepsNamed
<1>4. \A t \in late : PlanKey(t.move) # PlanKey(m)
    BY <1>1 DEF TransitInv, LateInTransit, PendingKeys
<1> QED BY <1>1, <1>2, <1>3, <1>4, ContinueTransit

LEMMA TransitStep ==
    ASSUME {"serial", "in_order", "rested_matches"} \subseteq Discipline, TransitInv, [Next]_vars
    PROVE  TransitInv'
<1>1. LockInv' /\ MatchesRested'
    BY LockStep, RestedStep DEF TransitInv, LockInv
<1>2. TypeInv'
    BY <1>1 DEF LockInv, BooksInv
<1>3. OwnersNamed'
    BY <1>2, OwnersAreNamed, PTL
<1>4. CASE AccountsNext \/ MigrationNext \/ UNCHANGED vars
    BY <1>1, <1>2, <1>3, <1>4, AccountsTransit DEF TransitInv
<1>5. CASE ReassignmentNext
    <2>1. PendingUnswept' /\ SweepsDrain' /\ LateInTransit'
        BY <1>2, <1>5, BeginTransit, ResumeTransit, SweepStepTransit, TimesOutTransit,
           LateTransferTransit, UpgradeTransit DEF ReassignmentNext, CallId
    <2> QED BY <1>1, <1>3, <2>1 DEF TransitInv
<1> QED BY <1>4, <1>5 DEF Next

-----------------------------------------------------------------------------
(* The step of the promise that each step is. *)

Accounts_ == [x \in Principal |-> Owns(x)]

Owed == UNION {{<<k[1], reassignment_plans[k].new_owner, a>> :
                    a \in Unswept(reassignment_plans[k])} : k \in DOMAIN reassignment_plans}

LEMMA OwedBy ==
    ASSUME PendingUnswept
    PROVE  /\ \A k \in PendingKeys : \A a \in Unswept(reassignment_plans[k]) :
                 <<k[1], reassignment_plans[k].new_owner, a>> \in Owed
           /\ \A x \in Owed : \E k \in PendingKeys : \E a \in Unswept(reassignment_plans[k]) :
                 x = <<k[1], reassignment_plans[k].new_owner, a>>
BY DEF Owed, PendingUnswept, PendingKeys

LEMMA OwedSame == ASSUME SamePlans PROVE Owed' = Owed
BY DEF Owed, SamePlans

LEMMA IsBusiness ==
    ASSUME TransitInv, OwnersNamed', Drains,
           \A p \in DOMAIN account_states : p \in DOMAIN account_states'
    PROVE  Promise!Business
<1>1. Owed' = Owed
    BY OwedSame DEF Drains
<1>2. \A p \in Principal : Accounts_[p] # Nobody => Accounts_'[p] # Nobody
    BY DEF Accounts_, Owns, OwnersNamed
<1>3. \A x \in Owed : custody'[x[1]][x[3]] <= custody[x[1]][x[3]]
    <2> SUFFICES ASSUME NEW x \in Owed PROVE custody'[x[1]][x[3]] <= custody[x[1]][x[3]]
        OBVIOUS
    <2>1. PICK k \in PendingKeys : \E a \in Unswept(reassignment_plans[k]) :
              x = <<k[1], reassignment_plans[k].new_owner, a>>
        BY OwedBy DEF TransitInv
    <2> PICK a \in Unswept(reassignment_plans[k]) :
            x = <<k[1], reassignment_plans[k].new_owner, a>>
        BY <2>1
    <2>2. a \in Asset
        BY PlanParts DEF Unswept, TransitInv, LockInv, BooksInv, TypeInv, PlansType, PendingKeys
    <2> QED BY <2>2 DEF Drains
<1> QED BY <1>1, <1>2, <1>3 DEF Promise!Business, Accounts_, Owed

LEMMA IsDelivery ==
    ASSUME TransitInv, NEW key, NEW a, Drained(key, a)
    PROVE  \E x \in Owed : Promise!Deliver(x)
<1> PICK x : x = <<key[1], reassignment_plans[key].new_owner, a>>
    OBVIOUS
<1>1. key \in PendingKeys /\ a \in Unswept(reassignment_plans[key]) /\ x \in Owed
    BY OwedBy DEF Drained, TransitInv
<1>2. custody[x[1]][x[3]] <= Fee
    BY DEF Drained
<1>3. PICK stored : \E amount \in Nat :
          /\ stored.new_owner = reassignment_plans[key].new_owner
          /\ stored.sweeps = [reassignment_plans[key].sweeps EXCEPT ![a] = amount]
          /\ reassignment_plans' = Put(reassignment_plans, key, stored)
    BY DEF Drained
<1>4. Unswept(stored) = Unswept(reassignment_plans[key]) \ {a}
    BY <1>3, ReassignmentAssumption DEF Unswept
<1>5. /\ DOMAIN reassignment_plans' = DOMAIN reassignment_plans
      /\ reassignment_plans'[key] = stored
      /\ \A k \in DOMAIN reassignment_plans : k # key => reassignment_plans'[k] = reassignment_plans[k]
    BY <1>1, <1>3 DEF Put, PendingKeys
<1>6. Owed' = Owed \ {x}
    <2>1. ASSUME NEW y \in Owed' PROVE y \in Owed \ {x}
        <3> PICK k \in DOMAIN reassignment_plans' : \E b \in Unswept(reassignment_plans'[k]) :
                y = <<k[1], reassignment_plans'[k].new_owner, b>>
            BY <2>1 DEF Owed
        <3> PICK b \in Unswept(reassignment_plans'[k]) :
                y = <<k[1], reassignment_plans'[k].new_owner, b>>
            OBVIOUS
        <3>1. k \in DOMAIN reassignment_plans
            BY <1>5
        <3>2. /\ b \in Unswept(reassignment_plans[k]) /\ (k = key => b # a)
              /\ reassignment_plans'[k].new_owner = reassignment_plans[k].new_owner
            BY <1>3, <1>4, <1>5, <3>1
        <3>3. k \in PendingKeys
            BY <3>1, <3>2 DEF TransitInv, PendingUnswept, PendingKeys
        <3>4. y \in Owed
            BY <3>2, <3>3, OwedBy DEF TransitInv
        <3>5. y # x
            <4>1. k[1] = key[1] => k = key
                BY <1>1, <3>3 DEF TransitInv, LockInv, PartiesApart, Parties
            <4> QED BY <3>2, <4>1
        <3> QED BY <3>4, <3>5
    <2>2. ASSUME NEW y \in Owed, y # x PROVE y \in Owed'
        <3> PICK k \in PendingKeys : \E b \in Unswept(reassignment_plans[k]) :
                y = <<k[1], reassignment_plans[k].new_owner, b>>
            BY OwedBy DEF TransitInv
        <3> PICK b \in Unswept(reassignment_plans[k]) :
                y = <<k[1], reassignment_plans[k].new_owner, b>>
            OBVIOUS
        <3>2. k \in DOMAIN reassignment_plans'
            BY <1>5 DEF PendingKeys
        <3>3. b \in Unswept(reassignment_plans'[k])
            BY <1>4, <1>5, <2>2, <3>2
        <3>4. reassignment_plans'[k].new_owner = reassignment_plans[k].new_owner
            BY <1>3, <1>5, <3>2
        <3> QED BY <3>2, <3>3, <3>4 DEF Owed
    <2> QED BY <2>1, <2>2
<1>7. Accounts_' = Accounts_ /\ UNCHANGED custody
    BY DEF Drained, book, Accounts_, Owns, HasClearingState, StateOf, Quiet
<1> QED BY <1>1, <1>2, <1>6, <1>7 DEF Promise!Deliver, Accounts_, Owed

-----------------------------------------------------------------------------
(* What an account holds of an asset, over its domains. *)
HeldOf(state, a) == MapThenSumSet(LAMBDA d : state.balances[d][a], Domain)

BalancesOf(state, a) == [d \in Domain |-> state.balances[d][a]]

HoldsAsStated == \A p, a : Held(p, a) = HeldOf(StateOf(p), a)

LEMMA HeldNow == HoldsAsStated
BY DEF HoldsAsStated, Held, HeldOf

LEMMA HeldByState ==
    ASSUME NEW p, NEW a
    PROVE  Held(p, a) = HeldOf(StateOf(p), a) /\ Held(p, a)' = HeldOf(StateOf(p)', a)
<1>1. HoldsAsStated'
    BY HeldNow, PTL
<1> QED BY <1>1, HeldNow DEF HoldsAsStated

LEMMA HeldIsSum ==
    ASSUME NEW state, NEW a
    PROVE  HeldOf(state, a) = SumOver(BalancesOf(state, a), Domain)
<1> DEFINE f == BalancesOf(state, a)
           Fold(g) == g = [s \in SUBSET Domain |->
                              IF s = {} THEN 0
                              ELSE state.balances[Pick(s)][a] + g[s \ {Pick(s)}]]
<1>1. \A g : Fold(g) <=> IsFold(g, f, Domain)
    <2>1. \A s \in SUBSET Domain : s # {} => f[Pick(s)] = state.balances[Pick(s)][a]
        BY PickIn DEF BalancesOf
    <2> QED BY <2>1 DEF IsFold
<1>2. (CHOOSE g : Fold(g)) = (CHOOSE g : IsFold(g, f, Domain))
    <2> HIDE DEF Fold, f
    <2> QED BY <1>1
<1>3. HeldOf(state, a) = (CHOOSE g : Fold(g))[Domain]
    BY DEF HeldOf, MapThenSumSet, MapThenFoldSet, Pick
<1> QED BY <1>2, <1>3, SumIsFold

LEMMA BalancesType ==
    ASSUME NEW state \in AccountState, NEW a \in Asset, NEW d \in Domain
    PROVE  BalancesOf(state, a)[d] \in Nat /\ BalancesOf(state, a)[d] = state.balances[d][a]
BY DEF BalancesOf, AccountState

LEMMA HeldType ==
    ASSUME IsFiniteSet(Domain), NEW state \in AccountState, NEW a \in Asset
    PROVE  HeldOf(state, a) \in Nat
BY BalancesType, HeldIsSum, SumNat

LEMMA HeldSome ==
    ASSUME IsFiniteSet(Domain), NEW state \in AccountState, NEW a \in Asset
    PROVE  HeldOf(state, a) > 0 <=> \E d \in Domain : state.balances[d][a] > 0
<1> DEFINE f == BalancesOf(state, a)
<1>1. \A d \in Domain : f[d] \in Nat /\ f[d] = state.balances[d][a]
    BY BalancesType
<1>2. HeldOf(state, a) = SumOver(f, Domain)
    BY HeldIsSum
<1> HIDE DEF f
<1>3. CASE \E d \in Domain : state.balances[d][a] > 0
    <2>1. PICK d \in Domain : state.balances[d][a] > 0
        BY <1>3
    <2>2. SumOver(f, Domain) = f[d] + SumOver(f, Domain \ {d})
        BY <1>1, SumRemove
    <2>3. SumOver(f, Domain \ {d}) \in Nat
        <3>1. IsFiniteSet(Domain \ {d})
            BY FS_Subset
        <3> QED BY <1>1, <3>1, SumNat
    <2> QED BY <1>1, <1>2, <2>1, <2>2, <2>3
<1>4. CASE ~ \E d \in Domain : state.balances[d][a] > 0
    <2>1. \A d \in Domain : f[d] = 0
        BY <1>1, <1>4
    <2>2. HeldOf(state, a) = 0
        BY <1>2, <2>1, SumZero
    <2> QED BY <1>4, <2>2
<1> QED BY <1>3, <1>4

(* The promise's view of the assets of an account, and the model's. *)
LEMMA AssetsOwned ==
    ASSUME TypeInv, IsFiniteSet(Domain), NEW p \in DOMAIN account_states
    PROVE  CustodyAssets(p) = {a \in Asset : HasAsset(Owns(p), a)}
<1>1. Owns(p) # Nobody
    BY OwnersAreNamed DEF OwnersNamed
<1>2. \A a \in Asset : Held(p, a) > 0 <=> \E d \in Domain : StateOf(p).balances[d][a] > 0
    BY HeldSome, HeldByState, StateType DEF TypeInv
<1>3. CASE ~HasClearingState(p)
    <2>1. Owns(p) = Empty /\ StateOf(p) = Empty
        BY <1>3 DEF Owns, HasClearingState
    <2>2. \A a \in Asset, d \in Domain : StateOf(p).balances[d][a] = 0
        BY <2>1 DEF Empty
    <2> QED BY <1>2, <2>1, <2>2 DEF CustodyAssets, HasAsset
<1>4. CASE HasClearingState(p)
    <2> DEFINE held == [s \in {r \in SeriesId : <<p, r>> \in DOMAIN positions} |->
                           positions[<<p, s>>]]
    <2>1. Owns(p) = [state |-> account_states[p], positions |-> held]
        BY <1>4 DEF Owns
    <2> HIDE DEF held
    <2>2. Owns(p) # Empty /\ Owns(p).state = StateOf(p)
        BY <2>1 DEF Empty, StateOf
    <2> QED BY <1>1, <1>2, <2>2 DEF CustodyAssets, HasAsset
<1> QED BY <1>3, <1>4

(* The account, whole, under its new owner. *)
LEMMA Rekeyed ==
    ASSUME TypeInv, NEW m \in Move, MayReassign(m), Rekey(m),
           UNCHANGED <<limit_orders, frozen_transfers>>
    PROVE  Accounts_' = [Accounts_ EXCEPT ![m.old] = Nobody, ![m.new] = Owns(m.old)]
<1>1. /\ m.old \in Principal /\ m.new \in Principal /\ m.old # m.new
      /\ m.old \in DOMAIN account_states /\ Quiet(m.old) /\ ~HasClearingState(m.new)
    BY MoveKinds DEF MayReassign
<1>2. Quiet(m.new) /\ StateOf(m.new) = Empty /\ \A k \in DOMAIN positions : k[1] # m.new
    BY <1>1 DEF HasClearingState
<1>3. /\ DOMAIN account_states' = (DOMAIN account_states \ {m.old}) \cup {m.new}
      /\ account_states'[m.new] = account_states[m.old]
      /\ \A p \in DOMAIN account_states : p \notin {m.old, m.new} =>
            account_states'[p] = account_states[p]
    <2> PICK rest : rest = Without(account_states, {m.old})
        OBVIOUS
    <2>1. /\ DOMAIN rest = DOMAIN account_states \ {m.old}
          /\ \A p \in DOMAIN account_states \ {m.old} : rest[p] = account_states[p]
        BY WithoutMap
    <2>2. account_states' = Put(rest, m.new, account_states[m.old])
        BY DEF Rekey
    <2> QED BY <1>1, <2>1, <2>2 DEF Put
<1>4. \A p, s : <<p, s>> \in DOMAIN positions' <=>
            \/ p \notin {m.old, m.new} /\ <<p, s>> \in DOMAIN positions
            \/ p = m.new /\ <<m.old, s>> \in DOMAIN positions
    <2> DEFINE Owner(p) == IF p = m.old THEN m.new ELSE p
    <2>1. DOMAIN positions' = {<<Owner(x[1]), x[2]>> : x \in DOMAIN positions}
        BY DEF Rekey
    <2>2. \A x \in DOMAIN positions : x = <<x[1], x[2]>>
        BY DEF TypeInv, AccountsType
    <2> QED BY <1>1, <1>2, <2>1, <2>2
<1>5. /\ \A s : <<m.new, s>> \in DOMAIN positions' =>
            positions'[<<m.new, s>>] = positions[<<m.old, s>>]
      /\ \A p, s : <<p, s>> \in DOMAIN positions' /\ p # m.new =>
            positions'[<<p, s>>] = positions[<<p, s>>]
    BY DEF Rekey
<1>6. \A p : (\E k \in DOMAIN positions' : k[1] = p) <=> \E s : <<p, s>> \in DOMAIN positions'
    <2>1. \A x \in DOMAIN positions' : x = <<x[1], x[2]>>
        BY DEF Rekey
    <2>2. \A p, s : <<p, s>>[1] = p
        OBVIOUS
    <2> QED BY <2>1, <2>2
<1>7. \A p : (\E k \in DOMAIN positions : k[1] = p) <=> \E s : <<p, s>> \in DOMAIN positions
    <2>1. \A x \in DOMAIN positions : x = <<x[1], x[2]>>
        BY DEF TypeInv, AccountsType
    <2>2. \A p, s : <<p, s>>[1] = p
        OBVIOUS
    <2> QED BY <2>1, <2>2
<1>8. ASSUME NEW p \in Principal, p \notin {m.old, m.new} PROVE Owns(p)' = Owns(p)
    <2>1. p \in DOMAIN account_states' <=> p \in DOMAIN account_states
        BY <1>3, <1>8
    <2>2. StateOf(p)' = StateOf(p)
        BY <1>3, <1>8 DEF StateOf
    <2>3. (\E k \in DOMAIN positions' : k[1] = p) <=> \E k \in DOMAIN positions : k[1] = p
        BY <1>4, <1>6, <1>7, <1>8
    <2>4. HasClearingState(p)' <=> HasClearingState(p)
        BY <2>2, <2>3 DEF HasClearingState, Quiet
    <2>5. \A s : <<p, s>> \in DOMAIN positions' <=> <<p, s>> \in DOMAIN positions
        BY <1>4, <1>8
    <2>6. \A s : <<p, s>> \in DOMAIN positions => positions'[<<p, s>>] = positions[<<p, s>>]
        BY <1>5, <1>8, <2>5
    <2>7. p \in DOMAIN account_states => account_states'[p] = account_states[p]
        BY <1>3, <1>8
    <2>8. [s \in {r \in SeriesId : <<p, r>> \in DOMAIN positions'} |-> positions'[<<p, s>>]]
            = [s \in {r \in SeriesId : <<p, r>> \in DOMAIN positions} |-> positions[<<p, s>>]]
        BY <2>5, <2>6
    <2> QED BY <2>1, <2>4, <2>7, <2>8 DEF Owns
<1>9. Owns(m.new)' = Owns(m.old)
    <2>1. m.new \in DOMAIN account_states' /\ account_states'[m.new] = account_states[m.old]
        BY <1>3
    <2>2. StateOf(m.new)' = StateOf(m.old)
        BY <1>1, <2>1 DEF StateOf
    <2>3. (\E k \in DOMAIN positions' : k[1] = m.new) <=> \E k \in DOMAIN positions : k[1] = m.old
        BY <1>1, <1>4, <1>6, <1>7
    <2>4. HasClearingState(m.new)' <=> HasClearingState(m.old)
        BY <1>1, <1>2, <2>2, <2>3 DEF HasClearingState, Quiet
    <2>5. \A s : <<m.new, s>> \in DOMAIN positions' <=> <<m.old, s>> \in DOMAIN positions
        BY <1>1, <1>4
    <2>6. [s \in {r \in SeriesId : <<m.new, r>> \in DOMAIN positions'} |-> positions'[<<m.new, s>>]]
            = [s \in {r \in SeriesId : <<m.old, r>> \in DOMAIN positions} |-> positions[<<m.old, s>>]]
        BY <1>5, <2>5
    <2> QED BY <1>1, <2>1, <2>4, <2>6 DEF Owns
<1>10. Owns(m.old)' = Nobody
    BY <1>1, <1>3 DEF Owns
<1> QED BY <1>1, <1>8, <1>9, <1>10 DEF Accounts_

LEMMA IsHandover ==
    ASSUME TransitInv, IsFiniteSet(Domain), NEW c \in CallId, NEW m \in Move, BeginReassign(c, m)
    PROVE  Promise!Handover(m.old, m.new)
<1>1. /\ MayReassign(m) /\ Rekey(m) /\ UNCHANGED <<limit_orders, frozen_transfers, custody>>
      /\ PlanKey(m) \notin DOMAIN reassignment_plans /\ PlanKey(m)[1] = m.old
      /\ m.old \in Principal /\ m.new \in Principal /\ m.old # m.new
      /\ m.old \in DOMAIN account_states /\ ~HasClearingState(m.new)
    BY MoveKinds DEF BeginReassign, MayReassign
<1>2. Accounts_' = [Accounts_ EXCEPT ![m.old] = Nobody, ![m.new] = Owns(m.old)]
    BY <1>1, Rekeyed DEF TransitInv, LockInv, BooksInv
<1>3. Accounts_[m.old] # Nobody /\ Accounts_[m.new] \in {Nobody, Empty}
    BY <1>1 DEF TransitInv, OwnersNamed, Accounts_, Owns
<1>4. \A x \in Owed : m.old \notin {x[1], x[2]} /\ m.new \notin {x[1], x[2]}
    <2> SUFFICES ASSUME NEW x \in Owed
                 PROVE  m.old \notin {x[1], x[2]} /\ m.new \notin {x[1], x[2]}
        OBVIOUS
    <2>1. PICK k \in PendingKeys : \E a \in Unswept(reassignment_plans[k]) :
              x = <<k[1], reassignment_plans[k].new_owner, a>>
        BY OwedBy DEF TransitInv
    <2>2. marks[x[1]].locked /\ marks[x[2]].locked
        BY <2>1, LockedParties DEF TransitInv
    <2> QED BY <1>1, <2>2 DEF MayReassign
<1>5. Owed' = Owed \cup {<<m.old, m.new, a>> : a \in {b \in Asset : HasAsset(Accounts_[m.old], b)}}
    <2> PICK stored : Stores(c, m, NewPlan(m), Lock(m), stored)
        BY ContinueStores, NewPlanType DEF BeginReassign
    <2>1. /\ DOMAIN reassignment_plans' = DOMAIN reassignment_plans \cup {PlanKey(m)}
          /\ reassignment_plans'[PlanKey(m)] = stored
          /\ \A k \in DOMAIN reassignment_plans : reassignment_plans'[k] = reassignment_plans[k]
        BY <1>1 DEF Stores, Put
    <2>2. stored.new_owner = m.new /\ Unswept(stored) = CustodyAssets(m.old)
        BY NewPlanType DEF Stores, Unswept, NewPlan
    <2>3. CustodyAssets(m.old) = {b \in Asset : HasAsset(Accounts_[m.old], b)}
        BY <1>1, AssetsOwned DEF Accounts_, TransitInv, LockInv, BooksInv
    <2> QED BY <1>1, <2>1, <2>2, <2>3 DEF Owed
<1>6. Accounts_[m.old] = Owns(m.old)
    BY <1>1 DEF Accounts_
<1> QED BY <1>1, <1>2, <1>3, <1>4, <1>5, <1>6
        DEF Promise!Handover, Promise!Engaged, Accounts_, Owed, HasAsset

LEMMA AccountsGrow ==
    ASSUME AccountsNext \/ MigrationNext \/ UNCHANGED book
    PROVE  \A p \in DOMAIN account_states : p \in DOMAIN account_states'
<1>1. CASE AccountsNext
    <2>1. ASSUME NEW b, NEW v, NEW s, NEW price, NEW released, Trade(b, v, s, price, released)
          PROVE  \A p \in DOMAIN account_states : p \in DOMAIN account_states'
        BY <2>1 DEF Trade, Put
    <2>2. CASE \E c \in UserCallId : FinishMatched(c)
        BY <2>1, <2>2 DEF FinishMatched
    <2>3. CASE \E c \in UserCallId : FinishOrder(c)
        BY <2>1, <2>3 DEF FinishOrder, PlaceOrder, FillOrder, Put
    <2> QED BY ZenonT(30), <1>1, <2>2, <2>3 DEF AccountsNext, Respond, BeginDeposit, BeginWithdrawal,
           FreezePosition, BeginSettlement, BeginMatched, BeginOrder, CancelOrder, DepositSettled,
           WithdrawalAnswered, RefuseOrder, ApplySettlement, Applied, Put, book
<1>2. CASE MigrationNext
    BY <1>2 DEF MigrationNext, MigrateDomain, RefuseMigration, book
<1> QED BY <1>1, <1>2 DEF book

LEMMA PromiseStep ==
    ASSUME {"serial", "in_order", "rested_matches"} \subseteq Discipline,
           IsFiniteSet(Domain), TransitInv, TransitInv', [Next]_vars
    PROVE  Promise!Next
<1>1. TypeInv' /\ OwnersNamed'
    BY DEF TransitInv, LockInv, BooksInv
<1>2. ASSUME Drains, AccountsNext \/ MigrationNext \/ UNCHANGED book PROVE Promise!Next
    BY <1>1, <1>2, AccountsGrow, IsBusiness DEF Promise!Next
<1>3. CASE AccountsNext \/ MigrationNext \/ UNCHANGED vars
    BY <1>1, <1>2, <1>3, AccountsTransit DEF vars
<1>4. CASE ReassignmentNext
    <2>1. CASE \E c \in AdminCallId, m \in Move : BeginReassign(c, m)
        <3>1. PICK c \in CallId, m \in Move : BeginReassign(c, m)
            BY <2>1 DEF CallId
        <3>2. m.old \in Principal /\ m.new \in Principal
            BY MoveKinds
        <3> QED BY <3>1, <3>2, IsHandover DEF Promise!Next
    <2>2. CASE \E c \in AdminCallId, m \in Move : ResumeReassign(c, m)
        BY <1>2, <2>2, ResumeTransit DEF CallId
    <2>3. CASE \E c \in AdminCallId : SweepStep(c)
        <3>1. \/ Drains /\ UNCHANGED book
              \/ \E key \in PendingKeys, a \in Asset : Drained(key, a)
            BY <1>1, <2>3, SweepStepTransit DEF CallId
        <3>2. CASE \E key \in PendingKeys, a \in Asset : Drained(key, a)
            BY <3>2, IsDelivery DEF Promise!Next, Owed
        <3> QED BY <1>2, <3>1, <3>2
    <2>4. CASE \/ \E c \in AdminCallId : SweepFailed(c) \/ SweepTimesOut(c)
               \/ \E t \in late : LateTransfer(t)
               \/ Upgrade
        <3>1. UNCHANGED book
            BY <2>4 DEF SweepFailed, SweepTimesOut, LateTransfer, Upgrade
        <3>2. Drains
            BY <1>1, <2>4, TimesOutTransit, LateTransferTransit, UpgradeTransit DEF CallId
        <3> QED BY <1>2, <3>1, <3>2
    <2> QED BY <1>4, <2>1, <2>2, <2>3, <2>4 DEF ReassignmentNext
<1> QED BY <1>3, <1>4 DEF Next

(* A reassignment keeps its promise, for any accounts, assets, calls and
   faults: an account passes whole, positions and all, to a principal with
   nothing of its own; every asset it held is owed to the new owner until the
   old subaccount is drained to a fee's worth; and neither principal takes
   part in another handover before that.  Controllers have one call of a
   reassignment in flight and match no trade of either principal meanwhile, and
   the ledger works off a request nobody waits for before a later one.
   (reassign_account, sweep_custody) *)
THEOREM KeepsPromiseHolds ==
    {"serial", "in_order", "rested_matches"} \subseteq Discipline /\ IsFiniteSet(Domain)
        => (Spec => KeepsPromise)
<1> SUFFICES ASSUME {"serial", "in_order", "rested_matches"} \subseteq Discipline,
                    IsFiniteSet(Domain)
             PROVE  Spec => KeepsPromise
    OBVIOUS
<1>1. Init => TransitInv
    BY TransitInit
<1>2. TransitInv /\ [Next]_vars => TransitInv'
    BY TransitStep
<1>3. Init => Promise!Init
    BY DEF Init, EmptyMap, Promise!Init
<1>4. TransitInv /\ TransitInv' /\ [Next]_vars => Promise!Next
    BY PromiseStep
<1> QED BY <1>1, <1>2, <1>3, <1>4, PTL DEF Spec, KeepsPromise, Promise!Spec

-----------------------------------------------------------------------------
(* What changes the tokens an account holds. *)

(* Margins and cash do not. *)
LEMMA HeldSame ==
    ASSUME NEW x, NEW y, x.balances = y.balances, NEW a
    PROVE  HeldOf(x, a) = HeldOf(y, a)
<1>1. BalancesOf(x, a) = BalancesOf(y, a)
    BY DEF BalancesOf
<1> QED BY <1>1, HeldIsSum

LEMMA HeldUpdate ==
    ASSUME IsFiniteSet(Domain), NEW state \in AccountState, NEW d \in Domain, NEW b \in Asset,
           NEW v \in Nat, NEW a \in Asset
    PROVE  HeldOf([state EXCEPT !.balances[d][b] = v], a) =
               IF a = b THEN HeldOf(state, a) - state.balances[d][b] + v ELSE HeldOf(state, a)
<1> DEFINE next == [state EXCEPT !.balances[d][b] = v]
           f == BalancesOf(state, a)
           g == BalancesOf(next, a)
<1>1. next \in AccountState
    BY BalanceSet
<1>2. \A e \in Domain : next.balances[e][a] =
                            IF e = d /\ a = b THEN v ELSE state.balances[e][a]
    BY DEF AccountState
<1> HIDE DEF next
<1>3. \A e \in Domain : /\ f[e] \in Nat /\ f[e] = state.balances[e][a]
                        /\ g[e] \in Nat /\ g[e] = IF e = d /\ a = b THEN v ELSE f[e]
    BY <1>1, <1>2, BalancesType
<1>4. HeldOf(state, a) = SumOver(f, Domain) /\ HeldOf(next, a) = SumOver(g, Domain)
    BY HeldIsSum
<1> HIDE DEF f, g
<1>5. SumOver(g, Domain) = SumOver(f, Domain) - f[d] + g[d]
    BY <1>3, SumUpdate
<1>6. SumOver(f, Domain) \in Nat
    BY <1>3, SumNat
<1> QED BY <1>3, <1>4, <1>5, <1>6 DEF next, f

(* Nor does a migration, which takes a column from one domain to another. *)
LEMMA HeldMoved ==
    ASSUME IsFiniteSet(Domain), NEW state \in AccountState, NEW from \in Domain, NEW to \in Domain,
           from # to, NEW a \in Asset
    PROVE  HeldOf(MovedDomain(state, from, to), a) = HeldOf(state, a)
<1> DEFINE next == MovedDomain(state, from, to)
           f == BalancesOf(state, a)
           g == BalancesOf(next, a)
           h == [d \in Domain |-> IF d = from THEN 0 ELSE f[d]]
<1>1. \A d \in Domain : f[d] \in Nat /\ f[d] = state.balances[d][a]
    BY BalancesType
<1>2. \A d \in Domain : g[d] = IF d = from THEN 0
                               ELSE IF d = to THEN f[to] + f[from] ELSE f[d]
    BY DEF MovedDomain, Merged, AccountState, BalancesOf
<1>3. HeldOf(state, a) = SumOver(f, Domain) /\ HeldOf(next, a) = SumOver(g, Domain)
    BY HeldIsSum
<1> HIDE DEF f, g, next
<1>4. SumOver(h, Domain) = SumOver(f, Domain) - f[from] + h[from]
    BY <1>1, SumUpdate
<1>5. SumOver(g, Domain) = SumOver(h, Domain) - h[to] + g[to]
    BY <1>1, <1>2, SumUpdate
<1>6. SumOver(f, Domain) \in Nat
    BY <1>1, SumNat
<1>7. h[from] = 0 /\ h[to] = f[to] /\ g[to] = f[to] + f[from]
    BY <1>2
<1> QED BY <1>1, <1>3, <1>4, <1>5, <1>6, <1>7 DEF next

-----------------------------------------------------------------------------
(* What every principal holds, through the steps that move no token. *)

HeldKept == \A p \in Principal, a \in Asset : Held(p, a)' = Held(p, a)

LEMMA KeptByState ==
    ASSUME \A p \in Principal : StateOf(p).balances = StateOf(p)'.balances
    PROVE  HeldKept
BY HeldSame, HeldByState DEF HeldKept

LEMMA SameStates == ASSUME UNCHANGED account_states PROVE HeldKept
BY KeptByState DEF StateOf

LEMMA TradeHeld ==
    ASSUME TypeInv, NEW b, NEW v, NEW s, NEW price, NEW released,
           Trade(b, v, s, price, released)
    PROVE  HeldKept
<1>1. ASSUME NEW p, NEW leg PROVE AfterLeg(p, s, leg).balances = StateOf(p).balances
    <2>1. StateOf(p) \in AccountState
        BY StateType DEF TypeInv
    <2> QED BY <2>1 DEF AfterLeg, AccountState
<1>2. PICK x, y : account_states' = Put(Put(account_states, b, AfterLeg(b, s, x)), v, AfterLeg(v, s, y))
    BY DEF Trade
<1>3. ASSUME NEW p \in Principal PROVE StateOf(p).balances = StateOf(p)'.balances
    BY <1>1, <1>2 DEF StateOf, Put
<1> QED BY <1>3, KeptByState

LEMMA FinishOrderHeld ==
    ASSUME TypeInv, NEW c, FinishOrder(c) PROVE HeldKept
<1>1. ASSUME NEW p, NEW r, PlaceOrder(p, r) PROVE HeldKept
    <2>1. \A q : StateOf(q) \in AccountState
        BY StateType DEF TypeInv
    <2>2. PICK state : /\ account_states' = Put(account_states, p, state)
                       /\ state.balances = StateOf(p).balances
        BY <1>1, <2>1 DEF PlaceOrder, AccountState
    <2> QED BY <2>2, KeptByState DEF Put, StateOf
<1>2. ASSUME NEW p, NEW r, NEW seen, FillOrder(p, r, seen) PROVE HeldKept
    BY <1>2, TradeHeld DEF FillOrder
<1> QED BY <1>1, <1>2 DEF FinishOrder

LEMMA CancelOrderHeld == ASSUME TypeInv, NEW id, CancelOrder(id) PROVE HeldKept
<1>1. \A p \in DOMAIN account_states : account_states[p] \in AccountState
    BY DEF TypeInv, AccountsType
<1>2. \A p \in DOMAIN account_states : account_states'[p].balances = account_states[p].balances
    BY <1>1 DEF CancelOrder, AccountState
<1> QED BY <1>2, KeptByState DEF CancelOrder, StateOf

LEMMA AppliedHeld ==
    ASSUME TypeInv, NEW accounts, DOMAIN accounts = DOMAIN account_states,
           \A p \in DOMAIN accounts : accounts[p] \in AccountState
                                      /\ accounts[p].balances = account_states[p].balances,
           NEW s, NEW chunk, account_states' = Applied(accounts, s, chunk)
    PROVE  HeldKept
<1>1. /\ DOMAIN account_states' = DOMAIN account_states
      /\ \A p \in DOMAIN account_states : account_states'[p].balances = account_states[p].balances
    BY DEF Applied, AccountState
<1> QED BY <1>1, KeptByState DEF StateOf

LEMMA SettlementHeld ==
    ASSUME TypeInv, (\E r \in Request : BeginSettlement(r)) \/ \E s : ApplySettlement(s)
    PROVE  HeldKept
<1>1. \A p \in DOMAIN account_states : account_states[p] \in AccountState
    BY DEF TypeInv, AccountsType
<1>2. ASSUME NEW s, ApplySettlement(s) PROVE HeldKept
    BY <1>1, <1>2, AppliedHeld DEF ApplySettlement
<1>3. ASSUME NEW r \in Request, BeginSettlement(r) PROVE HeldKept
    <2> DEFINE released == [p \in DOMAIN account_states |->
            [account_states[p] EXCEPT !.margin =
                [d \in Domain |-> Less(@[d], OrdersRelease(p, d, r.series))]]]
    <2>1. ASSUME NEW p \in DOMAIN account_states
          PROVE  /\ released[p] \in AccountState
                 /\ released[p].balances = account_states[p].balances
        <3>1. released[p] \in AccountState
            BY ReleasedType
        <3>2. account_states[p] \in AccountState
            BY <1>1
        <3>3. released[p].balances = account_states[p].balances
            BY <3>2 DEF AccountState
        <3> QED BY <3>1, <3>3
    <2>2. \E chunk : account_states' = Applied(released, r.series, chunk)
        BY <1>3 DEF BeginSettlement
    <2>3. DOMAIN released = DOMAIN account_states
        OBVIOUS
    <2> HIDE DEF released
    <2> QED BY <2>1, <2>2, <2>3, AppliedHeld
<1> QED BY <1>2, <1>3

LEMMA MigrationHeld == ASSUME TypeInv, IsFiniteSet(Domain), MigrationNext PROVE HeldKept
<1>1. CASE \E g \in Migrations : RefuseMigration(g)
    BY <1>1, SameStates DEF RefuseMigration, book
<1>2. CASE \E g \in Migrations : MigrateDomain(g)
    <2> PICK g \in Migrations : MigrateDomain(g)
        BY <1>2
    <2>1. /\ g.user \in DOMAIN account_states /\ g.from # g.to
          /\ account_states' = [account_states EXCEPT ![g.user] = MovedDomain(@, g.from, g.to)]
          /\ g.from \in Domain /\ g.to \in Domain
        BY MigrationAssumption DEF MigrateDomain, SomethingToMigrate
    <2>2. account_states[g.user] \in AccountState
        BY <2>1 DEF TypeInv, AccountsType
    <2>3. ASSUME NEW p \in Principal, NEW a \in Asset
          PROVE  HeldOf(StateOf(p)', a) = HeldOf(StateOf(p), a)
        <3>1. CASE p = g.user
            <4>1. StateOf(p) = account_states[g.user]
                BY <2>1, <3>1 DEF StateOf
            <4>2. StateOf(p)' = MovedDomain(account_states[g.user], g.from, g.to)
                BY <2>1, <3>1 DEF StateOf
            <4> QED BY <2>1, <2>2, <4>1, <4>2, HeldMoved
        <3>2. CASE p # g.user
            <4>1. StateOf(p)' = StateOf(p)
                BY <2>1, <3>2 DEF StateOf
            <4> QED BY <4>1
        <3> QED BY <3>1, <3>2
    <2> QED BY <2>3, HeldByState DEF HeldKept
<1> QED BY <1>1, <1>2 DEF MigrationNext

-----------------------------------------------------------------------------
(* The fees that have been charged. *)

LEMMA FeeTimes ==
    ASSUME NEW x \in Nat, NEW y \in Nat, x <= y
    PROVE  /\ Fee * x \in Nat /\ Fee * y \in Nat /\ Fee * x <= Fee * y
           /\ x < y => Fee * x + Fee <= Fee * y
<1>1. Fee \in Nat
    BY AccountsAssumption
<1>2. PICK n \in Nat : y = x + n
    <2>1. y - x \in Nat /\ y = x + (y - x)
        OBVIOUS
    <2> QED BY <2>1
<1>3. Fee * x \in Nat /\ Fee * n \in Nat /\ Fee * y = Fee * x + Fee * n
    BY <1>1, <1>2
<1>4. x < y => Fee <= Fee * n
    <2> SUFFICES ASSUME x < y PROVE Fee <= Fee * n
        OBVIOUS
    <2>1. n - 1 \in Nat /\ Fee * (n - 1) \in Nat /\ Fee * n = Fee * (n - 1) + Fee
        BY <1>1, <1>2
    <2> QED BY <1>1, <2>1
<1> QED BY <1>1, <1>3, <1>4

FeesCounted == FeesPaid = Cardinality(FinishedMoves) + Cardinality(PaidOut)

LEMMA FeesNow == FeesCounted
BY DEF FeesCounted, FeesPaid, FinishedMoves, PaidOut

FinitelyMany == IsFiniteSet(FinishedMoves) /\ IsFiniteSet(PaidOut)

LEMMA FiniteFees == FiniteStores => FinitelyMany
BY FS_Subset DEF FiniteStores, FinitelyMany, FinishedMoves, PaidOut

(* They grow, by at least a fee when one more transfer is done. *)
LEMMA ChargedGrows ==
    ASSUME FiniteStores, FiniteStores', FinishedMoves \subseteq FinishedMoves', PaidOut \subseteq PaidOut'
    PROVE  /\ Charged \in Nat /\ Charged' \in Nat /\ Charged <= Charged'
           /\ FinishedMoves # FinishedMoves' \/ PaidOut # PaidOut' => Charged + Fee <= Charged'
<1>1. IsFiniteSet(FinishedMoves) /\ IsFiniteSet(PaidOut)
    BY FiniteFees DEF FinitelyMany
<1>2. IsFiniteSet(FinishedMoves') /\ IsFiniteSet(PaidOut')
    <2>1. FinitelyMany'
        BY FiniteFees, PTL
    <2> QED BY <2>1 DEF FinitelyMany
<1>3. FeesPaid' = Cardinality(FinishedMoves') + Cardinality(PaidOut')
    <2>1. FeesCounted'
        BY FeesNow, PTL
    <2> QED BY <2>1 DEF FeesCounted
<1>4. FeesPaid = Cardinality(FinishedMoves) + Cardinality(PaidOut)
    BY FeesNow DEF FeesCounted
<1>5. PICK m, n, x, y : /\ m = Cardinality(FinishedMoves) /\ n = Cardinality(FinishedMoves')
                        /\ x = Cardinality(PaidOut) /\ y = Cardinality(PaidOut')
    OBVIOUS
<1>6. m \in Nat /\ n \in Nat /\ x \in Nat /\ y \in Nat
    BY <1>1, <1>2, <1>5, FS_CardinalityType
<1>7. m <= n /\ (m = n => FinishedMoves = FinishedMoves')
    BY <1>2, <1>5, FS_Subset
<1>8. x <= y /\ (x = y => PaidOut = PaidOut')
    BY <1>2, <1>5, FS_Subset
<1>9. FeesPaid \in Nat /\ FeesPaid' \in Nat /\ FeesPaid <= FeesPaid'
    BY <1>3, <1>4, <1>5, <1>6, <1>7, <1>8
<1>10. FinishedMoves # FinishedMoves' \/ PaidOut # PaidOut' => FeesPaid < FeesPaid'
    BY <1>3, <1>4, <1>5, <1>6, <1>7, <1>8
<1> QED BY <1>9, <1>10, FeeTimes DEF Charged

-----------------------------------------------------------------------------
(* The tokens, step by step. *)

Counts ==
    IsFiniteSet(Domain) =>
        \A p \in Principal, a \in Asset :
            /\ Held(p, a) \in Nat /\ custody[p][a] \in Nat
            /\ IsFiniteSet(Reserving(p, a)) /\ Cardinality(Reserving(p, a)) \in Nat

LEMMA CountsNow == TypeInv /\ FiniteStores => Counts
<1> SUFFICES ASSUME TypeInv, FiniteStores, IsFiniteSet(Domain), NEW p \in Principal, NEW a \in Asset
             PROVE  /\ Held(p, a) \in Nat /\ custody[p][a] \in Nat
                    /\ IsFiniteSet(Reserving(p, a)) /\ Cardinality(Reserving(p, a)) \in Nat
    BY DEF Counts
<1>1. Held(p, a) \in Nat
    BY HeldByState, HeldType, StateType DEF TypeInv
<1>2. IsFiniteSet(Reserving(p, a))
    BY FS_Subset DEF Reserving, FiniteStores
<1> QED BY <1>1, <1>2, FS_CardinalityType DEF TypeInv, LedgerType

(* A step that stores no plan of a reassignment and locks nobody: who is
   locked keeps what it holds, and the others are covered. *)
LEMMA CustodyKept ==
    ASSUME IsFiniteSet(Domain), CustodyInv, TransitInv', FiniteStores', ReservedOnce', SamePlans,
           PaidOut \subseteq PaidOut',
           \A p \in Principal : marks'[p].locked <=> marks[p].locked,
           \A p \in Principal, a \in Asset :
               IF marks[p].locked
               THEN Held(p, a)' = Held(p, a) /\ custody'[p][a] = custody[p][a]
               ELSE Held(p, a)' + Cardinality(Reserving(p, a)') <= custody'[p][a] + Charged'
    PROVE  CustodyInv'
<1>1. CoveredAtRest'
    BY DEF CoveredAtRest
<1>2. FinishedMoves' = FinishedMoves /\ PendingKeys' = PendingKeys
    BY DEF SamePlans, FinishedMoves, PendingKeys
<1>3. Charged \in Nat /\ Charged' \in Nat /\ Charged <= Charged'
    BY <1>2, ChargedGrows DEF CustodyInv
<1>4. CoveredInTransit'
    <2> SUFFICES ASSUME NEW k \in PendingKeys, NEW a \in Asset, NEW q,
                        q = reassignment_plans[k].new_owner
                 PROVE  /\ Held(q, a)' <= custody'[q][a] + AtLeastFee(custody'[k[1]][a]) + Charged'
                        /\ a \notin Unswept(reassignment_plans[k]) =>
                              Held(q, a)' = 0 \/ custody'[k[1]][a] <= Fee
        BY <1>2 DEF CoveredInTransit, SamePlans, PendingKeys
    <2>1. /\ q \in Principal /\ k[1] \in Principal /\ marks[q].locked /\ marks[k[1]].locked
        BY LockedParties DEF CustodyInv, TransitInv
    <2>2. /\ Held(q, a)' = Held(q, a) /\ custody'[q][a] = custody[q][a]
          /\ custody'[k[1]][a] = custody[k[1]][a]
        BY <2>1
    <2>3. /\ Held(q, a) <= custody[q][a] + AtLeastFee(custody[k[1]][a]) + Charged
          /\ a \notin Unswept(reassignment_plans[k]) => Held(q, a) = 0 \/ custody[k[1]][a] <= Fee
        BY DEF CustodyInv, CoveredInTransit
    <2>4. Held(q, a) \in Nat /\ custody[q][a] \in Nat /\ custody[k[1]][a] \in Nat
        BY <2>1, CountsNow DEF CustodyInv, TransitInv, LockInv, BooksInv, Counts
    <2>5. AtLeastFee(custody[k[1]][a]) \in Nat
        BY <2>4, AccountsAssumption DEF AtLeastFee
    <2> QED BY <1>3, <2>2, <2>3, <2>4, <2>5
<1> QED BY <1>1, <1>4 DEF CustodyInv

LEMMA CustodyQuiet ==
    ASSUME IsFiniteSet(Domain), CustodyInv, TransitInv', SamePlans, HeldKept,
           UNCHANGED <<custody, custody_plans>>,
           \A p \in Principal : marks'[p].locked <=> marks[p].locked
    PROVE  CustodyInv'
<1>1. FiniteStores' /\ ReservedOnce' /\ PaidOut' = PaidOut
    BY DEF CustodyInv, FiniteStores, ReservedOnce, PaidOut, SamePlans
<1>2. FinishedMoves' = FinishedMoves
    BY DEF SamePlans, FinishedMoves
<1>3. Charged \in Nat /\ Charged' \in Nat /\ Charged <= Charged'
    BY <1>1, <1>2, ChargedGrows DEF CustodyInv
<1>4. ASSUME NEW p \in Principal, NEW a \in Asset, ~marks[p].locked
      PROVE  Held(p, a)' + Cardinality(Reserving(p, a)') <= custody'[p][a] + Charged'
    <2>1. Reserving(p, a)' = Reserving(p, a) /\ Held(p, a)' = Held(p, a)
        BY DEF Reserving, HeldKept
    <2>2. Held(p, a) + Cardinality(Reserving(p, a)) <= custody[p][a] + Charged
        BY <1>4 DEF CustodyInv, CoveredAtRest
    <2>3. Held(p, a) \in Nat /\ custody[p][a] \in Nat /\ Cardinality(Reserving(p, a)) \in Nat
        BY CountsNow DEF CustodyInv, TransitInv, LockInv, BooksInv, Counts
    <2> QED BY <1>3, <2>1, <2>2, <2>3
<1>5. \A p \in Principal, a \in Asset : Held(p, a)' = Held(p, a) /\ custody'[p][a] = custody[p][a]
    BY DEF HeldKept
<1> QED BY <1>1, <1>4, <1>5, CustodyKept

(* A user's plan for an asset is stored, or answered. *)
LEMMA CustodyOfOne ==
    ASSUME IsFiniteSet(Domain), CustodyInv, TransitInv', UNCHANGED <<reassignment_plans, marks>>,
           NEW p \in Principal, ~marks[p].locked, NEW b \in Asset, NEW key,
           DOMAIN custody_plans' = DOMAIN custody_plans \cup {key},
           \A k \in DOMAIN custody_plans : k # key => custody_plans'[k] = custody_plans[k],
           custody_plans'[key].reserved => key[2] \in WithdrawalId,
           key \notin PaidOut,
           \A q \in Principal, a \in Asset : <<q, a>> # <<p, b>> =>
               /\ Held(q, a)' = Held(q, a) /\ custody'[q][a] = custody[q][a]
               /\ key \notin Reserving(q, a) /\ key \notin Reserving(q, a)',
           PaidOut \subseteq PaidOut' /\ FiniteStores' =>
               Held(p, b)' + Cardinality(Reserving(p, b)') <= custody'[p][b] + Charged'
    PROVE  CustodyInv'
<1>1. SamePlans /\ FinishedMoves' = FinishedMoves
    BY DEF SamePlans, FinishedMoves
<1>2. ReservedOnce'
    BY DEF CustodyInv, ReservedOnce
<1>3. FiniteStores'
    <2>1. IsFiniteSet(DOMAIN custody_plans')
        BY FS_AddElement DEF CustodyInv, FiniteStores
    <2> QED BY <2>1 DEF CustodyInv, FiniteStores
<1>4. PaidOut \subseteq PaidOut'
    BY DEF PaidOut
<1>5. Charged \in Nat /\ Charged' \in Nat /\ Charged <= Charged'
    BY <1>1, <1>3, <1>4, ChargedGrows DEF CustodyInv
<1>6. ASSUME NEW q \in Principal, NEW a \in Asset, ~marks[q].locked
      PROVE  Held(q, a)' + Cardinality(Reserving(q, a)') <= custody'[q][a] + Charged'
    <2>1. CASE <<q, a>> = <<p, b>>
        BY <1>3, <1>4, <2>1
    <2>2. CASE <<q, a>> # <<p, b>>
        <3>1. Reserving(q, a)' = Reserving(q, a)
            BY <2>2 DEF Reserving
        <3>2. Held(q, a) + Cardinality(Reserving(q, a)) <= custody[q][a] + Charged
            BY <1>6 DEF CustodyInv, CoveredAtRest
        <3>3. Held(q, a) \in Nat /\ custody[q][a] \in Nat /\ Cardinality(Reserving(q, a)) \in Nat
            BY CountsNow DEF CustodyInv, TransitInv, LockInv, BooksInv, Counts
        <3> QED BY <1>5, <2>2, <3>1, <3>2, <3>3
    <2> QED BY <2>1, <2>2
<1>7. \A q \in Principal, a \in Asset :
          marks[q].locked => Held(q, a)' = Held(q, a) /\ custody'[q][a] = custody[q][a]
    OBVIOUS
<1> QED BY <1>1, <1>2, <1>3, <1>4, <1>6, <1>7, CustodyKept

(* The counts before the step. *)
LEMMA RestNow ==
    ASSUME IsFiniteSet(Domain), CustodyInv, NEW p \in Principal, NEW a \in Asset, ~marks[p].locked
    PROVE  /\ Held(p, a) \in Nat /\ custody[p][a] \in Nat
           /\ IsFiniteSet(Reserving(p, a)) /\ Cardinality(Reserving(p, a)) \in Nat
           /\ Held(p, a) + Cardinality(Reserving(p, a)) <= custody[p][a] + Charged
BY CountsNow DEF CustodyInv, TransitInv, LockInv, BooksInv, Counts, CoveredAtRest

LEMMA BeginDepositCustody ==
    ASSUME IsFiniteSet(Domain), CustodyInv, TransitInv', NEW r \in Request, r.op = "deposit",
           BeginDeposit(r)
    PROVE  CustodyInv'
<1> PICK p, b, key : p = r.user /\ b = r.asset /\ key = <<r.user, r.id>>
    OBVIOUS
<1>1. /\ p \in Principal /\ b \in Asset /\ ~marks[p].locked /\ key \notin DOMAIN custody_plans
      /\ UNCHANGED <<book, reassignment_plans, marks, custody>>
    BY RequestKinds DEF BeginDeposit, Acquired
<1>2. /\ DOMAIN custody_plans' = DOMAIN custody_plans \cup {key}
      /\ \A k \in DOMAIN custody_plans : k # key => custody_plans'[k] = custody_plans[k]
      /\ custody_plans'[key].reserved = FALSE
    BY DEF BeginDeposit, Put
<1>3. \A q \in Principal, a \in Asset :
          /\ Held(q, a)' = Held(q, a) /\ key \notin Reserving(q, a) /\ key \notin Reserving(q, a)'
    BY <1>1, <1>2, SameStates DEF HeldKept, book, Reserving
<1>4. key \notin PaidOut
    BY <1>1 DEF PaidOut
<1>5. ASSUME PaidOut \subseteq PaidOut', FiniteStores'
      PROVE  Held(p, b)' + Cardinality(Reserving(p, b)') <= custody'[p][b] + Charged'
    <2>1. Reserving(p, b)' = Reserving(p, b)
        BY <1>1, <1>2, <1>3 DEF Reserving
    <2>2. Charged \in Nat /\ Charged' \in Nat /\ Charged <= Charged'
        <3>1. FinishedMoves' = FinishedMoves
            BY <1>1 DEF FinishedMoves
        <3> QED BY <1>5, <3>1, ChargedGrows DEF CustodyInv
    <2> QED BY <1>1, <1>3, <2>1, <2>2, RestNow
<1> QED BY <1>1, <1>2, <1>3, <1>4, <1>5, CustodyOfOne

(* A balance that becomes v. *)
LEMMA HeldPut ==
    ASSUME TypeInv, IsFiniteSet(Domain), NEW p \in Principal, NEW d \in Domain, NEW b \in Asset,
           NEW v \in Nat, StateOf(p)' = [StateOf(p) EXCEPT !.balances[d][b] = v],
           \A q \in Principal : q # p => StateOf(q)' = StateOf(q)
    PROVE  /\ Held(p, b)' = Held(p, b) - StateOf(p).balances[d][b] + v
           /\ \A q \in Principal, a \in Asset : <<q, a>> # <<p, b>> => Held(q, a)' = Held(q, a)
<1>1. StateOf(p) \in AccountState
    BY StateType DEF TypeInv
<1>2. \A q \in Principal, a \in Asset :
          Held(q, a) = HeldOf(StateOf(q), a) /\ Held(q, a)' = HeldOf(StateOf(q)', a)
    BY HeldByState
<1>3. \A a \in Asset : HeldOf(StateOf(p)', a) =
          IF a = b THEN HeldOf(StateOf(p), a) - StateOf(p).balances[d][b] + v ELSE HeldOf(StateOf(p), a)
    BY <1>1, HeldUpdate
<1>4. Held(p, b)' = Held(p, b) - StateOf(p).balances[d][b] + v
    BY <1>2, <1>3
<1>5. ASSUME NEW q \in Principal, NEW a \in Asset, <<q, a>> # <<p, b>>
      PROVE  Held(q, a)' = Held(q, a)
    <2>1. CASE q = p
        BY <1>2, <1>3, <1>5, <2>1
    <2>2. CASE q # p
        BY <1>2, <2>2
    <2> QED BY <2>1, <2>2
<1> QED BY <1>4, <1>5

LEMMA UserFees ==
    ASSUME CustodyInv, UNCHANGED reassignment_plans, FiniteStores', PaidOut \subseteq PaidOut'
    PROVE  /\ Charged \in Nat /\ Charged' \in Nat /\ Charged <= Charged'
           /\ PaidOut # PaidOut' => Charged + Fee <= Charged'
<1>1. FinishedMoves' = FinishedMoves
    BY DEF FinishedMoves
<1> QED BY <1>1, ChargedGrows DEF CustodyInv

(* A deposit credits the token the ledger took in. *)
LEMMA DepositSettledCustody ==
    ASSUME IsFiniteSet(Domain), CustodyInv, TransitInv', NEW p \in Principal, NEW id,
           DepositSettled(p, id)
    PROVE  CustodyInv'
<1> PICK key, plan : key = <<p, id>> /\ plan = custody_plans[key]
    OBVIOUS
<1> PICK b : b = plan.asset
    OBVIOUS
<1>1. /\ TypeInv /\ ~marks[p].locked /\ key \in DOMAIN custody_plans
      /\ plan.status = "Executing" /\ plan \in CustodyPlan /\ b \in Asset
    <2>1. TypeInv /\ LockInv
        BY DEF CustodyInv, TransitInv, LockInv, BooksInv
    <2>2. key \in DOMAIN custody_plans /\ plan.status = "Executing"
        BY DEF DepositSettled
    <2>3. plan \in CustodyPlan
        BY <2>1, <2>2 DEF TypeInv, PlansType
    <2> QED BY <2>1, <2>2, <2>3, PlanUnlocked DEF CustodyPlan
<1>2. id \in DepositId /\ id \notin WithdrawalId /\ ~plan.reserved
    <2>1. id \in DepositId /\ id \notin WithdrawalId
        BY AccountsAssumption DEF DepositSettled
    <2> QED BY <1>1, <2>1 DEF CustodyInv, ReservedOnce
<1>3. /\ custody' = [custody EXCEPT ![p][b] = @ + 1]
      /\ account_states' = Put(account_states, p,
            [StateOf(p) EXCEPT !.balances[plan.domain][b] = @ + 1])
      /\ custody_plans' = [custody_plans EXCEPT ![key].status = "Finalised"]
      /\ UNCHANGED <<reassignment_plans, marks>>
    BY DEF DepositSettled, Finalise
<1>4. /\ DOMAIN custody_plans' = DOMAIN custody_plans \cup {key}
      /\ \A k \in DOMAIN custody_plans : k # key => custody_plans'[k] = custody_plans[k]
      /\ ~custody_plans'[key].reserved
    BY <1>1, <1>2, <1>3 DEF CustodyPlan
<1>5. \A q \in Principal, a \in Asset : key \notin Reserving(q, a) /\ key \notin Reserving(q, a)'
    BY <1>1, <1>2, <1>4 DEF Reserving
<1>6. /\ Held(p, b)' = Held(p, b) + 1
      /\ \A q \in Principal, a \in Asset : <<q, a>> # <<p, b>> => Held(q, a)' = Held(q, a)
    <2> PICK n : n = StateOf(p).balances[plan.domain][b]
        OBVIOUS
    <2>1. n \in Nat /\ n + 1 \in Nat /\ plan.domain \in Domain
        BY <1>1, StateType DEF TypeInv, AccountState, CustodyPlan
    <2>2. /\ StateOf(p)' = [StateOf(p) EXCEPT !.balances[plan.domain][b] = n + 1]
          /\ \A q \in Principal : q # p => StateOf(q)' = StateOf(q)
        BY <1>3 DEF StateOf, Put
    <2>3. /\ Held(p, b)' = Held(p, b) - n + (n + 1)
          /\ \A q \in Principal, a \in Asset : <<q, a>> # <<p, b>> => Held(q, a)' = Held(q, a)
        BY <1>1, <2>1, <2>2, HeldPut
    <2>4. Held(p, b) \in Nat
        BY <1>1, RestNow
    <2> QED BY <2>1, <2>3, <2>4
<1>7. /\ custody'[p][b] = custody[p][b] + 1
      /\ \A q \in Principal, a \in Asset : <<q, a>> # <<p, b>> => custody'[q][a] = custody[q][a]
    BY <1>1, <1>3 DEF TypeInv, LedgerType
<1>8. key \notin PaidOut
    BY <1>1 DEF PaidOut
<1>9. ASSUME PaidOut \subseteq PaidOut', FiniteStores'
      PROVE  Held(p, b)' + Cardinality(Reserving(p, b)') <= custody'[p][b] + Charged'
    <2>1. Reserving(p, b)' = Reserving(p, b)
        BY <1>1, <1>4, <1>5 DEF Reserving
    <2>2. Charged \in Nat /\ Charged' \in Nat /\ Charged <= Charged'
        BY <1>3, <1>9, UserFees
    <2> QED BY <1>1, <1>6, <1>7, <2>1, <2>2, RestNow
<1>10. \A q \in Principal, a \in Asset : <<q, a>> # <<p, b>> =>
          /\ Held(q, a)' = Held(q, a) /\ custody'[q][a] = custody[q][a]
          /\ key \notin Reserving(q, a) /\ key \notin Reserving(q, a)'
    BY <1>5, <1>6, <1>7
<1>11. UNCHANGED <<reassignment_plans, marks>> /\ (custody_plans'[key].reserved => key[2] \in WithdrawalId)
    BY <1>3, <1>4
<1> QED BY <1>1, <1>4, <1>8, <1>9, <1>10, <1>11, CustodyOfOne

(* A withdrawal takes its token out of the balance when it is covered. *)
LEMMA BeginWithdrawalCustody ==
    ASSUME "within_balance" \in Discipline, IsFiniteSet(Domain), CustodyInv, TransitInv',
           NEW r \in Request, r.op = "withdraw", BeginWithdrawal(r)
    PROVE  CustodyInv'
<1> PICK p, b, key : p = r.user /\ b = r.asset /\ key = <<r.user, r.id>>
    OBVIOUS
<1>1. /\ TypeInv /\ p \in Principal /\ b \in Asset /\ r.domain \in Domain /\ r.id \in WithdrawalId
      /\ ~marks[p].locked /\ UNCHANGED <<reassignment_plans, marks, custody>>
    BY RequestKinds DEF BeginWithdrawal, Acquired, CustodyInv, TransitInv, LockInv, BooksInv
<1>2. key \in DOMAIN custody_plans =>
          custody_plans[key].status # "Finalised" /\ ~custody_plans[key].reserved
    BY DEF BeginWithdrawal
<1>3. /\ DOMAIN custody_plans' = DOMAIN custody_plans \cup {key}
      /\ \A k \in DOMAIN custody_plans : k # key => custody_plans'[k] = custody_plans[k]
      /\ custody_plans'[key].asset = b
      /\ custody_plans'[key].reserved <=> WithdrawalCovered(r)
      /\ custody_plans'[key].status = IF WithdrawalCovered(r) THEN "Executing" ELSE "Planned"
    BY DEF BeginWithdrawal, Put, WithdrawalCovered
<1>4. /\ key \notin PaidOut /\ key[1] = p /\ key[2] = r.id
      /\ \A q \in Principal, a \in Asset : key \notin Reserving(q, a)
    BY <1>2 DEF PaidOut, Reserving
<1>5. \A q \in Principal, a \in Asset : <<q, a>> # <<p, b>> => key \notin Reserving(q, a)'
    BY <1>3, <1>4 DEF Reserving
<1>6. Reserving(p, b)' = IF WithdrawalCovered(r) THEN Reserving(p, b) \cup {key} ELSE Reserving(p, b)
    BY <1>1, <1>3, <1>4 DEF Reserving
<1>7. /\ Held(p, b)' = IF WithdrawalCovered(r) THEN Held(p, b) - 1 ELSE Held(p, b)
      /\ \A q \in Principal, a \in Asset : <<q, a>> # <<p, b>> => Held(q, a)' = Held(q, a)
    <2>1. CASE WithdrawalCovered(r)
        <3> PICK n : n = StateOf(p).balances[r.domain][b]
            OBVIOUS
        <3>1. /\ p \in DOMAIN account_states /\ n >= 1 /\ n \in Nat
              /\ account_states' = [account_states EXCEPT ![p] = Debited(@, r.domain, b)]
            <4>1. p \in DOMAIN account_states
                BY <2>1 DEF WithdrawalCovered
            <4>2. StateOf(p) \in AccountState /\ StateOf(p) = account_states[p]
                BY <1>1, <4>1, StateType DEF StateOf, TypeInv
            <4>3. n \in Nat
                BY <1>1, <4>2 DEF AccountState
            <4>4. n >= 1
                BY <2>1, <4>2 DEF WithdrawalCovered
            <4>5. account_states' = [account_states EXCEPT ![p] = Debited(@, r.domain, b)]
                BY <2>1 DEF BeginWithdrawal
            <4> QED BY <4>1, <4>3, <4>4, <4>5
        <3>2. n - 1 \in Nat /\ Less(n, 1) = n - 1
            BY <3>1 DEF Less
        <3>3. Debited(account_states[p], r.domain, b)
                = [StateOf(p) EXCEPT !.balances[r.domain][b] = n - 1]
            BY <3>1, <3>2 DEF Debited, StateOf
        <3>4. /\ StateOf(p)' = [StateOf(p) EXCEPT !.balances[r.domain][b] = n - 1]
              /\ \A q \in Principal : q # p => StateOf(q)' = StateOf(q)
            BY <3>1, <3>3 DEF StateOf
        <3>5. /\ Held(p, b)' = Held(p, b) - n + (n - 1)
              /\ \A q \in Principal, a \in Asset : <<q, a>> # <<p, b>> => Held(q, a)' = Held(q, a)
            BY <1>1, <3>2, <3>4, HeldPut
        <3>6. Held(p, b) \in Nat
            BY <1>1, RestNow
        <3> QED BY <2>1, <3>1, <3>5, <3>6
    <2>2. CASE ~WithdrawalCovered(r)
        <3>1. UNCHANGED account_states
            BY <2>2 DEF BeginWithdrawal
        <3> QED BY <1>1, <2>2, <3>1, SameStates DEF HeldKept
    <2> QED BY <2>1, <2>2
<1>8. ASSUME PaidOut \subseteq PaidOut', FiniteStores'
      PROVE  Held(p, b)' + Cardinality(Reserving(p, b)') <= custody'[p][b] + Charged'
    <2>1. Charged \in Nat /\ Charged' \in Nat /\ Charged <= Charged'
        BY <1>1, <1>8, UserFees
    <2>2. IsFiniteSet(Reserving(p, b)) /\ Cardinality(Reserving(p, b)) \in Nat
        BY <1>1, RestNow
    <2>3. WithdrawalCovered(r) => Cardinality(Reserving(p, b)') = Cardinality(Reserving(p, b)) + 1
        BY ZenonT(30), <1>1, <1>4, <1>6, <2>2, FS_AddElement
    <2> QED BY <1>1, <1>6, <1>7, <2>1, <2>2, <2>3, RestNow
<1> QED BY <1>1, <1>3, <1>4, <1>5, <1>7, <1>8, CustodyOfOne

(* The ledger pays, and charges its fee, or the token goes back. *)
LEMMA WithdrawalAnsweredCustody ==
    ASSUME IsFiniteSet(Domain), CustodyInv, TransitInv', NEW p \in Principal, NEW id,
           WithdrawalAnswered(p, id)
    PROVE  CustodyInv'
<1> PICK key, plan : key = <<p, id>> /\ plan = custody_plans[key]
    OBVIOUS
<1> PICK b : b = plan.asset
    OBVIOUS
<1>1. /\ TypeInv /\ ~marks[p].locked /\ key \in DOMAIN custody_plans /\ id \in WithdrawalId
      /\ plan.status = "Executing" /\ plan.reserved /\ plan \in CustodyPlan /\ b \in Asset
      /\ UNCHANGED <<reassignment_plans, marks>>
    <2>1. TypeInv /\ LockInv
        BY DEF CustodyInv, TransitInv, LockInv, BooksInv
    <2>2. /\ key \in DOMAIN custody_plans /\ plan.status = "Executing" /\ plan.reserved
          /\ id \in WithdrawalId /\ UNCHANGED <<reassignment_plans, marks>>
        BY DEF WithdrawalAnswered
    <2>3. plan \in CustodyPlan
        BY <2>1, <2>2 DEF TypeInv, PlansType
    <2> QED BY <2>1, <2>2, <2>3, PlanUnlocked DEF CustodyPlan
<1>2. /\ key \notin PaidOut /\ key[1] = p /\ key[2] \in WithdrawalId /\ key \in Reserving(p, b)
      /\ \A q \in Principal, a \in Asset : <<q, a>> # <<p, b>> => key \notin Reserving(q, a)
    BY <1>1 DEF PaidOut, Reserving
<1>3. \/ custody_plans' = [custody_plans EXCEPT ![key].status = "Finalised"]
      \/ custody_plans' = [custody_plans EXCEPT ![key].reserved = FALSE]
    BY DEF WithdrawalAnswered, Finalise
<1>4. /\ DOMAIN custody_plans' = DOMAIN custody_plans \cup {key}
      /\ \A k \in DOMAIN custody_plans : k # key => custody_plans'[k] = custody_plans[k]
      /\ custody_plans'[key].asset = b
      /\ custody_plans'[key].status = "Finalised" \/ ~custody_plans'[key].reserved
    BY <1>1, <1>3 DEF CustodyPlan
<1>5. \A q \in Principal, a \in Asset : key \notin Reserving(q, a)'
    BY <1>4 DEF Reserving
<1>6. Reserving(p, b)' = Reserving(p, b) \ {key}
    BY <1>4, <1>5 DEF Reserving
<1>7. /\ IsFiniteSet(Reserving(p, b))
      /\ Cardinality(Reserving(p, b)') = Cardinality(Reserving(p, b)) - 1
      /\ Held(p, b) \in Nat /\ custody[p][b] \in Nat /\ Cardinality(Reserving(p, b)) \in Nat
      /\ Held(p, b) + Cardinality(Reserving(p, b)) <= custody[p][b] + Charged
    <2>1. /\ IsFiniteSet(Reserving(p, b))
          /\ Held(p, b) \in Nat /\ custody[p][b] \in Nat /\ Cardinality(Reserving(p, b)) \in Nat
          /\ Held(p, b) + Cardinality(Reserving(p, b)) <= custody[p][b] + Charged
        BY <1>1, RestNow
    <2>2. Cardinality(Reserving(p, b) \ {key}) = Cardinality(Reserving(p, b)) - 1
        BY <1>2, <2>1, FS_RemoveElement
    <2> QED BY <1>6, <2>1, <2>2
<1>8. CASE custody[p][b] >= 1 + Fee /\ custody' = [custody EXCEPT ![p][b] = @ - 1 - Fee]
           /\ Finalise(key) /\ UNCHANGED account_states
    <2>1. /\ custody'[p][b] = custody[p][b] - 1 - Fee
          /\ \A q \in Principal, a \in Asset : <<q, a>> # <<p, b>> => custody'[q][a] = custody[q][a]
        BY <1>1, <1>8 DEF TypeInv, LedgerType
    <2>2. \A q \in Principal, a \in Asset : Held(q, a)' = Held(q, a)
        BY <1>8, SameStates DEF HeldKept
    <2>3. key \in PaidOut'
        BY <1>1, <1>2, <1>8 DEF PaidOut, Finalise, CustodyPlan
    <2>4. ASSUME PaidOut \subseteq PaidOut', FiniteStores'
          PROVE  Held(p, b)' + Cardinality(Reserving(p, b)') <= custody'[p][b] + Charged'
        <3>1. Charged \in Nat /\ Charged' \in Nat /\ Charged + Fee <= Charged' /\ Fee \in Nat
            BY <1>1, <1>2, <2>3, <2>4, UserFees, AccountsAssumption
        <3>2. Held(p, b)' = Held(p, b)
            BY <1>1, <2>2
        <3> QED BY <1>7, <2>1, <3>1, <3>2
    <2> QED BY <1>1, <1>2, <1>4, <1>5, <2>1, <2>2, <2>4, CustodyOfOne
<1>9. CASE /\ account_states' = Put(account_states, p,
                  [StateOf(p) EXCEPT !.balances[plan.domain][b] = @ + 1])
           /\ UNCHANGED custody
    <2> PICK n : n = StateOf(p).balances[plan.domain][b]
        OBVIOUS
    <2>1. n \in Nat /\ n + 1 \in Nat /\ plan.domain \in Domain
        BY <1>1, StateType DEF TypeInv, AccountState, CustodyPlan
    <2>2. /\ StateOf(p)' = [StateOf(p) EXCEPT !.balances[plan.domain][b] = n + 1]
          /\ \A q \in Principal : q # p => StateOf(q)' = StateOf(q)
        BY <1>9 DEF StateOf, Put
    <2>3. /\ Held(p, b)' = Held(p, b) - n + (n + 1)
          /\ \A q \in Principal, a \in Asset : <<q, a>> # <<p, b>> => Held(q, a)' = Held(q, a)
        BY <1>1, <2>1, <2>2, HeldPut
    <2>4. ASSUME PaidOut \subseteq PaidOut', FiniteStores'
          PROVE  Held(p, b)' + Cardinality(Reserving(p, b)') <= custody'[p][b] + Charged'
        <3>1. Charged \in Nat /\ Charged' \in Nat /\ Charged <= Charged'
            BY <1>1, <2>4, UserFees
        <3>2. custody'[p][b] = custody[p][b]
            BY <1>9
        <3> QED BY <1>7, <2>1, <2>3, <3>1, <3>2
    <2>5. \A q \in Principal, a \in Asset : custody'[q][a] = custody[q][a]
        BY <1>9
    <2> QED BY <1>1, <1>2, <1>4, <1>5, <2>3, <2>4, <2>5, CustodyOfOne
<1> QED BY <1>8, <1>9 DEF WithdrawalAnswered

(* The lock is that of the plans, whatever the step. *)
LEMMA SameLocks ==
    ASSUME LockInv, LockInv', SamePlans
    PROVE  \A p \in Principal : marks'[p].locked <=> marks[p].locked
<1>1. \A p \in Principal : marks[p].locked <=>
          \E k \in DOMAIN reassignment_plans :
              Pending(reassignment_plans[k]) /\ p \in {k[1], reassignment_plans[k].new_owner}
    BY DEF LockInv, LockedWhilePending
<1>2. \A p \in Principal : marks'[p].locked <=>
          \E k \in DOMAIN reassignment_plans' :
              Pending(reassignment_plans'[k]) /\ p \in {k[1], reassignment_plans'[k].new_owner}
    BY DEF LockInv, LockedWhilePending, Pending
<1> QED BY <1>1, <1>2 DEF SamePlans

(* What the invariant says of an account on its way. *)
LEMMA TransitNow ==
    ASSUME IsFiniteSet(Domain), CustodyInv, NEW k \in PendingKeys, NEW a \in Asset, NEW q,
           q = reassignment_plans[k].new_owner
    PROVE  /\ q \in Principal /\ k[1] \in Principal /\ marks[q].locked /\ marks[k[1]].locked
           /\ Held(q, a) \in Nat /\ custody[q][a] \in Nat /\ custody[k[1]][a] \in Nat
           /\ Held(q, a) <= custody[q][a] + AtLeastFee(custody[k[1]][a]) + Charged
           /\ a \notin Unswept(reassignment_plans[k]) => Held(q, a) = 0 \/ custody[k[1]][a] <= Fee
<1>1. q \in Principal /\ k[1] \in Principal /\ marks[q].locked /\ marks[k[1]].locked
    BY LockedParties DEF CustodyInv, TransitInv
<1>2. Held(q, a) \in Nat /\ custody[q][a] \in Nat /\ custody[k[1]][a] \in Nat
    BY <1>1, CountsNow DEF CustodyInv, TransitInv, LockInv, BooksInv, Counts
<1> QED BY <1>1, <1>2 DEF CustodyInv, CoveredInTransit

(* The ledger moves the tokens of an asset, all but its fee. *)
LEMMA MovedCustody ==
    ASSUME IsFiniteSet(Domain), CustodyInv, TransitInv', NEW t \in LedgerTransfer,
           PlanKey(t.move) \in PendingKeys,
           reassignment_plans[PlanKey(t.move)].new_owner = t.move.new,
           t.asset \in Unswept(reassignment_plans[PlanKey(t.move)]),
           custody[t.move.old][t.asset] <= t.amount + Fee, Covers(t), custody' = Moved(t),
           UNCHANGED <<book, custody_plans, reassignment_plans, marks>>
    PROVE  CustodyInv'
<1> PICK key, old, new, b, n : /\ key = PlanKey(t.move) /\ old = t.move.old /\ new = t.move.new
                               /\ b = t.asset /\ n = t.amount
    OBVIOUS
<1>1. /\ old \in Principal /\ new \in Principal /\ b \in Asset /\ n \in Nat /\ Fee \in Nat
      /\ key \in PendingKeys /\ key[1] = old /\ reassignment_plans[key].new_owner = new
      /\ b \in Unswept(reassignment_plans[key])
    BY MoveKinds, AccountsAssumption DEF LedgerTransfer
<1>2. /\ LockInv /\ TypeInv /\ old # new /\ marks[old].locked /\ marks[new].locked
    BY <1>1, LockedParties DEF CustodyInv, TransitInv, LockInv, BooksInv, PartiesApart
<1>3. custody[old][b] = n + Fee
    <2>1. custody[old][b] \in Nat
        BY <1>1, <1>2 DEF TypeInv, LedgerType
    <2>2. custody[old][b] >= n + Fee /\ custody[old][b] <= n + Fee
        BY DEF Covers
    <2> QED BY <1>1, <2>1, <2>2
<1>4. \A p \in Principal, a \in Asset : custody'[p][a] =
          IF <<p, a>> = <<old, b>> THEN 0
          ELSE IF <<p, a>> = <<new, b>> THEN custody[new][b] + n ELSE custody[p][a]
    BY <1>1, <1>2, <1>3 DEF Moved, TypeInv, LedgerType
<1>5. \A p \in Principal, a \in Asset : Held(p, a)' = Held(p, a) /\ Reserving(p, a)' = Reserving(p, a)
    BY SameStates DEF HeldKept, book, Reserving
<1>6. FiniteStores' /\ ReservedOnce' /\ PaidOut' = PaidOut
    BY DEF CustodyInv, FiniteStores, ReservedOnce, PaidOut
<1>7. Charged \in Nat /\ Charged' \in Nat /\ Charged <= Charged'
    BY <1>6, UserFees
<1>8. CoveredAtRest'
    <2> SUFFICES ASSUME NEW p \in Principal, NEW a \in Asset, ~marks[p].locked
                 PROVE  Held(p, a)' + Cardinality(Reserving(p, a)') <= custody'[p][a] + Charged'
        BY DEF CoveredAtRest
    <2>1. custody'[p][a] = custody[p][a]
        BY <1>2, <1>4
    <2> QED BY <1>5, <1>7, <2>1, RestNow
<1>9. CoveredInTransit'
    <2> SUFFICES ASSUME NEW k \in PendingKeys, NEW a \in Asset, NEW q,
                        q = reassignment_plans[k].new_owner
                 PROVE  /\ Held(q, a)' <= custody'[q][a] + AtLeastFee(custody'[k[1]][a]) + Charged'
                        /\ a \notin Unswept(reassignment_plans[k]) =>
                              Held(q, a)' = 0 \/ custody'[k[1]][a] <= Fee
        BY DEF CoveredInTransit, PendingKeys
    <2>1. /\ q \in Principal /\ k[1] \in Principal
          /\ Held(q, a) \in Nat /\ custody[q][a] \in Nat /\ custody[k[1]][a] \in Nat
          /\ Held(q, a) <= custody[q][a] + AtLeastFee(custody[k[1]][a]) + Charged
          /\ a \notin Unswept(reassignment_plans[k]) => Held(q, a) = 0 \/ custody[k[1]][a] <= Fee
        BY TransitNow
    <2>2. CASE k = key /\ a = b
        <3>1. q = new /\ k[1] = old
            BY <1>1, <2>2
        <3>2. custody'[new][b] = custody[new][b] + n /\ custody'[old][b] = 0
            BY <1>1, <1>2, <1>4
        <3>3. AtLeastFee(n + Fee) = n + Fee /\ AtLeastFee(0) = Fee
            BY <1>1 DEF AtLeastFee
        <3> QED BY <1>1, <1>3, <1>5, <1>7, <2>1, <2>2, <3>1, <3>2, <3>3
    <2>3. CASE k # key \/ a # b
        <3>1. k # key => {q, k[1]} \cap {old, new} = {}
            BY <1>1, <1>2 DEF LockInv, PartiesApart, Parties
        <3>2. custody'[q][a] = custody[q][a] /\ custody'[k[1]][a] = custody[k[1]][a]
            BY ZenonT(30), <1>4, <2>1, <2>3, <3>1
        <3>3. AtLeastFee(custody[k[1]][a]) \in Nat
            BY <1>1, <2>1 DEF AtLeastFee
        <3> QED BY <1>5, <1>7, <2>1, <3>2, <3>3
    <2> QED BY <2>2, <2>3
<1> QED BY <1>6, <1>8, <1>9 DEF CustodyInv

LEMMA HeldNothing ==
    ASSUME IsFiniteSet(Domain), NEW a \in Asset PROVE HeldOf(Empty, a) = 0
<1>1. \A d \in Domain : BalancesOf(Empty, a)[d] = 0
    BY DEF BalancesOf, Empty
<1> QED BY <1>1, HeldIsSum, SumZero

(* Who has no account holds nothing, and who is locked has no withdrawal. *)
LEMMA GoneHoldsNothing ==
    ASSUME IsFiniteSet(Domain), NEW p, NEW a \in Asset
    PROVE  /\ p \notin DOMAIN account_states => Held(p, a) = 0
           /\ p \notin DOMAIN account_states' => Held(p, a)' = 0
<1>1. p \notin DOMAIN account_states => StateOf(p) = Empty
    BY DEF StateOf
<1>2. p \notin DOMAIN account_states' => StateOf(p)' = Empty
    BY DEF StateOf
<1> QED BY <1>1, <1>2, HeldByState, HeldNothing

LEMMA LockedReservesNothing ==
    ASSUME LockInv, NEW p \in Principal, marks[p].locked, NEW a PROVE Reserving(p, a) = {}
BY RestingNow DEF Reserving

(* An asset of an account on its way is drained; with the last one the two
   principals come to rest, and one more fee is accounted for. *)
LEMMA DrainedCustody ==
    ASSUME IsFiniteSet(Domain), CustodyInv, TransitInv', NEW key, NEW b, Drained(key, b),
           UNCHANGED custody_plans
    PROVE  CustodyInv'
<1> PICK new : new = reassignment_plans[key].new_owner
    OBVIOUS
<1>1. /\ key \in PendingKeys /\ b \in Asset /\ b \in Unswept(reassignment_plans[key])
      /\ custody[key[1]][b] <= Fee /\ UNCHANGED <<book, custody, custody_plans>>
      /\ LockInv /\ LockInv' /\ PendingUnswept' /\ Fee \in Nat
    BY AccountsAssumption DEF Drained, CustodyInv, TransitInv
<1>2. PICK stored : \E amount \in Nat :
          /\ stored.new_owner = new
          /\ stored.sweeps = [reassignment_plans[key].sweeps EXCEPT ![b] = amount]
          /\ reassignment_plans' = Put(reassignment_plans, key, stored)
    BY DEF Drained
<1>3. Unswept(stored) = Unswept(reassignment_plans[key]) \ {b}
    BY <1>2, ReassignmentAssumption DEF Unswept
<1>4. /\ DOMAIN reassignment_plans' = DOMAIN reassignment_plans
      /\ reassignment_plans'[key] = stored
      /\ \A k \in DOMAIN reassignment_plans : k # key => reassignment_plans'[k] = reassignment_plans[k]
    BY <1>1, <1>2 DEF Put, PendingKeys
<1>5. \A p \in Principal, a \in Asset :
          /\ Held(p, a)' = Held(p, a) /\ Reserving(p, a)' = Reserving(p, a)
          /\ custody'[p][a] = custody[p][a]
    BY <1>1, SameStates DEF HeldKept, book, Reserving
<1>6. FiniteStores' /\ ReservedOnce' /\ PaidOut' = PaidOut
    BY <1>1, <1>4 DEF CustodyInv, FiniteStores, ReservedOnce, PaidOut
<1>7. /\ FinishedMoves' = IF Pending(stored) THEN FinishedMoves ELSE FinishedMoves \cup {key}
      /\ key \notin FinishedMoves
    BY <1>1, <1>4 DEF FinishedMoves, PendingKeys, Pending
<1>8. /\ Charged \in Nat /\ Charged' \in Nat /\ Charged <= Charged'
      /\ ~Pending(stored) => Charged + Fee <= Charged'
    BY <1>6, <1>7, ChargedGrows DEF CustodyInv
<1>9. Pending(stored) <=> Unswept(stored) # {}
    BY <1>1, <1>4 DEF PendingUnswept, PendingKeys, Pending, Unswept
<1>10. \A k \in PendingKeys' : k \in PendingKeys /\ (k = key => Pending(stored))
    BY <1>4, <1>1 DEF PendingKeys, Pending
<1>11. CoveredAtRest'
    <2> SUFFICES ASSUME NEW p \in Principal, NEW a \in Asset, ~marks'[p].locked
                 PROVE  Held(p, a) + Cardinality(Reserving(p, a)) <= custody[p][a] + Charged'
        BY <1>5 DEF CoveredAtRest
    <2>1. CASE ~marks[p].locked
        BY <1>8, <2>1, RestNow
    <2>2. CASE marks[p].locked
        <3>1. Reserving(p, a) = {} /\ Cardinality(Reserving(p, a)) = 0
            BY <1>1, <2>2, LockedReservesNothing, FS_EmptySet
        <3>2. p \in {key[1], new} /\ ~Pending(stored)
            <4>1. PICK k \in DOMAIN reassignment_plans :
                      Pending(reassignment_plans[k]) /\ p \in {k[1], reassignment_plans[k].new_owner}
                BY <1>1, <2>2 DEF LockInv, LockedWhilePending
            <4>2. ~(Pending(reassignment_plans'[k]) /\ p \in {k[1], reassignment_plans'[k].new_owner})
                BY <1>1, <1>4, <4>1 DEF LockInv, LockedWhilePending, Pending
            <4>3. k = key
                BY <1>4, <4>1, <4>2
            <4> QED BY <1>2, <1>4, <4>1, <4>2, <4>3
        <3>3. custody[p][a] \in Nat
            BY <1>1 DEF LockInv, BooksInv, TypeInv, LedgerType
        <3>4. CASE p = key[1]
            <4>1. Held(p, a) = 0
                BY <1>1, <3>4, RestingNow, GoneHoldsNothing
            <4> QED BY <1>8, <3>1, <3>3, <4>1
        <3>5. CASE p = new
            <4>1. /\ Held(new, a) \in Nat /\ custody[new][a] \in Nat /\ custody[key[1]][a] \in Nat
                  /\ Held(new, a) <= custody[new][a] + AtLeastFee(custody[key[1]][a]) + Charged
                  /\ a \notin Unswept(reassignment_plans[key]) =>
                        Held(new, a) = 0 \/ custody[key[1]][a] <= Fee
                BY <1>1, TransitNow
            <4>2. Held(new, a) = 0 \/ custody[key[1]][a] <= Fee
                BY <1>1, <1>3, <1>9, <3>2, <4>1
            <4>3. custody[key[1]][a] <= Fee => AtLeastFee(custody[key[1]][a]) = Fee
                BY <1>1, <4>1 DEF AtLeastFee
            <4> QED BY <1>1, <1>8, <3>1, <3>2, <3>5, <4>1, <4>2, <4>3
        <3> QED BY <3>2, <3>4, <3>5
    <2> QED BY <2>1, <2>2
<1>12. CoveredInTransit'
    <2> SUFFICES ASSUME NEW k \in PendingKeys', NEW a \in Asset, NEW q,
                        q = reassignment_plans'[k].new_owner
                 PROVE  /\ Held(q, a)' <= custody'[q][a] + AtLeastFee(custody'[k[1]][a]) + Charged'
                        /\ a \notin Unswept(reassignment_plans'[k]) =>
                              Held(q, a)' = 0 \/ custody'[k[1]][a] <= Fee
        BY DEF CoveredInTransit
    <2>1. k \in PendingKeys /\ q = reassignment_plans[k].new_owner
        BY <1>2, <1>4, <1>10 DEF PendingKeys
    <2>2. /\ q \in Principal /\ k[1] \in Principal
          /\ Held(q, a) \in Nat /\ custody[q][a] \in Nat /\ custody[k[1]][a] \in Nat
          /\ Held(q, a) <= custody[q][a] + AtLeastFee(custody[k[1]][a]) + Charged
          /\ a \notin Unswept(reassignment_plans[k]) => Held(q, a) = 0 \/ custody[k[1]][a] <= Fee
        BY <2>1, TransitNow
    <2>3. AtLeastFee(custody[k[1]][a]) \in Nat
        BY <1>1, <2>2 DEF AtLeastFee
    <2>4. a \notin Unswept(reassignment_plans'[k]) => Held(q, a) = 0 \/ custody[k[1]][a] <= Fee
        <3>1. CASE k = key /\ a = b
            BY <1>1, <3>1
        <3>2. CASE ~(k = key /\ a = b)
            <4>1. Unswept(reassignment_plans'[k]) = IF k = key THEN Unswept(reassignment_plans[k]) \ {b}
                                                    ELSE Unswept(reassignment_plans[k])
                BY <1>3, <1>4, <2>1 DEF PendingKeys
            <4> QED BY <2>2, <3>2, <4>1
        <3> QED BY <3>1, <3>2
    <2> QED BY <1>5, <1>8, <2>2, <2>3, <2>4
<1> QED BY <1>6, <1>11, <1>12 DEF CustodyInv

(* The tokens an account holds go with it. *)
LEMMA RekeyedHeld ==
    ASSUME IsFiniteSet(Domain), NEW m \in Move, MayReassign(m), Rekey(m), NEW a \in Asset
    PROVE  /\ Held(m.new, a)' = Held(m.old, a) /\ Held(m.old, a)' = 0
           /\ \A p \in Principal : p \notin {m.old, m.new} => Held(p, a)' = Held(p, a)
<1>1. m.old # m.new /\ m.old \in DOMAIN account_states
    BY DEF MayReassign
<1>2. PICK rest : rest = Without(account_states, {m.old})
    OBVIOUS
<1>3. /\ DOMAIN rest = DOMAIN account_states \ {m.old}
      /\ \A p \in DOMAIN account_states \ {m.old} : rest[p] = account_states[p]
    BY <1>2, WithoutMap
<1>4. account_states' = Put(rest, m.new, account_states[m.old])
    BY <1>2 DEF Rekey
<1>5. StateOf(m.new)' = StateOf(m.old)
    BY <1>1, <1>4 DEF StateOf, Put
<1>6. m.old \notin DOMAIN account_states'
    BY <1>1, <1>3, <1>4 DEF Put
<1>7. \A p : p \notin {m.old, m.new} => StateOf(p)' = StateOf(p)
    BY <1>3, <1>4 DEF StateOf, Put
<1> QED BY <1>5, <1>6, <1>7, HeldByState, GoneHoldsNothing

LEMMA BeginReassignCustody ==
    ASSUME IsFiniteSet(Domain), CustodyInv, TransitInv', NEW c \in CallId, NEW m \in Move,
           BeginReassign(c, m)
    PROVE  CustodyInv'
<1> PICK key, old, new : key = PlanKey(m) /\ old = m.old /\ new = m.new
    OBVIOUS
<1>1. /\ MayReassign(m) /\ Rekey(m) /\ UNCHANGED <<custody_plans, custody>>
      /\ key \notin DOMAIN reassignment_plans /\ key[1] = old
      /\ old \in Principal /\ new \in Principal /\ old # new
      /\ ~marks[old].locked /\ ~marks[new].locked
      /\ NoInFlightPlans(old) /\ NoInFlightPlans(new)
    BY MoveKinds DEF BeginReassign, MayReassign
<1>2. LockInv /\ LockInv' /\ PendingUnswept' /\ Fee \in Nat
    BY AccountsAssumption DEF CustodyInv, TransitInv
<1>3. PICK stored : Stores(c, m, NewPlan(m), Lock(m), stored)
    BY ContinueStores, NewPlanType DEF BeginReassign
<1>4. /\ DOMAIN reassignment_plans' = DOMAIN reassignment_plans \cup {key}
      /\ reassignment_plans'[key] = stored
      /\ \A k \in DOMAIN reassignment_plans : reassignment_plans'[k] = reassignment_plans[k]
    BY <1>1, <1>3 DEF Stores, Put
<1>5. stored.new_owner = new /\ Unswept(stored) = CustodyAssets(old)
    BY <1>3, NewPlanType DEF Stores, Unswept, NewPlan
<1>6. \A a \in Asset :
          /\ Held(new, a)' = Held(old, a) /\ Held(old, a)' = 0
          /\ \A p \in Principal : p \notin {old, new} => Held(p, a)' = Held(p, a)
    BY <1>1, RekeyedHeld
<1>7. FiniteStores' /\ ReservedOnce' /\ PaidOut' = PaidOut
    <2>1. IsFiniteSet(DOMAIN reassignment_plans')
        BY <1>4, FS_AddElement DEF CustodyInv, FiniteStores
    <2> QED BY <1>1, <2>1 DEF CustodyInv, FiniteStores, ReservedOnce, PaidOut
<1>8. Charged \in Nat /\ Charged' \in Nat /\ Charged <= Charged'
    <2>1. FinishedMoves \subseteq FinishedMoves'
        BY <1>1, <1>4 DEF FinishedMoves, Pending
    <2> QED BY <1>7, <2>1, ChargedGrows DEF CustodyInv
<1>9. \A p, a : Reserving(p, a)' = Reserving(p, a)
    BY <1>1 DEF Reserving
<1>10. key \in PendingKeys' <=> CustodyAssets(old) # {}
    BY <1>2, <1>4, <1>5 DEF PendingUnswept, PendingKeys, Pending, Unswept
<1>11. CoveredAtRest'
    <2> SUFFICES ASSUME NEW p \in Principal, NEW a \in Asset, ~marks'[p].locked
                 PROVE  Held(p, a)' + Cardinality(Reserving(p, a)) <= custody[p][a] + Charged'
        BY <1>1, <1>9 DEF CoveredAtRest
    <2>1. ~marks[p].locked
        BY <1>2, <1>4 DEF LockInv, LockedWhilePending, Pending
    <2>2. /\ Held(p, a) \in Nat /\ custody[p][a] \in Nat /\ Cardinality(Reserving(p, a)) \in Nat
          /\ Held(p, a) + Cardinality(Reserving(p, a)) <= custody[p][a] + Charged
        BY <2>1, RestNow
    <2>3. CASE p \notin {old, new}
        BY <1>6, <1>8, <2>2, <2>3
    <2>4. CASE p \in {old, new}
        <3>1. Reserving(p, a) = {} /\ Cardinality(Reserving(p, a)) = 0
            BY <1>1, <2>4, FS_EmptySet DEF NoInFlightPlans, Reserving
        <3>2. ~Pending(stored)
            BY <1>2, <1>4, <1>5, <1>1, <2>4 DEF LockInv, LockedWhilePending, Pending
        <3>3. CustodyAssets(old) = {}
            BY <1>4, <1>10, <3>2 DEF PendingKeys, Pending
        <3>4. Held(old, a) = 0
            <4>1. Held(old, a) \in Nat
                BY <1>1, RestNow
            <4> QED BY <3>3, <4>1 DEF CustodyAssets
        <3>5. Held(p, a)' = 0
            BY <1>6, <2>4, <3>4
        <3> QED BY <1>8, <2>2, <3>1, <3>5
    <2> QED BY <2>3, <2>4
<1>12. CoveredInTransit'
    <2> SUFFICES ASSUME NEW k \in PendingKeys', NEW a \in Asset, NEW q,
                        q = reassignment_plans'[k].new_owner
                 PROVE  /\ Held(q, a)' <= custody[q][a] + AtLeastFee(custody[k[1]][a]) + Charged'
                        /\ a \notin Unswept(reassignment_plans'[k]) =>
                              Held(q, a)' = 0 \/ custody[k[1]][a] <= Fee
        BY <1>1 DEF CoveredInTransit
    <2>1. CASE k = key
        <3>1. q = new /\ Unswept(reassignment_plans'[k]) = CustodyAssets(old) /\ k[1] = old
            BY <1>1, <1>4, <1>5, <2>1
        <3>2. /\ Held(old, a) \in Nat /\ custody[old][a] \in Nat /\ custody[new][a] \in Nat
              /\ Cardinality(Reserving(old, a)) \in Nat
              /\ Held(old, a) + Cardinality(Reserving(old, a)) <= custody[old][a] + Charged
            BY <1>1, RestNow
        <3>3. AtLeastFee(custody[old][a]) \in Nat /\ custody[old][a] <= AtLeastFee(custody[old][a])
            BY <1>2, <3>2 DEF AtLeastFee
        <3>4. a \notin CustodyAssets(old) => Held(old, a) = 0
            BY <3>2 DEF CustodyAssets
        <3>5. Held(q, a)' = Held(old, a)
            BY <1>6, <3>1
        <3> QED BY <1>8, <3>1, <3>2, <3>3, <3>4, <3>5
    <2>2. CASE k # key
        <3>1. /\ k \in PendingKeys /\ q = reassignment_plans[k].new_owner
              /\ reassignment_plans'[k] = reassignment_plans[k]
            BY <1>4, <2>2 DEF PendingKeys, Pending
        <3>2. /\ q \in Principal /\ marks[q].locked
              /\ Held(q, a) \in Nat /\ custody[q][a] \in Nat /\ custody[k[1]][a] \in Nat
              /\ Held(q, a) <= custody[q][a] + AtLeastFee(custody[k[1]][a]) + Charged
              /\ a \notin Unswept(reassignment_plans[k]) => Held(q, a) = 0 \/ custody[k[1]][a] <= Fee
            BY <3>1, TransitNow
        <3>3. Held(q, a)' = Held(q, a)
            BY <1>1, <1>6, <3>2
        <3>4. AtLeastFee(custody[k[1]][a]) \in Nat
            BY <1>2, <3>2 DEF AtLeastFee
        <3> QED BY <1>8, <3>1, <3>2, <3>3, <3>4
    <2> QED BY <2>1, <2>2
<1> QED BY <1>7, <1>11, <1>12 DEF CustodyInv

(* The accounts some deposits opened hold what the subaccounts hold. *)
LEMMA OpenedHolds ==
    ASSUME IsFiniteSet(Domain), NEW p \in Principal, NEW a \in Asset
    PROVE  HeldOf(Opened(p), a) = Opening[p][a]
<1> DEFINE f == BalancesOf(Opened(p), a)
<1>1. Opening[p][a] \in Nat /\ OpeningDomain \in Domain
    BY AccountsAssumption
<1>2. \A d \in Domain : f[d] = IF d = OpeningDomain THEN Opening[p][a] ELSE 0
    BY AccountsAssumption DEF BalancesOf, Opened, Empty
<1> HIDE DEF f
<1>3. SumOver(f, Domain) = f[OpeningDomain] + SumOver(f, Domain \ {OpeningDomain})
    BY <1>1, <1>2, SumRemove
<1>4. SumOver(f, Domain \ {OpeningDomain}) = 0
    <2>1. IsFiniteSet(Domain \ {OpeningDomain})
        BY FS_Subset
    <2> QED BY <1>2, <2>1, SumZero
<1> QED BY <1>1, <1>2, <1>3, <1>4, HeldIsSum DEF f

LEMMA CustodyInit == ASSUME IsFiniteSet(Domain), Init PROVE CustodyInv
<1>1. TransitInv
    BY TransitInit
<1>2. FiniteStores /\ ReservedOnce /\ PaidOut = {} /\ FinishedMoves = {} /\ PendingKeys = {}
    BY FS_EmptySet DEF Init, EmptyMap, FiniteStores, ReservedOnce, PaidOut, FinishedMoves, PendingKeys
<1>3. Charged \in Nat
    <2>1. FeesPaid = 0
        BY <1>2, FeesNow, FS_EmptySet DEF FeesCounted
    <2> QED BY <2>1, AccountsAssumption DEF Charged
<1>4. CoveredAtRest
    <2> SUFFICES ASSUME NEW p \in Principal, NEW a \in Asset
                 PROVE  Held(p, a) + Cardinality(Reserving(p, a)) <= custody[p][a] + Charged
        BY DEF CoveredAtRest
    <2>1. Cardinality(Reserving(p, a)) = 0
        <3>1. Reserving(p, a) = {}
            BY DEF Reserving, Init, EmptyMap
        <3> QED BY <3>1, FS_EmptySet
    <2>2. StateOf(p) = Opened(p)
        BY DEF StateOf, Init
    <2>3. Held(p, a) = Opening[p][a] /\ custody[p][a] = Opening[p][a] /\ Opening[p][a] \in Nat
        BY <2>2, HeldByState, OpenedHolds, AccountsAssumption DEF Init
    <2> QED BY <1>3, <2>1, <2>3
<1>5. CoveredInTransit
    BY <1>2 DEF CoveredInTransit
<1> QED BY <1>1, <1>2, <1>4, <1>5 DEF CustodyInv

LEMMA AccountsCustody ==
    ASSUME "within_balance" \in Discipline, IsFiniteSet(Domain), CustodyInv, TransitInv',
           AccountsNext \/ MigrationNext \/ UNCHANGED vars
    PROVE  CustodyInv'
<1>1. TypeInv
    BY DEF CustodyInv, TransitInv, LockInv, BooksInv
<1>2. ASSUME HeldKept, UNCHANGED <<reassignment_plans, marks, custody, custody_plans>>
      PROVE  CustodyInv'
    BY <1>2, CustodyQuiet DEF SamePlans
<1>3. CASE \E r \in Request : r.op = "deposit" /\ BeginDeposit(r)
    BY <1>3, BeginDepositCustody
<1>4. CASE \E r \in Request : r.op = "withdraw" /\ BeginWithdrawal(r)
    BY <1>4, BeginWithdrawalCustody
<1>5. CASE \E p \in Principal : \/ \E id \in DepositId : DepositSettled(p, id)
                                \/ \E id \in WithdrawalId : WithdrawalAnswered(p, id)
    BY <1>5, DepositSettledCustody, WithdrawalAnsweredCustody
<1>6. CASE \E c \in UserCallId : FinishMatched(c)
    <2>1. HeldKept
        BY <1>1, <1>6, TradeHeld DEF FinishMatched
    <2> QED BY <1>2, <1>6, <2>1 DEF FinishMatched
<1>7. CASE \E r \in Request : \/ FreezePosition(r)
                               \/ \E c \in UserCallId : BeginOrder(c, r) \/ BeginMatched(c, r)
    <2>1. HeldKept
        BY <1>7, SameStates DEF FreezePosition, BeginOrder, BeginMatched, book
    <2> QED BY <1>2, <1>7, <2>1 DEF FreezePosition, BeginOrder, BeginMatched
<1>8. CASE (\E r \in Request : BeginSettlement(r)) \/ \E s \in SeriesId : ApplySettlement(s)
    <2>1. HeldKept
        BY <1>1, <1>8, SettlementHeld
    <2> QED BY <1>2, <1>8, <2>1 DEF BeginSettlement, ApplySettlement
<1>9. CASE \E id \in OrderId : CancelOrder(id)
    <2>1. HeldKept
        BY <1>1, <1>9, CancelOrderHeld
    <2> QED BY <1>2, <1>9, <2>1 DEF CancelOrder
<1>10. CASE \E c \in UserCallId : FinishOrder(c)
    <2>1. HeldKept
        BY <1>1, <1>10, FinishOrderHeld
    <2> QED BY <1>2, <1>10, <2>1 DEF FinishOrder
<1>11. CASE UNCHANGED vars \/ \E c \in UserCallId : RefuseOrder(c)
    <2>1. HeldKept
        BY <1>11, SameStates DEF RefuseOrder, book, vars
    <2> QED BY <1>2, <1>11, <2>1 DEF RefuseOrder, vars
<1>12. CASE MigrationNext
    <2>1. HeldKept
        BY <1>1, <1>12, MigrationHeld
    <2> QED BY <1>2, <1>12, <2>1 DEF MigrationNext, MigrateDomain, RefuseMigration
<1> QED BY <1>3, <1>4, <1>5, <1>6, <1>7, <1>8, <1>9, <1>10, <1>11, <1>12 DEF AccountsNext, Respond

LEMMA ReassignmentCustody ==
    ASSUME "serial" \in Discipline, "in_order" \in Discipline, IsFiniteSet(Domain),
           CustodyInv, TransitInv', ReassignmentNext
    PROVE  CustodyInv'
<1>1. TransitInv /\ LockInv /\ LockInv' /\ TypeInv /\ TypeInv'
    BY DEF CustodyInv, TransitInv, LockInv, BooksInv
<1>2. ASSUME SamePlans, UNCHANGED <<book, custody, custody_plans>> PROVE CustodyInv'
    <2>1. HeldKept
        BY <1>2, SameStates DEF book
    <2>2. \A p \in Principal : marks'[p].locked <=> marks[p].locked
        BY <1>1, <1>2, SameLocks
    <2> QED BY <1>2, <2>1, <2>2, CustodyQuiet
<1>3. CASE \E c \in AdminCallId, m \in Move : BeginReassign(c, m)
    BY <1>3, BeginReassignCustody DEF CallId
<1>4. CASE \E c \in AdminCallId, m \in Move : ResumeReassign(c, m)
    <2>1. PICK c \in CallId, m \in Move : ResumeReassign(c, m)
        BY <1>4 DEF CallId
    <2>2. Drains /\ UNCHANGED <<book, custody>>
        BY <1>1, <2>1, ResumeTransit
    <2>3. UNCHANGED custody_plans
        BY <2>1 DEF ResumeReassign
    <2> QED BY <1>2, <2>2, <2>3 DEF Drains
<1>5. CASE \E c \in AdminCallId : BalanceRead(c) \/ SweepMoved(c)
    <2>1. PICK c \in CallId : BalanceRead(c) \/ SweepMoved(c)
        BY <1>5 DEF CallId
    <2>2. UNCHANGED <<book, custody, custody_plans>>
        BY <2>1 DEF BalanceRead, SweepMoved
    <2>3. \/ Drains /\ UNCHANGED book
          \/ \E key \in PendingKeys, a \in Asset : Drained(key, a)
        BY <1>1, <2>1, SweepStepTransit DEF SweepStep
    <2>4. CASE \E key \in PendingKeys, a \in Asset : Drained(key, a)
        BY <2>2, <2>4, DrainedCustody
    <2> QED BY <1>2, <2>2, <2>3, <2>4 DEF Drains
<1>6. CASE \E c \in AdminCallId : Transferred(c)
    <2>1. PICK c \in CallId : Transferred(c)
        BY <1>6 DEF CallId
    <2>2. PICK k, t : k = call[c] /\ t = TransferOf(k)
        OBVIOUS
    <2>3. IsSweep(k) /\ k.stage = "transfer"
        BY <2>1, <2>2, AtStageSweeps DEF Transferred
    <2>4. t \in LedgerTransfer /\ t.move = k.move /\ t.asset = k.asset /\ t.amount = k.amount
        BY <1>1, <2>2, <2>3, TransferOfType DEF TransferOf, TypeInv
    <2>5. /\ PlanKey(k.move) \in PendingKeys
          /\ reassignment_plans[PlanKey(k.move)] = k.plan /\ k.plan.new_owner = k.move.new
        BY <1>1, <2>2, <2>3, SweepLocked
    <2>6. k.asset \in Unswept(k.plan) /\ custody[k.move.old][k.asset] <= k.amount + Fee
        BY <1>1, <2>2, <2>3 DEF TransitInv, SweepsDrain
    <2>7. /\ Covers(t) /\ custody' = Moved(t)
          /\ UNCHANGED <<book, custody_plans, reassignment_plans, marks>>
        BY <2>1, <2>2 DEF Transferred
    <2> QED BY <2>4, <2>5, <2>6, <2>7, MovedCustody
<1>7. CASE \E t \in late : LateTransfer(t)
    <2>1. PICK t \in late : LateTransfer(t)
        BY <1>7
    <2>2. /\ UNCHANGED <<book, custody_plans, reassignment_plans, marks>>
          /\ \/ Covers(t) /\ custody' = Moved(t)
             \/ UNCHANGED custody
        BY <2>1 DEF LateTransfer
    <2>3. t \in LedgerTransfer
        BY <1>1 DEF TypeInv, LedgerType
    <2>4. /\ PlanKey(t.move) \in PendingKeys
          /\ reassignment_plans[PlanKey(t.move)].new_owner = t.move.new
          /\ t.asset \in Unswept(reassignment_plans[PlanKey(t.move)])
          /\ custody[t.move.old][t.asset] <= t.amount + Fee
        BY <1>1 DEF TransitInv, LateInTransit
    <2> QED BY <1>2, <2>2, <2>3, <2>4, MovedCustody DEF SamePlans
<1>8. CASE Upgrade \/ \E c \in AdminCallId : SweepFailed(c) \/ SweepTimesOut(c)
    <2>1. UNCHANGED <<book, custody, custody_plans, reassignment_plans>>
        BY <1>8 DEF Upgrade, SweepFailed, SweepTimesOut
    <2> QED BY <1>2, <2>1 DEF SamePlans
<1> QED BY <1>3, <1>4, <1>5, <1>6, <1>7, <1>8 DEF ReassignmentNext, SweepStep

LEMMA ChargedNow == ASSUME FiniteStores PROVE Charged \in Nat
<1>1. Cardinality(FinishedMoves) \in Nat /\ Cardinality(PaidOut) \in Nat
    BY FiniteFees, FS_CardinalityType DEF FinitelyMany
<1>2. FeesPaid \in Nat
    BY <1>1, FeesNow DEF FeesCounted
<1> QED BY <1>2, FeeTimes DEF Charged

LEMMA CustodyGives == ASSUME IsFiniteSet(Domain) PROVE CustodyInv => CustodyWithAccount
<1> SUFFICES ASSUME CustodyInv, NEW p \in Principal, NEW a \in Asset, ~marks[p].locked
             PROVE  Held(p, a) <= custody[p][a] + Fee * FeesPaid
    BY DEF CustodyWithAccount
<1>1. /\ Held(p, a) \in Nat /\ custody[p][a] \in Nat /\ Cardinality(Reserving(p, a)) \in Nat
      /\ Held(p, a) + Cardinality(Reserving(p, a)) <= custody[p][a] + Charged
    BY RestNow
<1>2. Charged \in Nat
    BY ChargedNow DEF CustodyInv
<1> QED BY <1>1, <1>2 DEF Charged

(* The tokens are where the account is, for any accounts, assets, calls and
   faults: whoever is not in the middle of a reassignment has in its own
   subaccounts what its account says it holds, but for the ledger's fees.
   Beside the premises of KeepsPromiseHolds, users withdraw no more than the
   balance they name: the debit saturates, and the ledger pays in full.
   (sweep_custody, withdraw_collateral, migrate_domain) *)
THEOREM CustodyWithAccountHolds ==
    {"serial", "in_order", "within_balance", "rested_matches"} \subseteq Discipline
        /\ IsFiniteSet(Domain) => (Spec => []CustodyWithAccount)
<1> SUFFICES ASSUME {"serial", "in_order", "within_balance", "rested_matches"} \subseteq Discipline,
                    IsFiniteSet(Domain)
             PROVE  Spec => []CustodyWithAccount
    OBVIOUS
<1>1. Init => CustodyInv
    BY CustodyInit
<1>2. CustodyInv /\ [Next]_vars => CustodyInv'
    <2> SUFFICES ASSUME CustodyInv, [Next]_vars PROVE CustodyInv'
        OBVIOUS
    <2>1. TransitInv'
        BY TransitStep DEF CustodyInv
    <2> QED BY <2>1, AccountsCustody, ReassignmentCustody DEF Next
<1>3. CustodyInv => CustodyWithAccount
    BY CustodyGives
<1> QED BY <1>1, <1>2, <1>3, PTL DEF Spec
=============================================================================
