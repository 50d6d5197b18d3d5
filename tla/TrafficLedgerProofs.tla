------------------------- MODULE TrafficLedgerProofs -------------------------
(* For any number of clients, jobs and requests and any limits: a client the *)
(* tables disable never stays in xray unnoticed, no byte is charged twice,  *)
(* and where no edit runs none is forgotten.                                *)
EXTENDS TrafficLedger, FiniteSetTheorems, TLAPS

-----------------------------------------------------------------------------
(* Sums over finite sets.                                                   *)
\* The element a sum over T takes first.
Pick(T) == CHOOSE x \in T : TRUE

\* g[T] is the sum of f over T, for every T in D.
Sums(g, f, D) ==
    \A T \in D : g[T] = IF T = {} THEN 0 ELSE f[Pick(T)] + g[T \ {Pick(T)}]

\* g is the function that the sum of f over S is defined by.
IsSum(g, f, S) ==
    g = [T \in SUBSET S |-> IF T = {} THEN 0 ELSE f[Pick(T)] + g[T \ {Pick(T)}]]

\* A nonempty set of subsets of a finite set has a minimal one: induction over
\* the subsets of a finite set, as a fact without an operator parameter.
LEMMA MinimalSubset ==
    ASSUME NEW S, IsFiniteSet(S), NEW X, X \subseteq SUBSET S, X # {}
    PROVE  \E M \in X : \A T \in X : T \subseteq M => T = M
<1>1. IsWellFoundedOn(StrictSubsetOrdering(S), SUBSET S)
  BY FS_StrictSubsetOrderingWellFounded, FS_FiniteSubsetsOfFinite
<1>2. PICK M \in X : \A T \in X : ~(<<T, M>> \in StrictSubsetOrdering(S))
  BY <1>1, WFMin
<1> QED
  BY <1>2 DEF StrictSubsetOrdering

LEMMA PickIn == ASSUME NEW T, T # {} PROVE Pick(T) \in T
BY DEF Pick

\* Two functions that sum f agree: there is one sum.
LEMMA SumsAgree ==
    ASSUME NEW f, NEW S, IsFiniteSet(S), NEW g, NEW h,
           Sums(g, f, SUBSET S), Sums(h, f, SUBSET S)
    PROVE  \A T \in SUBSET S : g[T] = h[T]
<1> DEFINE X == {T \in SUBSET S : g[T] # h[T]}
<1> SUFFICES ASSUME X # {} PROVE FALSE
  OBVIOUS
<1>1. PICK M \in X : \A T \in X : T \subseteq M => T = M
  <2> HIDE DEF X
  <2>1. X \subseteq SUBSET S BY DEF X
  <2> QED BY <2>1, MinimalSubset
<1>2. M # {}
  BY DEF Sums
<1>3. M \ {Pick(M)} \notin X
  BY <1>1, <1>2, PickIn
<1>4. g[M \ {Pick(M)}] = h[M \ {Pick(M)}]
  BY <1>3
<1> QED
  BY <1>2, <1>4 DEF Sums

\* The recursive definition of the sum over a finite set has a solution.
LEMMA SumsExist ==
    ASSUME NEW f, NEW S, IsFiniteSet(S)
    PROVE  \E g : IsSum(g, f, S)
<1> DEFINE P(T) == \E g : Sums(g, f, SUBSET T)
           X == {T \in SUBSET S : ~P(T)}
           H(T) == CHOOSE g : Sums(g, f, SUBSET T)
           G(M) == [T \in SUBSET M |-> IF T = {} THEN 0
                                       ELSE f[Pick(T)] + H(T \ {Pick(T)})[T \ {Pick(T)}]]
<1>1. ASSUME NEW M \in SUBSET S, \A T \in SUBSET M : T # M => P(T)
      PROVE  Sums(G(M), f, SUBSET M)
  <2>1. ASSUME NEW T \in SUBSET M, T # {}
        PROVE  H(T \ {Pick(T)})[T \ {Pick(T)}] = G(M)[T \ {Pick(T)}]
    <3> DEFINE U == T \ {Pick(T)}
    <3>1. U \in SUBSET M /\ U # M
      BY <2>1, PickIn
    <3>2. Sums(H(U), f, SUBSET U)
      BY <3>1, <1>1
    <3> HIDE DEF U, H
    <3>3. CASE U = {}
      <4>1. H(U)[U] = 0
        BY <3>2, <3>3 DEF Sums
      <4>2. G(M)[U] = 0
        BY <3>1, <3>3
      <4> QED
        BY <4>1, <4>2 DEF U
    <3>4. CASE U # {}
      <4> DEFINE V == U \ {Pick(U)}
      <4>1. V \in SUBSET U /\ V # M /\ V # U /\ V \subseteq M
        BY <3>1, <3>4, PickIn
      <4>2. P(V)
        BY <4>1, <1>1
      <4>3. Sums(H(V), f, SUBSET V)
        BY <4>2 DEF H
      <4>4. Sums(H(U), f, SUBSET V)
        BY <3>2, <4>1 DEF Sums
      <4>5. IsFiniteSet(V)
        BY <4>1, FS_Subset
      <4>6. H(U)[V] = H(V)[V]
        BY <4>3, <4>4, <4>5, SumsAgree
      <4>7. H(U)[U] = f[Pick(U)] + H(U)[V]
        BY <3>2, <3>4 DEF Sums
      <4>8. G(M)[U] = f[Pick(U)] + H(V)[V]
        BY <3>1, <3>4
      <4> QED
        BY <4>6, <4>7, <4>8 DEF U
    <3> QED
      BY <3>3, <3>4
  <2> HIDE DEF H
  <2>2. ASSUME NEW T \in SUBSET M
        PROVE  G(M)[T] = IF T = {} THEN 0 ELSE f[Pick(T)] + H(T \ {Pick(T)})[T \ {Pick(T)}]
    OBVIOUS
  <2> QED
    BY <2>1, <2>2 DEF Sums
<1>2. \A T \in SUBSET S : P(T)
  <2> SUFFICES ASSUME X # {} PROVE FALSE
    OBVIOUS
  <2> HIDE DEF P
  <2>1. PICK M \in X : \A T \in X : T \subseteq M => T = M
    <3>1. X \subseteq SUBSET S
      OBVIOUS
    <3> HIDE DEF X
    <3> QED
      BY <3>1, MinimalSubset
  <2>2. \A T \in SUBSET M : T # M => P(T)
    BY <2>1
  <2> HIDE DEF G
  <2>3. Sums(G(M), f, SUBSET M)
    BY <2>2, <1>1
  <2>4. P(M)
    BY <2>3 DEF P
  <2> QED
    BY <2>4
<1> DEFINE B(T) == IF T = {} THEN 0 ELSE f[Pick(T)] + G(S)[T \ {Pick(T)}]
<1>3. \A T \in SUBSET S : G(S)[T] = B(T)
  <2> HIDE DEF G, P
  <2> QED
    BY <1>1, <1>2 DEF Sums
<1>4. G(S) = [T \in SUBSET S |-> G(S)[T]]
  <2> HIDE DEF H
  <2> QED
    OBVIOUS
<1>5. G(S) = [T \in SUBSET S |-> B(T)]
  <2> HIDE DEF G, B
  <2> QED
    BY <1>3, <1>4
<1>6. IsSum(G(S), f, S)
  BY <1>5 DEF IsSum
<1> HIDE DEF G
<1> QED
  BY <1>6

\* ... so that Total is what its definition says.
LEMMA TotalUnfolds ==
    ASSUME NEW f, NEW S, IsFiniteSet(S)
    PROVE  \E g : Sums(g, f, SUBSET S) /\ Total(f, S) = g[S]
<1> DEFINE h == CHOOSE g : IsSum(g, f, S)
<1>1. IsSum(h, f, S)
  BY SumsExist
<1>2. Total(f, S) = h[S]
  BY DEF IsSum, Total, MapThenSumSet, MapThenFoldSet, Pick
<1>3. Sums(h, f, SUBSET S)
  <2> HIDE DEF h
  <2> QED BY <1>1 DEF IsSum, Sums
<1> QED
  BY <1>2, <1>3

LEMMA SumsUnfold ==
    ASSUME NEW g, NEW f, NEW S, Sums(g, f, SUBSET S)
    PROVE  /\ g[{}] = 0
           /\ \A T \in SUBSET S : T # {} => g[T] = f[Pick(T)] + g[T \ {Pick(T)}]
BY DEF Sums

LEMMA SumsNat ==
    ASSUME NEW S, IsFiniteSet(S), NEW f, NEW g,
           Sums(g, f, SUBSET S), \A x \in S : f[x] \in Nat
    PROVE  \A T \in SUBSET S : g[T] \in Nat
<1> DEFINE X == {T \in SUBSET S : g[T] \notin Nat}
<1> SUFFICES ASSUME X # {} PROVE FALSE
  OBVIOUS
<1>2. X \subseteq SUBSET S
  OBVIOUS
<1>3. PICK M \in X : \A T \in X : T \subseteq M => T = M
  <2> HIDE DEF X
  <2> QED BY <1>2, MinimalSubset
<1>4. M \in SUBSET S /\ g[M] \notin Nat
  OBVIOUS
<1>5. M # {}
  <2>1. g[{}] = 0
    BY SumsUnfold
  <2> QED
    BY <1>4, <2>1
<1>6. Pick(M) \in M /\ g[M \ {Pick(M)}] \in Nat
  BY <1>3, <1>5, PickIn
<1>7. g[M] = f[Pick(M)] + g[M \ {Pick(M)}]
  BY <1>4, <1>5, SumsUnfold
<1>8. f[Pick(M)] \in Nat
  BY <1>4, <1>6
<1> QED
  BY <1>4, <1>6, <1>7, <1>8

\* A sum of naturals is a natural.
LEMMA TotalNat ==
    ASSUME NEW S, IsFiniteSet(S), NEW f, \A x \in S : f[x] \in Nat
    PROVE  Total(f, S) \in Nat
<1>1. PICK g : Sums(g, f, SUBSET S) /\ Total(f, S) = g[S]
  BY TotalUnfolds
<1>2. g[S] \in Nat
  BY <1>1, SumsNat
<1> QED
  BY <1>1, <1>2

\* A sum of zeros is zero.
LEMMA TotalZero ==
    ASSUME NEW S, IsFiniteSet(S), NEW f, \A x \in S : f[x] = 0
    PROVE  Total(f, S) = 0
<1>1. PICK g : Sums(g, f, SUBSET S) /\ Total(f, S) = g[S]
  BY TotalUnfolds
<1> DEFINE X == {T \in SUBSET S : g[T] # 0}
<1> SUFFICES ASSUME X # {} PROVE FALSE
  BY <1>1
<1>2. X \subseteq SUBSET S
  OBVIOUS
<1>3. PICK M \in X : \A T \in X : T \subseteq M => T = M
  <2> HIDE DEF X
  <2> QED BY <1>2, MinimalSubset
<1>4. M # {}
  BY <1>1, SumsUnfold
<1>5. Pick(M) \in M /\ g[M \ {Pick(M)}] = 0
  BY <1>3, <1>4, PickIn
<1> QED
  BY <1>1, <1>4, <1>5, SumsUnfold

\* Where one term changes, the sum changes by as much.
LEMMA TotalUpdate ==
    ASSUME NEW S, IsFiniteSet(S), NEW f, NEW h, NEW i \in S,
           \A x \in S : f[x] \in Nat /\ h[x] \in Nat,
           \A x \in S \ {i} : h[x] = f[x]
    PROVE  Total(h, S) + f[i] = Total(f, S) + h[i]
<1>1. PICK g : Sums(g, f, SUBSET S) /\ Total(f, S) = g[S]
  BY TotalUnfolds
<1>2. PICK k : Sums(k, h, SUBSET S) /\ Total(h, S) = k[S]
  BY TotalUnfolds
<1>3. \A T \in SUBSET S : g[T] \in Nat /\ k[T] \in Nat
  BY <1>1, <1>2, SumsNat
<1> DEFINE Shifted(T) == k[T] + f[i] = g[T] + h[i]
           Same(T) == k[T] = g[T]
           X == {T \in SUBSET S : ~ IF i \in T THEN Shifted(T) ELSE Same(T)}
<1> SUFFICES ASSUME X # {} PROVE FALSE
  BY <1>1, <1>2
<1>4. X \subseteq SUBSET S
  OBVIOUS
<1>5. PICK M \in X : \A T \in X : T \subseteq M => T = M
  <2> HIDE DEF X
  <2> QED BY <1>4, MinimalSubset
<1>6. M # {}
  BY <1>1, <1>2 DEF Sums
<1> DEFINE p == Pick(M)
           R == M \ {p}
<1>7. p \in M /\ p \in S /\ R \in SUBSET S /\ R # M /\ R \subseteq M
  BY <1>6, PickIn
<1>8. IF i \in R THEN Shifted(R) ELSE Same(R)
  BY <1>5, <1>7
<1>9. g[M] = f[p] + g[R] /\ k[M] = h[p] + k[R]
  BY <1>1, <1>2, <1>6 DEF Sums
<1>10. g[R] \in Nat /\ k[R] \in Nat /\ g[M] \in Nat /\ k[M] \in Nat
  BY <1>3, <1>7
<1>11. CASE p = i
  BY <1>7, <1>8, <1>9, <1>10, <1>11
<1>12. CASE p # i
  BY <1>7, <1>8, <1>9, <1>10, <1>12
<1> QED
  BY <1>11, <1>12
-----------------------------------------------------------------------------
(* Type correctness.                                                        *)
\* TypeOK, in six parts (Control, below, is the sixth).
Tables ==
    /\ inb \in Account
    /\ row \in [Client -> Account]
    /\ rin \in [Request -> Account]

Counts ==
    /\ stat \in PerClient
    /\ delta \in [Job -> PerClient]
    /\ served \in PerClient /\ lost \in PerClient /\ cleared \in PerClient

Reads ==
    /\ DOMAIN read = Request
    /\ \A r \in Request : DOMAIN read[r] \subseteq Client /\ \A c \in DOMAIN read[r] : read[r][c] \in Nat

Places ==
    /\ late \in BOOLEAN
    /\ active \in SUBSET Client
    /\ needRestart \in BOOLEAN
    /\ todo \in [Request -> SUBSET Client]
    /\ unnoticed \in BOOLEAN
    /\ \A r \in Request : todo[r] # {} => rpc[r] \in {"rows", "write", "expire"}

Bounds == ops \in 0..MaxOps /\ faults \in 0..MaxFaults


Control ==
    /\ jpc \in [Job -> {"idle", "inbound", "client", "flag"}]
    /\ rpc \in [Request -> {"idle", "save", "rows", "write", "expire", "flag"}]
    /\ kind \in [Request -> Kind]

LEMMA TypeParts == TypeOK <=> Tables /\ Counts /\ Reads /\ Places /\ Bounds /\ Control
<1>1. ASSUME TypeOK PROVE Tables /\ Counts /\ Reads /\ Places /\ Bounds /\ Control
  BY <1>1 DEF TypeOK, Tables, Counts, Reads, Places, Bounds, Control
<1>2. ASSUME Tables, Counts, Reads, Places, Bounds, Control PROVE TypeOK
  BY <1>2 DEF TypeOK, Tables, Counts, Reads, Places, Bounds, Control
<1> QED BY <1>1, <1>2

LEMMA AccountParts ==
    ASSUME NEW a \in Account, NEW n \in Nat, NEW l \in Limits, NEW on \in BOOLEAN
    PROVE  /\ [a EXCEPT !.used = n] \in Account
           /\ [a EXCEPT !.on = on] \in Account
           /\ [a EXCEPT !.plan = l, !.on = on] \in Account
           /\ [a EXCEPT !.used = n, !.on = on] \in Account
           /\ a.used \in Nat /\ a.plan \in Limits /\ a.on \in BOOLEAN
           /\ [used |-> n, plan |-> l, on |-> on] \in Account
BY DEF Account

LEMMA NoAccountTyped == NoAccount \in Account
BY DEF NoAccount, Account, Limits

LEMMA InitTyped == Init => TypeOK
<1> SUFFICES ASSUME NEW l \in Plan, Init!(l)
             PROVE  TypeOK
  BY DEF Init
<1>1. Tables
  <2>1. inb \in Account
    BY ConstantsOK DEF Account, ConstantsOK
  <2> QED
    BY <2>1, NoAccountTyped DEF Tables
<1>2. Counts
  BY DEF Counts, Zero, PerClient
<1>3. Reads
  BY DEF Reads, Nothing
<1>4. Places
  BY DEF Places
<1>5. Bounds
  BY ConstantsOK DEF Bounds, ConstantsOK
<1>6. Control
  BY DEF Control, Kind
<1> QED
  BY <1>1, <1>2, <1>3, <1>4, <1>5, <1>6, TypeParts

LEMMA InFlightNat == ASSUME Counts, NEW j \in Job PROVE InFlight(j) \in Nat
<1>1. \A c \in Client : delta[j][c] \in Nat
  BY DEF Counts, PerClient
<1> QED
  BY <1>1, TotalNat, ConstantsOK DEF InFlight, ConstantsOK

\* What AddTrafficByEmail does to the rows: it adds, and disables some of those
\* that are over their limits.
LEMMA AddByEmail ==
    ASSUME NEW j \in Job, AddTrafficByEmail(j)
    PROVE  \E S \in SUBSET Client :
              row' = [c \in Client |-> [row[c] EXCEPT !.used = @ + delta[j][c],
                                                      !.on = @ /\ c \notin S]]
<1>1. PICK idle \in SUBSET {c \in Client : delta[j][c] = 0} :
          LET Added(c) == [row[c] EXCEPT !.used = @ + delta[j][c]]
              Cut(c) == c \notin idle /\ row[c].on /\ Over(Added(c))
          IN  row' = [c \in Client |-> [Added(c) EXCEPT !.on = @ /\ ~Cut(c)]]
  BY DEF AddTrafficByEmail
<1> DEFINE Added(c) == [row[c] EXCEPT !.used = @ + delta[j][c]]
           Cut(c) == c \notin idle /\ row[c].on /\ Over(Added(c))
           S == {c \in Client : Cut(c)}
<1>2. \A c \in Client : (c \notin S) = ~Cut(c)
  <2> HIDE DEF Cut
  <2> QED OBVIOUS
<1> WITNESS S \in SUBSET Client
<1> HIDE DEF Cut, S
<1> QED
  BY <1>1, <1>2 DEF Cut

LEMMA TablesNext ==
    ASSUME TypeOK, [Next]_vars
    PROVE  Tables'
<1> USE TypeParts
<1>1. ASSUME \/ Expire \/ Reload \/ ReloadFails \/ Restart \/ UNCHANGED vars
             \/ \E c \in Client : Serve(c)
             \/ \E j \in Job : \/ GetTraffic(j) \/ GetTrafficFails(j)
                               \/ AddTrafficByEmailFails(j) \/ JobFlag(j)
             \/ \E r \in Request : \/ SetToNeedRestart(r) \/ DisableExpired(r) \/ ExpireFails(r)
                                   \/ EnsureFails(r)
                                   \/ \E c \in Client : EnsureRead(r, c) \/ EnsureAgain(r, c)
      PROVE  Tables'
  <2>1. UNCHANGED inb /\ UNCHANGED row /\ UNCHANGED rin
    BY <1>1 DEF Expire, Reload, ReloadFails, Restart, vars, reqVars, Serve, GetTraffic, GetTrafficFails,
       AddTrafficByEmailFails, JobFlag, SetToNeedRestart, DisableExpired, ExpireFails,
       EnsureFails, EnsureRead, EnsureAgain
  <2> QED
    BY <2>1 DEF Tables
<1>2. ASSUME NEW j \in Job, AddTraffic(j)
      PROVE  Tables'
  <2>1. UNCHANGED row /\ UNCHANGED rin
    BY <1>2 DEF AddTraffic, reqVars
  <2>2. inb' = inb \/ inb' = [inb EXCEPT !.used = @ + InFlight(j)]
    BY <1>2 DEF AddTraffic
  <2>3. inb.used + InFlight(j) \in Nat
    BY InFlightNat DEF Tables, Account
  <2>4. inb' \in Account
    BY <2>2, <2>3 DEF Tables, Account
  <2> QED
    BY <2>1, <2>4 DEF Tables
<1>3. ASSUME NEW j \in Job, AddTrafficByEmail(j)
      PROVE  Tables'
  <2>1. PICK S \in SUBSET Client :
            row' = [c \in Client |-> [row[c] EXCEPT !.used = @ + delta[j][c],
                                                    !.on = @ /\ c \notin S]]
    BY <1>3, AddByEmail
  <2>2. ASSUME NEW c \in Client
        PROVE  [row[c] EXCEPT !.used = @ + delta[j][c], !.on = @ /\ c \notin S] \in Account
    <3>1. row[c] \in Account /\ row[c].used \in Nat /\ row[c].plan \in Limits
      BY DEF Tables, Account
    <3>2. PICK n \in Nat : n = row[c].used + delta[j][c]
      BY <3>1 DEF Counts, PerClient
    <3>3. PICK on \in BOOLEAN : on = (row[c].on /\ c \notin S)
      BY Zenon
    <3>4. [row[c] EXCEPT !.used = @ + delta[j][c], !.on = @ /\ c \notin S]
            = [row[c] EXCEPT !.used = n, !.on = on]
      BY <3>2, <3>3
    <3> QED
      BY <3>1, <3>4, AccountParts
  <2>3. UNCHANGED inb /\ UNCHANGED rin
    BY <1>3 DEF AddTrafficByEmail, reqVars
  <2> QED
    BY <2>1, <2>2, <2>3 DEF Tables
<1>4. ASSUME NEW r \in Request, NEW c \in Client,
             ResetTraffic(r, c) \/ SetLimits(r, c) \/ ExpireRow(r, c)
      PROVE  Tables'
  <2>1. UNCHANGED inb /\ UNCHANGED rin
    BY <1>4 DEF ResetTraffic, SetLimits, ExpireRow, Only
  <2>2. row[c] \in Account
    BY DEF Tables
  <2>3. PICK a \in Account : row' = [row EXCEPT ![c] = a]
    <3>1. CASE ResetTraffic(r, c)
      BY <2>2, <3>1, AccountParts DEF ResetTraffic, Tables, Account
    <3>2. CASE SetLimits(r, c)
      <4>1. PICK l \in Plan, on \in BOOLEAN : row' = [row EXCEPT ![c].plan = l, ![c].on = on]
        BY <3>2 DEF SetLimits
      <4>2. l \in Limits
        BY ConstantsOK DEF ConstantsOK
      <4>3. [row[c] EXCEPT !.plan = l, !.on = on] \in Account
        BY <2>2, <4>2, AccountParts
      <4>4. row' = [row EXCEPT ![c] = [row[c] EXCEPT !.plan = l, !.on = on]]
        BY <4>1 DEF Tables
      <4> QED
        BY <4>3, <4>4
    <3>3. CASE ExpireRow(r, c)
      BY <2>2, <3>3, AccountParts DEF ExpireRow, Tables, Account
    <3> QED
      BY <1>4, <3>1, <3>2, <3>3
  <2> QED
    BY <2>1, <2>3 DEF Tables
<1>5. ASSUME NEW r \in Request,
             ResetTrafficMany(r) \/ SetEnableMany(r) \/ DisableInvalidInbounds(r)
      PROVE  Tables'
  <2>1. UNCHANGED row /\ UNCHANGED rin
    BY <1>5 DEF ResetTrafficMany, SetEnableMany, DisableInvalidInbounds, Only
  <2>2. inb \in Account
    BY DEF Tables
  <2>3. \/ inb' = [inb EXCEPT !.used = 0]
        \/ \E on \in BOOLEAN : inb' = [inb EXCEPT !.on = on]
    BY <1>5 DEF ResetTrafficMany, SetEnableMany, DisableInvalidInbounds
  <2>4. inb' \in Account
    BY <2>2, <2>3 DEF Account
  <2> QED
    BY <2>1, <2>4 DEF Tables
<1>6. ASSUME NEW r \in Request, Load(r)
      PROVE  Tables'
  <2>1. PICK k \in Kinds \ {"expire"}, l \in Plan, on \in BOOLEAN :
            rin' = [rin EXCEPT ![r] = Copy(k, l, on)]
    BY <1>6 DEF Load
  <2>2. k \in {"edit", "client", "inreset"} /\ l \in Limits
    BY ConstantsOK DEF ConstantsOK, Kind
  <2>3. Copy(k, l, on) \in Account
    BY <2>2 DEF Copy, Tables, Account
  <2>4. UNCHANGED inb /\ UNCHANGED row
    BY <1>6 DEF Load
  <2> QED
    BY <2>1, <2>3, <2>4 DEF Tables
<1>7. ASSUME NEW r \in Request, Save(r)
      PROVE  Tables'
  BY <1>7 DEF Save, Tables
<1>8. ASSUME NEW r \in Request, Refused(r) \/ Updated(r)
      PROVE  Tables'
  <2>1. rin' = [rin EXCEPT ![r] = NoAccount] /\ UNCHANGED inb /\ UNCHANGED row
    BY <1>8 DEF Refused, Updated, Forget
  <2> QED
    BY <2>1, NoAccountTyped DEF Tables
<1>9. ASSUME NEW r \in Request, EnsureSave(r)
      PROVE  Tables'
  <2>1. UNCHANGED inb /\ UNCHANGED rin
    BY <1>9 DEF EnsureSave
  <2>2. ASSUME NEW c \in Client, c \in DOMAIN read[r]
        PROVE  [used |-> read[r][c], plan |-> rin[r].plan, on |-> rin[r].on] \in Account
    <3>1. read[r][c] \in Nat
      BY <2>2 DEF Reads
    <3>2. rin[r] \in Account
      BY DEF Tables
    <3> QED
      BY <3>1, <3>2 DEF Account
  <2>3. row' \in [Client -> Account]
    <3>1. \A c \in Client : row[c] \in Account
      BY DEF Tables
    <3>2. row' = [c \in Client |->
                     IF c \in DOMAIN read[r]
                     THEN [used |-> read[r][c], plan |-> rin[r].plan, on |-> rin[r].on]
                     ELSE row[c]]
      BY <1>9 DEF EnsureSave
    <3> QED
      BY <2>2, <3>1, <3>2
  <2> QED
    BY <2>1, <2>3 DEF Tables
<1> QED
  BY <1>1, <1>2, <1>3, <1>4, <1>5, <1>6, <1>7, <1>8, <1>9
  DEF Next, JobStep, RequestStep, Arrival, Failure

LEMMA PlusTyped ==
    ASSUME NEW f \in PerClient, NEW g \in PerClient
    PROVE  /\ Plus(f, g) \in PerClient
           /\ \A c \in Client : Plus(f, g)[c] = f[c] + g[c]
BY DEF PerClient, Plus

LEMMA ZeroTyped == Zero \in PerClient /\ \A c \in Client : Zero[c] = 0
BY DEF PerClient, Zero

LEMMA CountsNext ==
    ASSUME TypeOK, [Next]_vars
    PROVE  Counts'
<1>0. Tables /\ Counts
  BY TypeParts
<1>1. ASSUME \/ Expire \/ UNCHANGED vars
             \/ \E j \in Job : AddTraffic(j) \/ JobFlag(j)
             \/ \E r \in Request :
                   \/ ResetTrafficMany(r) \/ SetEnableMany(r) \/ DisableExpired(r) \/ Load(r)
                   \/ SetToNeedRestart(r) \/ Save(r) \/ EnsureSave(r) \/ Updated(r)
                   \/ ExpireFails(r) \/ EnsureFails(r) \/ Refused(r) \/ DisableInvalidInbounds(r)
                   \/ \E c \in Client : \/ SetLimits(r, c) \/ ExpireRow(r, c)
                                       \/ EnsureRead(r, c) \/ EnsureAgain(r, c)
      PROVE  Counts'
  <2>1. UNCHANGED <<stat, delta, served, lost, cleared>>
    <3>1. CASE Expire \/ UNCHANGED vars \/ (\E j \in Job : AddTraffic(j) \/ JobFlag(j))
      BY <3>1 DEF Expire, vars, xrayVars, jobVars, history, AddTraffic, JobFlag
    <3>2. ASSUME NEW r \in Request,
                 \/ ResetTrafficMany(r) \/ SetEnableMany(r) \/ DisableExpired(r) \/ Load(r)
                 \/ \E c \in Client : SetLimits(r, c)
                 \/ DisableInvalidInbounds(r) \/ Refused(r)
          PROVE  UNCHANGED <<stat, delta, served, lost, cleared>>
      BY <3>2 DEF ResetTrafficMany, SetEnableMany, DisableExpired, Load, SetLimits,
         DisableInvalidInbounds, Refused, Only, System, xrayVars, jobVars, history
    <3>3. ASSUME NEW r \in Request,
                 \/ SetToNeedRestart(r) \/ Save(r) \/ EnsureSave(r) \/ Updated(r)
                 \/ ExpireFails(r) \/ EnsureFails(r)
                 \/ \E c \in Client : ExpireRow(r, c) \/ EnsureRead(r, c) \/ EnsureAgain(r, c)
          PROVE  UNCHANGED <<stat, delta, served, lost, cleared>>
      BY <3>3 DEF SetToNeedRestart, Save, EnsureSave, Updated, ExpireFails, EnsureFails, ExpireRow,
         EnsureRead, EnsureAgain, Only, System, xrayVars, jobVars, history
    <3> QED
      BY <1>1, <3>1, <3>2, <3>3
  <2> QED
    BY <1>0, <2>1 DEF Counts
<1>2. ASSUME NEW c \in Client, Serve(c)
      PROVE  Counts'
  <2>1. UNCHANGED <<delta, lost, cleared>>
    BY <1>2 DEF Serve, jobVars
  <2>2. stat' \in PerClient /\ served' \in PerClient
    BY <1>0, <1>2 DEF Serve, Counts, PerClient
  <2> QED
    BY <1>0, <2>1, <2>2 DEF Counts
<1>3. ASSUME Reload \/ ReloadFails \/ Restart
      PROVE  Counts'
  <2>1. UNCHANGED <<delta, served, cleared>>
    BY <1>3 DEF Reload, ReloadFails, Restart, jobVars
  <2>2. UNCHANGED <<stat, lost>> \/ (stat' = Zero /\ lost' = Plus(lost, stat))
    <3>1. CASE Reload
      BY <3>1 DEF Reload, Counters, xrayVars
    <3>2. CASE Restart
      BY <3>2 DEF Restart, Counters
    <3>3. CASE ReloadFails
      BY <3>3 DEF ReloadFails, Counters, xrayVars
    <3> QED
      BY <1>3, <3>1, <3>2, <3>3
  <2> QED
    BY <1>0, <2>1, <2>2, PlusTyped, ZeroTyped DEF Counts
<1>4. ASSUME NEW j \in Job, GetTraffic(j)
      PROVE  Counts'
  <2>1. UNCHANGED <<served, lost, cleared>>
    BY <1>4 DEF GetTraffic, history
  <2> QED
    BY <1>0, <1>4, <2>1, ZeroTyped DEF Counts, GetTraffic
<1>5. ASSUME NEW j \in Job, GetTrafficFails(j)
      PROVE  Counts'
  <2>1. UNCHANGED <<delta, served, cleared>>
    BY <1>5 DEF GetTrafficFails, jobVars
  <2> QED
    BY <1>0, <1>5, <2>1, PlusTyped, ZeroTyped DEF Counts, GetTrafficFails
<1>6. ASSUME NEW j \in Job, AddTrafficByEmail(j)
      PROVE  Counts'
  <2>1. UNCHANGED <<stat, served, lost, cleared>> /\ delta' = [delta EXCEPT ![j] = Zero]
    BY <1>6 DEF AddTrafficByEmail, xrayVars, history
  <2> QED
    BY <1>0, <2>1, ZeroTyped DEF Counts
<1>7. ASSUME NEW j \in Job, AddTrafficByEmailFails(j)
      PROVE  Counts'
  <2>1. UNCHANGED <<stat, served, cleared>> /\ delta' = [delta EXCEPT ![j] = Zero]
    BY <1>7 DEF AddTrafficByEmailFails, xrayVars
  <2>2. lost' = Plus(lost, delta[j])
    BY <1>7 DEF AddTrafficByEmailFails
  <2> QED
    BY <1>0, <2>1, <2>2, ZeroTyped, PlusTyped DEF Counts
<1>8. ASSUME NEW r \in Request, NEW c \in Client, ResetTraffic(r, c)
      PROVE  Counts'
  <2>1. UNCHANGED <<stat, delta, served, lost>>
    BY <1>8 DEF ResetTraffic, Only, xrayVars, jobVars
  <2>2. row[c].used \in Nat
    BY <1>0 DEF Tables, Account
  <2>3. cleared' = [cleared EXCEPT ![c] = @ + row[c].used]
    BY <1>8 DEF ResetTraffic
  <2>4. cleared' \in PerClient
    BY <1>0, <2>2, <2>3 DEF Counts, PerClient
  <2> QED
    BY <1>0, <2>1, <2>4 DEF Counts
<1> QED
  BY <1>1, <1>2, <1>3, <1>4, <1>5, <1>6, <1>7, <1>8
  DEF Next, JobStep, RequestStep, Arrival, Failure

LEMMA ReadsNext ==
    ASSUME TypeOK, [Next]_vars
    PROVE  Reads'
<1>0. Tables /\ Reads
  BY TypeParts
<1>1. ASSUME NEW r \in Request, NEW c \in Client, EnsureRead(r, c)
      PROVE  Reads'
  <2>1. read' = [read EXCEPT ![r] = [d \in {c} |-> row[d].used]]
    BY <1>1 DEF EnsureRead
  <2>2. row[c].used \in Nat
    BY <1>0 DEF Tables, Account
  <2> QED
    BY <1>0, <2>1, <2>2 DEF Reads
<1>2. ASSUME NEW r \in Request, EnsureSave(r) \/ EnsureFails(r)
      PROVE  Reads'
  BY <1>0, <1>2 DEF EnsureSave, EnsureFails, Nothing, Reads
<1>3. ASSUME \/ Expire \/ UNCHANGED vars \/ Reload \/ ReloadFails \/ Restart
             \/ \E c \in Client : Serve(c)
             \/ \E j \in Job : JobStep(j) \/ GetTrafficFails(j) \/ AddTrafficByEmailFails(j)
             \/ \E r \in Request :
                   \/ ResetTrafficMany(r) \/ SetEnableMany(r) \/ DisableExpired(r) \/ Load(r)
                   \/ SetToNeedRestart(r) \/ Save(r) \/ Updated(r)
                   \/ ExpireFails(r) \/ Refused(r) \/ DisableInvalidInbounds(r)
                   \/ \E c \in Client : \/ SetLimits(r, c) \/ ExpireRow(r, c)
                                       \/ ResetTraffic(r, c) \/ EnsureAgain(r, c)
      PROVE  Reads'
  <2>1. UNCHANGED read
    BY <1>3 DEF Expire, vars, reqVars, Reload, ReloadFails, Restart, Serve, JobStep, GetTraffic, AddTraffic,
       AddTrafficByEmail, JobFlag, GetTrafficFails, AddTrafficByEmailFails,
       ResetTrafficMany, SetEnableMany, DisableExpired, Load, SetToNeedRestart, Save,
       Updated, ExpireFails, Refused, DisableInvalidInbounds, SetLimits, ExpireRow,
       ResetTraffic, EnsureAgain, Only, System
  <2> QED
    BY <1>0, <2>1 DEF Reads
<1> QED
  BY <1>1, <1>2, <1>3 DEF Next, RequestStep, Arrival, Failure

LEMMA BoundsNext ==
    ASSUME Bounds, [Next]_vars
    PROVE  Bounds'
<1>1. UNCHANGED <<ops, faults>> \/ Op \/ Fault
  <2>1. CASE Expire \/ Reload \/ (\E c \in Client : Serve(c)) \/ UNCHANGED vars
    BY <2>1 DEF Expire, Reload, Serve, vars
  <2>2. CASE \E j \in Job : JobStep(j)
    BY <2>2 DEF JobStep, GetTraffic, AddTraffic, AddTrafficByEmail, JobFlag
  <2>3. CASE Failure
    BY <2>3 DEF Failure, Restart, ReloadFails, GetTrafficFails, AddTrafficByEmailFails, ExpireFails, EnsureFails
  <2>4. ASSUME NEW r \in Request, Arrival(r) PROVE Op
    BY <2>4 DEF Arrival, ResetTrafficMany, SetEnableMany, DisableExpired, Load, ResetTraffic, SetLimits
  <2>5. ASSUME NEW r \in Request, RequestStep(r) \/ Refused(r) \/ DisableInvalidInbounds(r)
        PROVE  UNCHANGED <<ops, faults>> \/ Op \/ Fault
    BY <2>5 DEF RequestStep, Refused, DisableInvalidInbounds, SetToNeedRestart, Save, EnsureSave,
       Updated, ExpireRow, EnsureRead, EnsureAgain, Only
  <2> QED
    BY <2>1, <2>2, <2>3, <2>4, <2>5 DEF Next
<1> QED
  BY <1>1, ConstantsOK DEF Bounds, Op, Fault, ConstantsOK


LEMMA ControlNext ==
    ASSUME Control, [Next]_vars
    PROVE  Control'
<1> USE DEF Control
<1>1. ASSUME NEW c \in Client, Serve(c)
      PROVE  Control'
  BY <1>1 DEF Serve, reqVars, jobVars
<1>2. ASSUME Expire \/ Reload \/ ReloadFails \/ Restart \/ UNCHANGED vars
      PROVE  Control'
  BY <1>2 DEF Expire, Reload, ReloadFails, Restart, vars, reqVars, jobVars
<1>3. ASSUME NEW j \in Job, JobStep(j) \/ GetTrafficFails(j) \/ AddTrafficByEmailFails(j)
      PROVE  Control'
  BY <1>3 DEF JobStep, GetTraffic, AddTraffic, AddTrafficByEmail, JobFlag, JobAt,
     GetTrafficFails, AddTrafficByEmailFails, reqVars, jobVars
<1>4. ASSUME NEW r \in Request,
             ResetTrafficMany(r) \/ SetEnableMany(r) \/ DisableInvalidInbounds(r)
                \/ \E c \in Client : ResetTraffic(r, c) \/ SetLimits(r, c)
      PROVE  Control'
  BY <1>4 DEF ResetTraffic, SetLimits, ResetTrafficMany, SetEnableMany,
     DisableInvalidInbounds, Only, At, jobVars
<1>5. ASSUME NEW r \in Request,
             SetToNeedRestart(r) \/ DisableExpired(r) \/ ExpireFails(r)
                \/ \E c \in Client : ExpireRow(r, c)
      PROVE  Control'
  BY <1>5 DEF SetToNeedRestart, DisableExpired, ExpireRow, ExpireFails, At, System, jobVars
<1>6. ASSUME NEW r \in Request, Load(r)
      PROVE  Control'
  BY <1>6, ConstantsOK DEF Load, At, System, jobVars, ConstantsOK, Kind
<1>7. ASSUME NEW r \in Request,
             Save(r) \/ EnsureSave(r) \/ EnsureFails(r) \/ \E c \in Client : EnsureRead(r, c)
      PROVE  Control'
  BY <1>7 DEF Save, EnsureRead, EnsureSave, EnsureFails, At, System, jobVars
<1>8. ASSUME NEW r \in Request,
             Refused(r) \/ Updated(r) \/ \E c \in Client : EnsureAgain(r, c)
      PROVE  Control'
  BY <1>8 DEF Refused, EnsureAgain, Updated, Forget, At, System, jobVars, Kind
<1> HIDE DEF Control
<1> QED
  BY <1>1, <1>2, <1>3, <1>4, <1>5, <1>6, <1>7, <1>8
  DEF Next, RequestStep, Arrival, Failure


LEMMA PlacesNext ==
    ASSUME TypeOK, [Next]_vars
    PROVE  Places'
<1>0. Places /\ Control /\ Control'
  BY TypeParts, ControlNext
<1>1. ASSUME \/ Expire \/ Reload \/ ReloadFails \/ Restart \/ UNCHANGED vars
             \/ \E c \in Client : Serve(c)
             \/ \E j \in Job : JobStep(j) \/ GetTrafficFails(j) \/ AddTrafficByEmailFails(j)
      PROVE  Places'
  <2>1. UNCHANGED <<rpc, todo>>
    BY <1>1 DEF Expire, Reload, ReloadFails, Restart, vars, reqVars, Serve, JobStep, GetTraffic, AddTraffic,
       AddTrafficByEmail, JobFlag, GetTrafficFails, AddTrafficByEmailFails
  <2>2. UNCHANGED active \/ active' = Enabled \/ active' = {}
    BY <1>1 DEF Expire, Reload, ReloadFails, Restart, vars, xrayVars, Serve, JobStep, GetTraffic, AddTraffic,
       AddTrafficByEmail, JobFlag, GetTrafficFails, AddTrafficByEmailFails, Counters
  <2>3. Enabled \in SUBSET Client
    BY DEF Enabled
  <2>4. /\ UNCHANGED late \/ late' = TRUE
        /\ UNCHANGED needRestart \/ needRestart' = FALSE \/ needRestart' = TRUE
        /\ unnoticed' \in {unnoticed, FALSE, unnoticed \/ Enabled # active}
    BY <1>1 DEF Expire, Reload, ReloadFails, Restart, vars, xrayVars, history, Serve, JobStep, GetTraffic,
       AddTraffic, AddTrafficByEmail, JobFlag, GetTrafficFails, AddTrafficByEmailFails
  <2> QED
    BY <1>0, <2>1, <2>2, <2>3, <2>4 DEF Places
<1>2. ASSUME NEW r \in Request,
             \/ ResetTrafficMany(r) \/ SetEnableMany(r) \/ DisableInvalidInbounds(r)
             \/ Load(r) \/ SetToNeedRestart(r) \/ Refused(r) \/ Updated(r)
             \/ EnsureSave(r) \/ EnsureFails(r)
             \/ \E c \in Client : ResetTraffic(r, c) \/ SetLimits(r, c)
      PROVE  Places'
  <2>1. UNCHANGED <<todo, late, active>>
    BY <1>2 DEF ResetTrafficMany, SetEnableMany, DisableInvalidInbounds, Load, SetToNeedRestart,
       Refused, Updated, EnsureSave, EnsureFails, ResetTraffic, SetLimits, Only, System, xrayVars
  <2>2. /\ UNCHANGED needRestart \/ needRestart' = TRUE
        /\ UNCHANGED unnoticed \/ unnoticed' = FALSE \/ Silently(r)
    BY <1>2 DEF ResetTrafficMany, SetEnableMany, DisableInvalidInbounds, Load, SetToNeedRestart,
       Refused, Updated, EnsureSave, EnsureFails, ResetTraffic, SetLimits, Only, System, history
  <2>3. unnoticed' \in BOOLEAN
    BY <1>0, <2>2, Zenon DEF Places, Silently
  <2>4. \/ todo[r] = {}
        \/ rpc' = [rpc EXCEPT ![r] = "rows"]
    BY <1>0, <1>2 DEF ResetTrafficMany, SetEnableMany, DisableInvalidInbounds, Load,
       SetToNeedRestart, Refused, Updated, EnsureSave, EnsureFails, ResetTraffic, SetLimits, At,
       Places
  <2>5. \A q \in Request \ {r} : rpc'[q] = rpc[q]
    BY <1>0, <1>2 DEF ResetTrafficMany, SetEnableMany, DisableInvalidInbounds, Load,
       SetToNeedRestart, Refused, Updated, EnsureSave, EnsureFails, ResetTraffic, SetLimits, At,
       Control
  <2> QED
    BY <1>0, <2>1, <2>2, <2>3, <2>4, <2>5 DEF Places, Control
<1>3. ASSUME NEW r \in Request,
             \/ DisableExpired(r) \/ ExpireFails(r) \/ Save(r)
             \/ \E c \in Client : ExpireRow(r, c) \/ EnsureRead(r, c) \/ EnsureAgain(r, c)
      PROVE  Places'
  <2>1. UNCHANGED <<needRestart, late, active>>
    BY <1>3 DEF DisableExpired, ExpireFails, Save, ExpireRow, EnsureRead, EnsureAgain, System,
       xrayVars
  <2>2. UNCHANGED unnoticed \/ unnoticed' = TRUE \/ Silently(r)
    BY <1>3 DEF DisableExpired, ExpireFails, Save, ExpireRow, EnsureRead, EnsureAgain, System,
       history
  <2>3. unnoticed' \in BOOLEAN
    BY <1>0, <2>2, Zenon DEF Places, Silently
  <2>4. PICK S \in SUBSET Client :
            /\ todo' = [todo EXCEPT ![r] = S]
            /\ S # {} => rpc'[r] \in {"rows", "write", "expire"}
    <3>1. CASE DisableExpired(r)
      <4> DEFINE S == {c \in Client : row[c].on /\ row[c].plan.expires}
      <4>1. todo' = [todo EXCEPT ![r] = S] /\ S \in SUBSET Client
        BY <3>1 DEF DisableExpired
      <4>2. rpc'[r] = "expire"
        BY <1>0, <3>1 DEF DisableExpired, At, Control
      <4> HIDE DEF S
      <4> QED
        BY <4>1, <4>2
    <3>2. CASE ExpireFails(r)
      BY <3>2 DEF ExpireFails
    <3>3. CASE Save(r)
      BY <1>0, <3>3 DEF Save, At, Control
    <3>4. ASSUME NEW c \in Client, ExpireRow(r, c) \/ EnsureRead(r, c)
          PROVE  \E S \in SUBSET Client :
                    /\ todo' = [todo EXCEPT ![r] = S]
                    /\ S # {} => rpc'[r] \in {"rows", "write", "expire"}
      <4>1. todo' = [todo EXCEPT ![r] = todo[r] \ {c}] /\ todo[r] \ {c} \in SUBSET Client
        BY <1>0, <3>4 DEF ExpireRow, EnsureRead, Places
      <4>2. todo[r] \ {c} # {} => rpc'[r] \in {"rows", "write", "expire"}
        BY <1>0, <3>4 DEF ExpireRow, EnsureRead, At, Control
      <4> QED
        BY <4>1, <4>2
    <3>5. ASSUME NEW c \in Client, EnsureAgain(r, c)
          PROVE  \E S \in SUBSET Client :
                    /\ todo' = [todo EXCEPT ![r] = S]
                    /\ S # {} => rpc'[r] \in {"rows", "write", "expire"}
      <4>1. todo' = [todo EXCEPT ![r] = {c}] /\ rpc'[r] = "rows"
        BY <1>0, <3>5 DEF EnsureAgain
      <4> QED
        BY <4>1
    <3> QED
      BY <1>3, <3>1, <3>2, <3>3, <3>4, <3>5
  <2>5. \A q \in Request \ {r} : rpc'[q] = rpc[q]
    BY <1>0, <1>3 DEF DisableExpired, ExpireFails, Save, ExpireRow, EnsureRead, EnsureAgain, At,
       Control
  <2> QED
    BY <1>0, <2>1, <2>3, <2>4, <2>5 DEF Places, Control
<1> QED
  BY <1>1, <1>2, <1>3 DEF Next, RequestStep, Arrival, Failure

LEMMA TypedNext ==
    ASSUME TypeOK, [Next]_vars
    PROVE  TypeOK'
<1>1. Control'
  BY TypeParts, ControlNext
<1>2. Bounds'
  BY TypeParts, BoundsNext
<1>3. TypeOK' <=> (Tables /\ Counts /\ Reads /\ Places /\ Bounds /\ Control)'
  BY TypeParts, PTL
<1> QED
  BY <1>1, <1>2, <1>3, TablesNext, CountsNext, ReadsNext, PlacesNext

\* TypeOK holds of every run.
THEOREM Typed == Spec => []TypeOK
<1>1. TypeOK /\ [Next]_vars => TypeOK'
  BY TypedNext
<1> QED
  BY InitTyped, <1>1, PTL DEF Spec

-----------------------------------------------------------------------------
(* Nobody is forgotten in xray.                                             *)
IsAccount(a) ==
    /\ a = [used |-> a.used, plan |-> a.plan, on |-> a.on]
    /\ a.on \in BOOLEAN

Accounts ==
    /\ IsAccount(inb)
    /\ row = [c \in Client |-> row[c]]
    /\ \A c \in Client : IsAccount(row[c])
    /\ rin = [r \in Request |-> rin[r]]
    /\ \A r \in Request : IsAccount(rin[r])

LEMMA TypedAccounts == TypeOK => Accounts
<1> SUFFICES ASSUME TypeOK
             PROVE  Accounts
  OBVIOUS
<1>1. Tables
  BY TypeParts
<1>2. \A a \in Account : IsAccount(a)
  BY DEF Account, IsAccount
<1> QED
  BY <1>1, <1>2 DEF Tables, Accounts

\* Somebody has raised the flag or is about to.
Pending ==
    \/ needRestart \/ unnoticed
    \/ \E j \in Job : jpc[j] = "flag"
    \/ \E r \in Request : WillFlag(r)

\* A step that disables nobody and drops no promise keeps DisabledIsNoticed.
LEMMA Kept ==
    ASSUME DisabledIsNoticed, UNCHANGED active, Enabled \subseteq Enabled', Pending => Pending'
    PROVE  DisabledIsNoticed'
BY DEF DisabledIsNoticed, Pending

LEMMA SameTables ==
    ASSUME UNCHANGED inb, UNCHANGED row
    PROVE  Enabled = Enabled'
BY DEF Enabled

LEMMA NoticedNext ==
    ASSUME Accounts, Control, DisabledIsNoticed, [Next]_vars
    PROVE  DisabledIsNoticed'
<1>1. ASSUME Expire \/ (\E c \in Client : Serve(c)) \/ UNCHANGED vars
      PROVE  DisabledIsNoticed'
  <2>1. UNCHANGED inb /\ UNCHANGED row /\ UNCHANGED active
    BY <1>1 DEF Expire, Serve, vars, xrayVars
  <2>2. Pending => Pending'
    BY <1>1 DEF Expire, Serve, vars, reqVars, jobVars, history, Pending,
       WillFlag
  <2> QED
    BY <2>1, <2>2, Kept, SameTables
<1>2. ASSUME Reload \/ ReloadFails \/ Restart
      PROVE  DisabledIsNoticed'
  <2>1. \/ active' = Enabled \/ active' = {}
        \/ active' = active /\ (Enabled # active => unnoticed')
    <3>1. CASE Reload \/ Restart
      BY <3>1 DEF Reload, Restart, Counters, xrayVars
    <3>2. CASE ReloadFails
      <4>1. CASE Counters({})
        BY <4>1 DEF Counters
      <4>2. CASE unnoticed' = (unnoticed \/ Enabled # active) /\ UNCHANGED <<xrayVars, lost>>
        BY <4>2 DEF xrayVars
      <4> QED
        BY <3>2, <4>1, <4>2 DEF ReloadFails
    <3> QED
      BY <1>2, <3>1, <3>2
  <2>2. UNCHANGED inb /\ UNCHANGED row
    BY <1>2 DEF Reload, ReloadFails, Restart
  <2>3. Enabled = Enabled'
    BY <2>2, SameTables
  <2> QED
    BY <2>1, <2>3 DEF DisabledIsNoticed
<1>3. ASSUME NEW j \in Job,
             GetTraffic(j) \/ GetTrafficFails(j) \/ AddTrafficByEmailFails(j)
      PROVE  DisabledIsNoticed'
  <2>1. UNCHANGED inb /\ UNCHANGED row /\ UNCHANGED active
    BY <1>3 DEF GetTraffic, GetTrafficFails, AddTrafficByEmailFails, xrayVars
  <2>2. Pending => Pending'
    BY <1>3 DEF GetTraffic, GetTrafficFails, AddTrafficByEmailFails, JobAt, reqVars, jobVars,
       history, Pending, WillFlag, Control
  <2> QED
    BY <2>1, <2>2, Kept, SameTables
<1>4. ASSUME NEW j \in Job, AddTraffic(j)
      PROVE  DisabledIsNoticed'
  <2>1. inb'.on = inb.on
    BY <1>4 DEF AddTraffic, Accounts, IsAccount
  <2>2. UNCHANGED row /\ UNCHANGED active
    BY <1>4 DEF AddTraffic, xrayVars
  <2>3. Enabled = Enabled'
    BY <2>1, <2>2 DEF Enabled
  <2>4. Pending => Pending'
    BY <1>4 DEF AddTraffic, JobAt, reqVars, history, Pending, WillFlag,
       Control
  <2> QED
    BY <2>2, <2>3, <2>4, Kept
<1>5. ASSUME NEW j \in Job, JobFlag(j)
      PROVE  DisabledIsNoticed'
  BY <1>5 DEF JobFlag, DisabledIsNoticed
<1>6. ASSUME NEW j \in Job, AddTrafficByEmail(j)
      PROVE  DisabledIsNoticed'
  <2>1. CASE jpc'[j] = "flag"
    BY <2>1 DEF DisabledIsNoticed
  <2>2. CASE jpc'[j] # "flag"
    <3>1. \A c \in Client : row[c].on => row'[c].on
      <4> DEFINE Added(c) == [row[c] EXCEPT !.used = @ + delta[j][c]]
      <4>1. PICK idle \in SUBSET {c \in Client : delta[j][c] = 0} :
                LET Cut(c) == c \notin idle /\ row[c].on /\ Over(Added(c))
                IN  /\ row' = [c \in Client |-> [Added(c) EXCEPT !.on = @ /\ ~Cut(c)]]
                    /\ JobAt(j, IF \E c \in Client : Cut(c) THEN "flag" ELSE "idle")
        BY <1>6 DEF AddTrafficByEmail
      <4> DEFINE Cut(c) == c \notin idle /\ row[c].on /\ Over(Added(c))
      <4>2. \A c \in Client : ~Cut(c)
        BY <4>1, <2>2 DEF JobAt, Control
      <4>3. \A c \in Client : Added(c).on = row[c].on /\ "on" \in DOMAIN Added(c)
        BY DEF Accounts, IsAccount
      <4> HIDE DEF Cut, Added
      <4>4. \A c \in Client : row'[c].on = (Added(c).on /\ ~Cut(c))
        BY <4>1, <4>3 DEF Cut, Added
      <4> QED
        BY <4>2, <4>3, <4>4 DEF Accounts, IsAccount
    <3>2. UNCHANGED inb /\ UNCHANGED active
      BY <1>6 DEF AddTrafficByEmail, xrayVars
    <3>3. Enabled \subseteq Enabled'
      BY <3>1, <3>2 DEF Enabled
    <3>4. Pending => Pending'
      BY <1>6, <2>2 DEF AddTrafficByEmail, JobAt, reqVars, history, Pending, WillFlag,
       Control
    <3> QED
      BY <3>2, <3>3, <3>4, Kept
  <2> QED
    BY <2>1, <2>2
<1>7. ASSUME NEW r \in Request, NEW c \in Client, ResetTraffic(r, c)
      PROVE  DisabledIsNoticed'
  <2>1. \A d \in Client : row'[d].on = row[d].on
    BY <1>7 DEF ResetTraffic, Accounts, IsAccount
  <2>2. UNCHANGED inb /\ UNCHANGED active
    BY <1>7 DEF ResetTraffic, Only, xrayVars
  <2>3. Enabled = Enabled'
    BY <2>1, <2>2 DEF Enabled
  <2>4. Pending => Pending'
    BY <1>7 DEF ResetTraffic, Only, jobVars, Pending, WillFlag
  <2> QED
    BY <2>2, <2>3, <2>4, Kept
<1>8. ASSUME NEW r \in Request, ResetTrafficMany(r)
      PROVE  DisabledIsNoticed'
  <2>1. inb'.on = inb.on
    BY <1>8 DEF ResetTrafficMany, Accounts, IsAccount
  <2>2. UNCHANGED row /\ UNCHANGED active
    BY <1>8 DEF ResetTrafficMany, Only, xrayVars
  <2>3. Enabled = Enabled'
    BY <2>1, <2>2 DEF Enabled
  <2>4. Pending => Pending'
    BY <1>8 DEF ResetTrafficMany, Only, jobVars, Pending, WillFlag
  <2> QED
    BY <2>2, <2>3, <2>4, Kept
<1>9. ASSUME NEW r \in Request,
             SetEnableMany(r) \/ DisableInvalidInbounds(r) \/ DisableExpired(r)
                \/ \E c \in Client : SetLimits(r, c) \/ ExpireRow(r, c)
      PROVE  DisabledIsNoticed'
  <2>1. rpc'[r] \in {"flag", "expire"}
    BY <1>9 DEF SetEnableMany, DisableInvalidInbounds, DisableExpired, SetLimits, ExpireRow,
       At, Control
  <2> QED
    BY <2>1 DEF DisabledIsNoticed, WillFlag
<1>10. ASSUME NEW r \in Request, Save(r) \/ EnsureSave(r)
       PROVE  DisabledIsNoticed'
  <2>1. rpc'[r] = "rows" /\ kind'[r] = kind[r]
    BY <1>10 DEF Save, EnsureSave, At, Control
  <2>2. CASE kind[r] = "inreset"
    BY <1>10, <2>2 DEF Save, EnsureSave, Silently, DisabledIsNoticed
  <2>3. CASE kind[r] # "inreset"
    BY <2>1, <2>3 DEF DisabledIsNoticed, WillFlag
  <2> QED
    BY <2>2, <2>3
<1>11. ASSUME NEW r \in Request, Updated(r), kind[r] # "inreset"
       PROVE  DisabledIsNoticed'
  <2>1. rpc'[r] = "flag"
    BY <1>11 DEF Updated, At, Control
  <2> QED
    BY <2>1 DEF DisabledIsNoticed, WillFlag
<1>12. ASSUME NEW r \in Request, SetToNeedRestart(r)
       PROVE  DisabledIsNoticed'
  BY <1>12 DEF SetToNeedRestart, DisabledIsNoticed
<1>13. ASSUME NEW r \in Request,
              \/ Load(r) \/ Refused(r) \/ EnsureFails(r)
              \/ Updated(r) /\ kind[r] = "inreset"
              \/ \E c \in Client : EnsureRead(r, c) \/ EnsureAgain(r, c)
       PROVE  DisabledIsNoticed'
  <2>1. UNCHANGED inb /\ UNCHANGED row /\ UNCHANGED active
    BY <1>13 DEF Load, Refused, Updated, EnsureFails, EnsureRead, EnsureAgain, System, xrayVars
  <2>2. UNCHANGED needRestart /\ UNCHANGED jpc /\ UNCHANGED unnoticed
    BY <1>13 DEF Load, Refused, Updated, EnsureFails, EnsureRead, EnsureAgain, System, jobVars,
       history
  <2>3. WillFlag(r) => WillFlag(r)'
    BY <1>13 DEF Load, Refused, Updated, EnsureFails, EnsureRead, EnsureAgain, At, WillFlag,
       Control
  <2>4. \A q \in Request \ {r} : rpc'[q] = rpc[q] /\ kind'[q] = kind[q]
    BY <1>13 DEF Load, Refused, Updated, EnsureFails, EnsureRead, EnsureAgain, Forget, At,
       Control
  <2>5. Pending => Pending'
    BY <2>2, <2>3, <2>4 DEF Pending, WillFlag
  <2> QED
    BY <2>1, <2>5, Kept, SameTables
<1>14. ASSUME NEW r \in Request, ExpireFails(r)
       PROVE  DisabledIsNoticed'
  BY <1>14 DEF ExpireFails, DisabledIsNoticed
<1> QED
  BY <1>1, <1>2, <1>3, <1>4, <1>5, <1>6, <1>7, <1>8, <1>9, <1>10, <1>11, <1>12, <1>13, <1>14
  DEF Next, JobStep, RequestStep, Arrival, Failure

LEMMA InitNoticed == Init => DisabledIsNoticed
BY DEF Init, DisabledIsNoticed, Enabled

\* A client that the tables disable is in xray only while the flag is up or about to
\* be; or, since it was last raised, a handler has changed the tables and told nobody,
\* or a tick has taken the flag and failed.
THEOREM DisabledNeverForgotten == Spec => []DisabledIsNoticed
<1> DEFINE Inv == TypeOK /\ DisabledIsNoticed
<1>1. Init => Inv
  BY InitTyped, InitNoticed
<1>2. Inv /\ [Next]_vars => Inv'
  <2> SUFFICES ASSUME Inv, [Next]_vars
               PROVE  Inv'
    OBVIOUS
  <2>1. Accounts /\ Control
    BY TypedAccounts, TypeParts
  <2> QED
    BY <2>1, TypedNext, NoticedNext
<1> QED
  BY <1>1, <1>2, PTL DEF Spec

-----------------------------------------------------------------------------
\* What Fetched is, and how it moves when one job's counts change.
Deltas(c) == [j \in Job |-> delta[j][c]]

LEMMA FetchedNat == Counts => \A c \in Client : Fetched(c) \in Nat
<1> SUFFICES ASSUME Counts, NEW c \in Client
             PROVE  Fetched(c) \in Nat
  OBVIOUS
<1>1. \A j \in Job : Deltas(c)[j] \in Nat
  BY DEF Counts, PerClient, Deltas
<1>2. Total(Deltas(c), Job) \in Nat
  BY <1>1, TotalNat, ConstantsOK DEF ConstantsOK
<1> QED
  BY <1>2 DEF Fetched, Deltas

LEMMA FetchedUpdate ==
    ASSUME Counts, NEW j \in Job, NEW f \in PerClient, delta' = [delta EXCEPT ![j] = f],
           NEW c \in Client
    PROVE  Fetched(c)' + delta[j][c] = Fetched(c) + f[c]
<1> DEFINE old == Deltas(c)
           new == [i \in Job |-> delta'[i][c]]
<1>1. \A i \in Job : old[i] \in Nat /\ new[i] \in Nat
  BY DEF Counts, PerClient, Deltas
<1>2. \A i \in Job \ {j} : new[i] = old[i]
  BY DEF Counts, Deltas
<1>3. old[j] = delta[j][c] /\ new[j] = f[c]
  BY DEF Counts, Deltas
<1>4. Fetched(c) = Total(old, Job) /\ Fetched(c)' = Total(new, Job)
  BY DEF Fetched, Deltas
<1> HIDE DEF old, new
<1>5. Total(new, Job) + old[j] = Total(old, Job) + new[j]
  BY <1>1, <1>2, TotalUpdate, ConstantsOK DEF ConstantsOK
<1> QED
  BY <1>3, <1>4, <1>5

LEMMA FetchedSame ==
    ASSUME UNCHANGED delta, NEW c
    PROVE  Fetched(c)' = Fetched(c)
BY DEF Fetched

LEMMA FetchedZero ==
    ASSUME delta = [j \in Job |-> Zero], NEW c \in Client
    PROVE  Fetched(c) = 0
<1>1. \A j \in Job : Deltas(c)[j] = 0
  BY DEF Zero, Deltas
<1>2. Total(Deltas(c), Job) = 0
  BY <1>1, TotalZero, ConstantsOK DEF ConstantsOK
<1> QED
  BY <1>2 DEF Fetched, Deltas

-----------------------------------------------------------------------------
(* No byte is charged twice.                                                *)

\* What is under way to the row of c.
Coming(c) == stat[c] + Fetched(c)

\* What a handler has read and will write back is no more than was served
\* before the bytes now under way.
ReadsAreOld ==
    \A r \in Request : \A c \in DOMAIN read[r] : read[r][c] + Coming(c) <= served[c]

\* A traffic job holds bytes only between the query and AddTrafficByEmail.
IdleIsEmpty == \A j \in Job : jpc[j] \in {"idle", "flag"} => delta[j] = Zero

CountInv == TypeOK /\ IdleIsEmpty /\ NoOverCount /\ ReadsAreOld

\* Every byte of the client that some record accounts for.
Known(c) == row[c].used + Coming(c) + cleared[c] + lost[c]

NaturalCounts ==
    \A c \in Client : /\ row[c].used \in Nat /\ stat[c] \in Nat /\ served[c] \in Nat
                      /\ lost[c] \in Nat /\ cleared[c] \in Nat /\ Fetched(c) \in Nat

LEMMA Naturals == TypeOK => NaturalCounts
<1> SUFFICES ASSUME TypeOK, NEW c \in Client
             PROVE  /\ row[c].used \in Nat /\ stat[c] \in Nat /\ served[c] \in Nat
                    /\ lost[c] \in Nat /\ cleared[c] \in Nat /\ Fetched(c) \in Nat
  BY DEF NaturalCounts
<1>1. Tables /\ Counts
  BY TypeParts
<1>2. Fetched(c) \in Nat
  BY <1>1, FetchedNat
<1> QED
  BY <1>1, <1>2 DEF Tables, Counts, PerClient, Account

\* What a step does to the bytes of a client: what is under way shrinks unless
\* as much is served; and but for EnsureSave every byte stays accounted for.
Conserves(c) == Known(c)' + served[c] = Known(c) + served'[c]

Ages(c) ==
    /\ Coming(c)' + served[c] <= Coming(c) + served'[c]
    /\ cleared[c] <= cleared'[c] /\ lost[c] <= lost'[c]

LEMMA QuietFlow ==
    ASSUME TypeOK, NEW c \in Client, UNCHANGED <<stat, delta, served, lost, cleared>>
    PROVE  /\ Ages(c)
           /\ row'[c].used = row[c].used => Conserves(c)
<1>1. Coming(c)' = Coming(c)
  BY FetchedSame DEF Coming
<1>2. Coming(c) \in Nat
  BY Naturals DEF Coming, NaturalCounts
<1> QED
  BY <1>1, <1>2, Naturals DEF Ages, Conserves, Known, NaturalCounts

LEMMA Flow ==
    ASSUME TypeOK, IdleIsEmpty, [Next]_vars, NEW c \in Client
    PROVE  /\ Ages(c)
           /\ (\A r \in Request : ~EnsureSave(r)) => Conserves(c)
<1>0. Tables /\ Counts /\ TypeOK'
  BY TypeParts, TypedNext
<1>n. /\ row[c].used \in Nat /\ stat[c] \in Nat /\ served[c] \in Nat
      /\ lost[c] \in Nat /\ cleared[c] \in Nat /\ Fetched(c) \in Nat
  BY Naturals DEF NaturalCounts
<1>p. /\ row'[c].used \in Nat /\ stat'[c] \in Nat /\ served'[c] \in Nat
      /\ lost'[c] \in Nat /\ cleared'[c] \in Nat /\ Fetched(c)' \in Nat
  <2>1. NaturalCounts'
    BY <1>0, Naturals, PTL
  <2> QED
    BY <2>1 DEF NaturalCounts
<1>1. ASSUME \/ Expire \/ UNCHANGED vars
             \/ \E j \in Job : AddTraffic(j) \/ JobFlag(j)
             \/ \E r \in Request :
                   \/ ResetTrafficMany(r) \/ SetEnableMany(r) \/ DisableExpired(r) \/ Load(r)
                   \/ SetToNeedRestart(r) \/ Save(r) \/ Updated(r)
                   \/ ExpireFails(r) \/ EnsureFails(r) \/ Refused(r) \/ DisableInvalidInbounds(r)
                   \/ \E d \in Client : EnsureRead(r, d) \/ EnsureAgain(r, d)
      PROVE  Ages(c) /\ Conserves(c)
  <2>1. UNCHANGED <<stat, delta, served, lost, cleared>> /\ UNCHANGED row
    BY <1>1 DEF Expire, vars, xrayVars, jobVars, history, AddTraffic, JobFlag,
       ResetTrafficMany, SetEnableMany, DisableExpired, Load, SetToNeedRestart, Save,
       Updated, ExpireFails, EnsureFails, Refused, DisableInvalidInbounds,
       EnsureRead, EnsureAgain, Only, System
  <2> QED
    BY <2>1, QuietFlow
<1>2. ASSUME NEW r \in Request, EnsureSave(r)
      PROVE  Ages(c)
  <2>1. UNCHANGED <<stat, delta, served, lost, cleared>>
    BY <1>2 DEF EnsureSave, xrayVars, jobVars
  <2> QED
    BY <2>1, QuietFlow
<1>3. ASSUME NEW r \in Request, NEW d \in Client, SetLimits(r, d) \/ ExpireRow(r, d)
      PROVE  Ages(c) /\ Conserves(c)
  <2>1. UNCHANGED <<stat, delta, served, lost, cleared>>
    BY <1>3 DEF SetLimits, ExpireRow, Only, System, xrayVars, jobVars, history
  <2>2. row'[c].used = row[c].used
    <3>1. row[c] \in Account /\ row[d] \in Account
      BY <1>0 DEF Tables
    <3>2. CASE SetLimits(r, d)
      <4>1. PICK l \in Plan, on \in BOOLEAN :
                row' = [row EXCEPT ![d].plan = l, ![d].on = on]
        BY <3>2 DEF SetLimits
      <4> QED
        BY <1>0, <3>1, <4>1 DEF Tables, Account
    <3>3. CASE ExpireRow(r, d)
      BY <1>0, <3>1, <3>3 DEF ExpireRow, Tables, Account
    <3> QED
      BY <1>3, <3>2, <3>3
  <2> QED
    BY <2>1, <2>2, QuietFlow
<1>4. ASSUME NEW d \in Client, Serve(d)
      PROVE  Ages(c) /\ Conserves(c)
  <2>1. UNCHANGED <<row, delta, lost, cleared>>
    BY <1>4 DEF Serve, jobVars
  <2>2. Fetched(c)' = Fetched(c)
    BY <2>1, FetchedSame
  <2>3. stat'[c] + served[c] = stat[c] + served'[c]
    BY <1>0, <1>n, <1>4 DEF Serve, Counts, PerClient
  <2> QED
    BY <1>n, <1>p, <2>1, <2>2, <2>3 DEF Ages, Conserves, Known, Coming
<1>5. ASSUME Reload \/ ReloadFails \/ Restart \/ \E j \in Job : GetTrafficFails(j)
      PROVE  Ages(c) /\ Conserves(c)
  <2>1. UNCHANGED <<row, delta, served, cleared>>
    BY <1>5 DEF Reload, ReloadFails, Restart, GetTrafficFails, jobVars
  <2>2. UNCHANGED <<stat, lost>> \/ (stat' = Zero /\ lost' = Plus(lost, stat))
    BY <1>5 DEF Reload, ReloadFails, Restart, GetTrafficFails, Counters, xrayVars
  <2>3. Fetched(c)' = Fetched(c)
    BY <2>1, FetchedSame
  <2>4. \/ stat'[c] = stat[c] /\ lost'[c] = lost[c]
        \/ stat'[c] = 0 /\ lost'[c] = lost[c] + stat[c]
    BY <1>0, <2>2, ZeroTyped, PlusTyped DEF Counts
  <2> QED
    BY <1>n, <1>p, <2>1, <2>3, <2>4 DEF Ages, Conserves, Known, Coming
<1>6. ASSUME NEW j \in Job, GetTraffic(j)
      PROVE  Ages(c) /\ Conserves(c)
  <2>1. UNCHANGED <<row, served, lost, cleared>>
    BY <1>6 DEF GetTraffic, history
  <2>2. delta' = [delta EXCEPT ![j] = stat] /\ stat' = Zero /\ stat \in PerClient
    BY <1>0, <1>6 DEF GetTraffic, Counts
  <2>3. Fetched(c)' + delta[j][c] = Fetched(c) + stat[c]
    BY <1>0, <2>2, FetchedUpdate
  <2>4. delta[j][c] = 0 /\ stat'[c] = 0
    BY <1>6, <2>2, ZeroTyped DEF IdleIsEmpty, GetTraffic
  <2> QED
    BY <1>n, <1>p, <2>1, <2>3, <2>4 DEF Ages, Conserves, Known, Coming
<1>7. ASSUME NEW j \in Job, AddTrafficByEmail(j) \/ AddTrafficByEmailFails(j)
      PROVE  Ages(c) /\ Conserves(c)
  <2>1. UNCHANGED <<stat, served, cleared>> /\ delta' = [delta EXCEPT ![j] = Zero]
    BY <1>7 DEF AddTrafficByEmail, AddTrafficByEmailFails, xrayVars, history
  <2>2. Fetched(c)' + delta[j][c] = Fetched(c) + Zero[c]
    BY <1>0, <2>1, ZeroTyped, FetchedUpdate
  <2>3. delta[j] \in PerClient /\ delta[j][c] \in Nat /\ Zero[c] = 0
    BY <1>0, ZeroTyped DEF Counts, PerClient
  <2>4. \/ row'[c].used = row[c].used + delta[j][c] /\ lost'[c] = lost[c]
        \/ row'[c].used = row[c].used /\ lost'[c] = lost[c] + delta[j][c]
    <3>1. CASE AddTrafficByEmail(j)
      <4>1. PICK S \in SUBSET Client :
                row' = [d \in Client |-> [row[d] EXCEPT !.used = @ + delta[j][d],
                                                        !.on = @ /\ d \notin S]]
        BY <3>1, AddByEmail
      <4>2. row[c] \in Account
        BY <1>0 DEF Tables
      <4>3. row'[c].used = row[c].used + delta[j][c]
        BY <4>1, <4>2 DEF Account
      <4>4. UNCHANGED lost
        BY <3>1 DEF AddTrafficByEmail, history
      <4> QED
        BY <4>3, <4>4
    <3>2. CASE AddTrafficByEmailFails(j)
      <4>1. UNCHANGED row /\ lost' = Plus(lost, delta[j])
        BY <3>2 DEF AddTrafficByEmailFails
      <4> QED
        BY <1>0, <2>3, <4>1, PlusTyped DEF Counts
    <3> QED
      BY <1>7, <3>1, <3>2
  <2> QED
    BY <1>n, <1>p, <2>1, <2>2, <2>3, <2>4 DEF Ages, Conserves, Known, Coming
<1>8. ASSUME NEW r \in Request, NEW d \in Client, ResetTraffic(r, d)
      PROVE  Ages(c) /\ Conserves(c)
  <2>1. UNCHANGED <<stat, delta, served, lost>>
    BY <1>8 DEF ResetTraffic, Only, xrayVars, jobVars
  <2>2. Fetched(c)' = Fetched(c)
    BY <2>1, FetchedSame
  <2>3. row'[c].used + cleared'[c] = row[c].used + cleared[c] /\ cleared[c] <= cleared'[c]
    <3>1. CASE c = d
      BY <1>0, <1>n, <1>8, <3>1 DEF ResetTraffic, Tables, Counts, PerClient, Account
    <3>2. CASE c # d
      BY <1>0, <1>n, <1>8, <3>2 DEF ResetTraffic, Tables, Counts, PerClient
    <3> QED
      BY <3>1, <3>2
  <2> QED
    BY <1>n, <1>p, <2>1, <2>2, <2>3 DEF Ages, Conserves, Known, Coming
<1>9. Ages(c) /\ (Conserves(c) \/ \E r \in Request : EnsureSave(r))
  BY <1>1, <1>2, <1>3, <1>4, <1>5, <1>6, <1>7, <1>8
  DEF Next, JobStep, RequestStep, Arrival, Failure
<1> QED
  BY <1>9

LEMMA IdleNext ==
    ASSUME TypeOK, IdleIsEmpty, [Next]_vars
    PROVE  IdleIsEmpty'
<1>0. Counts /\ Control
  BY TypeParts
<1>1. ASSUME NEW j \in Job, GetTraffic(j) \/ AddTraffic(j)
      PROVE  IdleIsEmpty'
  <2>1. /\ jpc'[j] \in {"inbound", "client"}
        /\ \A k \in Job \ {j} : jpc'[k] = jpc[k] /\ delta'[k] = delta[k]
    BY <1>0, <1>1 DEF GetTraffic, AddTraffic, JobAt, Counts, Control
  <2> QED
    BY <2>1 DEF IdleIsEmpty
<1>2. ASSUME NEW j \in Job, AddTrafficByEmail(j) \/ AddTrafficByEmailFails(j)
      PROVE  IdleIsEmpty'
  <2>1. /\ delta'[j] = Zero
        /\ \A k \in Job \ {j} : jpc'[k] = jpc[k] /\ delta'[k] = delta[k]
    BY <1>0, <1>2 DEF AddTrafficByEmail, AddTrafficByEmailFails, JobAt, Counts, Control
  <2> QED
    BY <2>1 DEF IdleIsEmpty, Zero
<1>3. ASSUME NEW j \in Job, JobFlag(j)
      PROVE  IdleIsEmpty'
  <2>1. /\ delta' = delta /\ jpc[j] = "flag"
        /\ \A k \in Job \ {j} : jpc'[k] = jpc[k]
    BY <1>0, <1>3 DEF JobFlag, JobAt, Control
  <2> QED
    BY <2>1 DEF IdleIsEmpty, Zero
<1>4. ASSUME \/ Expire \/ Reload \/ ReloadFails \/ Restart \/ UNCHANGED vars
             \/ \E c \in Client : Serve(c)
             \/ \E j \in Job : GetTrafficFails(j)
             \/ \E r \in Request :
                   \/ ResetTrafficMany(r) \/ SetEnableMany(r) \/ DisableExpired(r) \/ Load(r)
                   \/ SetToNeedRestart(r) \/ Save(r) \/ EnsureSave(r) \/ Updated(r)
                   \/ ExpireFails(r) \/ EnsureFails(r) \/ Refused(r) \/ DisableInvalidInbounds(r)
                   \/ \E c \in Client : \/ SetLimits(r, c) \/ ExpireRow(r, c) \/ ResetTraffic(r, c)
                                       \/ EnsureRead(r, c) \/ EnsureAgain(r, c)
      PROVE  IdleIsEmpty'
  <2>1. UNCHANGED <<jpc, delta>>
    <3>1. CASE \/ Expire \/ Reload \/ ReloadFails \/ Restart \/ UNCHANGED vars
               \/ \E c \in Client : Serve(c)
               \/ \E j \in Job : GetTrafficFails(j)
      BY <3>1 DEF Expire, Reload, ReloadFails, Restart, vars, jobVars, Serve, GetTrafficFails
    <3>2. ASSUME NEW r \in Request,
                 \/ ResetTrafficMany(r) \/ SetEnableMany(r) \/ DisableExpired(r) \/ Load(r)
                 \/ \E c \in Client : SetLimits(r, c) \/ ResetTraffic(r, c)
                 \/ DisableInvalidInbounds(r) \/ Refused(r)
          PROVE  UNCHANGED <<jpc, delta>>
      BY <3>2 DEF ResetTrafficMany, SetEnableMany, DisableExpired, Load, SetLimits, ResetTraffic,
         DisableInvalidInbounds, Refused, Only, System, jobVars
    <3>3. ASSUME NEW r \in Request,
                 \/ SetToNeedRestart(r) \/ Save(r) \/ EnsureSave(r) \/ Updated(r)
                 \/ ExpireFails(r) \/ EnsureFails(r)
                 \/ \E c \in Client : ExpireRow(r, c) \/ EnsureRead(r, c) \/ EnsureAgain(r, c)
          PROVE  UNCHANGED <<jpc, delta>>
      BY <3>3 DEF SetToNeedRestart, Save, EnsureSave, Updated, ExpireFails, EnsureFails, ExpireRow,
         EnsureRead, EnsureAgain, Only, System, jobVars
    <3> QED
      BY <1>4, <3>1, <3>2, <3>3
  <2> QED
    BY <2>1 DEF IdleIsEmpty, Zero
<1> QED
  BY <1>1, <1>2, <1>3, <1>4 DEF Next, JobStep, RequestStep, Arrival, Failure

\* But for EnsureRead, no step makes a handler hold a count it did not hold.
LEMMA ReadsKept ==
    ASSUME TypeOK, [Next]_vars, NEW r \in Request, \A c \in Client : ~EnsureRead(r, c),
           NEW c \in DOMAIN read'[r]
    PROVE  c \in DOMAIN read[r] /\ read'[r][c] = read[r][c]
<1>0. Reads
  BY TypeParts
<1>1. ASSUME NEW q \in Request, EnsureSave(q) \/ EnsureFails(q)
      PROVE  c \in DOMAIN read[r] /\ read'[r][c] = read[r][c]
  BY <1>0, <1>1 DEF EnsureSave, EnsureFails, Nothing, Reads
<1>2. ASSUME NEW q \in Request, NEW d \in Client, EnsureRead(q, d)
      PROVE  c \in DOMAIN read[r] /\ read'[r][c] = read[r][c]
  <2>1. q # r
    BY <1>2
  <2> QED
    BY <1>0, <1>2, <2>1 DEF EnsureRead, Reads
<1>3. ASSUME UNCHANGED read
      PROVE  c \in DOMAIN read[r] /\ read'[r][c] = read[r][c]
  BY <1>3
<1>4. \/ UNCHANGED read
      \/ \E q \in Request : EnsureSave(q) \/ EnsureFails(q) \/ \E d \in Client : EnsureRead(q, d)
  BY DEF Next, JobStep, RequestStep, Arrival, Failure,
       Expire, vars, reqVars, Reload, ReloadFails, Restart, Serve, GetTraffic, AddTraffic,
       AddTrafficByEmail, JobFlag, GetTrafficFails, AddTrafficByEmailFails,
       ResetTrafficMany, SetEnableMany, DisableExpired, Load, SetToNeedRestart, Save,
       Updated, ExpireFails, Refused, DisableInvalidInbounds, SetLimits, ExpireRow,
       ResetTraffic, EnsureAgain, Only, System
<1> QED
  BY <1>1, <1>2, <1>3, <1>4

LEMMA ReadsOldNext ==
    ASSUME TypeOK, IdleIsEmpty, NoOverCount, ReadsAreOld, [Next]_vars
    PROVE  ReadsAreOld'
<1> SUFFICES ASSUME NEW r \in Request, NEW c \in DOMAIN read'[r]
             PROVE  read'[r][c] + Coming(c)' <= served'[c]
  BY DEF ReadsAreOld
<1>1. TypeOK' /\ Reads /\ Reads' /\ Tables
  BY TypedNext, TypeParts, ReadsNext
<1>2. c \in Client /\ read'[r][c] \in Nat
  BY <1>1 DEF Reads
<1>3. Coming(c) \in Nat /\ served[c] \in Nat
  BY <1>2, Naturals DEF NaturalCounts, Coming
<1>4. Coming(c)' \in Nat /\ served'[c] \in Nat
  <2>1. NaturalCounts'
    BY <1>1, Naturals, PTL
  <2> QED
    BY <1>2, <2>1 DEF NaturalCounts, Coming
<1>5. Coming(c)' + served[c] <= Coming(c) + served'[c]
  BY <1>2, Flow DEF Ages
<1>6. read'[r][c] + Coming(c) <= served[c]
  <2>1. CASE \A d \in Client : ~EnsureRead(r, d)
    BY <2>1, ReadsKept DEF ReadsAreOld
  <2>2. ASSUME NEW d \in Client, EnsureRead(r, d)
        PROVE  read'[r][c] + Coming(c) <= served[c]
    <3>1. read'[r] = [e \in {d} |-> row[e].used]
      BY <1>1, <2>2 DEF EnsureRead, Reads
    <3>2. read'[r][c] = row[c].used
      BY <3>1
    <3> QED
      BY <1>2, <1>3, <3>2, Naturals DEF NoOverCount, Coming, NaturalCounts
  <2> QED
    BY <2>1, <2>2
<1> QED
  BY <1>2, <1>3, <1>4, <1>5, <1>6

LEMMA NoOverCountNext ==
    ASSUME TypeOK, IdleIsEmpty, NoOverCount, ReadsAreOld, [Next]_vars
    PROVE  NoOverCount'
<1> SUFFICES ASSUME NEW c \in Client
             PROVE  row'[c].used + Coming(c)' <= served'[c]
  <2>1. NaturalCounts'
    BY TypedNext, Naturals, PTL
  <2> QED
    BY <2>1 DEF NoOverCount, NaturalCounts, Coming
<1>1. TypeOK'
  BY TypedNext
<1>2. /\ row[c].used \in Nat /\ Coming(c) \in Nat /\ served[c] \in Nat
      /\ lost[c] \in Nat /\ cleared[c] \in Nat
  BY Naturals DEF NaturalCounts, Coming
<1>3. /\ row'[c].used \in Nat /\ Coming(c)' \in Nat /\ served'[c] \in Nat
      /\ lost'[c] \in Nat /\ cleared'[c] \in Nat
  <2>1. NaturalCounts'
    BY <1>1, Naturals, PTL
  <2> QED
    BY <2>1 DEF NaturalCounts, Coming
<1>4. row[c].used + Coming(c) <= served[c]
  BY Naturals DEF NoOverCount, NaturalCounts, Coming
<1>5. Ages(c) /\ ((\A r \in Request : ~EnsureSave(r)) => Conserves(c))
  BY Flow
<1>6. CASE \A r \in Request : ~EnsureSave(r)
  BY <1>2, <1>3, <1>4, <1>5, <1>6 DEF Ages, Conserves, Known
<1>7. ASSUME NEW r \in Request, EnsureSave(r)
      PROVE  row'[c].used + Coming(c)' <= served'[c]
  <2>1. row'[c] = IF c \in DOMAIN read[r]
                  THEN [used |-> read[r][c], plan |-> rin[r].plan, on |-> rin[r].on]
                  ELSE row[c]
    BY <1>7 DEF EnsureSave
  <2>2. row'[c].used + Coming(c) <= served[c]
    BY <1>4, <2>1 DEF ReadsAreOld
  <2> QED
    BY <1>2, <1>3, <1>5, <2>2 DEF Ages
<1> QED
  BY <1>6, <1>7

LEMMA InitCounts == Init => IdleIsEmpty /\ NoOverCount /\ ReadsAreOld
<1> SUFFICES ASSUME NEW l \in Plan, Init!(l)
             PROVE  IdleIsEmpty /\ NoOverCount /\ ReadsAreOld
  BY DEF Init
<1>1. IdleIsEmpty
  BY DEF IdleIsEmpty
<1>2. NoOverCount
  <2> SUFFICES ASSUME NEW c \in Client
               PROVE  row[c].used + stat[c] + Fetched(c) <= served[c]
    BY DEF NoOverCount
  <2>1. Fetched(c) = 0
    BY FetchedZero
  <2>2. row[c].used = 0 /\ stat[c] = 0 /\ served[c] = 0
    BY DEF Zero
  <2> QED
    BY <2>1, <2>2
<1>3. ReadsAreOld
  BY DEF ReadsAreOld, Nothing
<1> QED
  BY <1>1, <1>2, <1>3

\* However jobs, edits, resets and restarts interleave, no byte is charged
\* twice: what the row holds and what is under way is at most what was served.
THEOREM NothingChargedTwice == Spec => []NoOverCount
<1>1. Init => CountInv
  BY InitTyped, InitCounts DEF CountInv
<1>2. CountInv /\ [Next]_vars => CountInv'
  BY TypedNext, IdleNext, NoOverCountNext, ReadsOldNext DEF CountInv
<1>3. CountInv => NoOverCount
  BY DEF CountInv
<1> QED
  BY <1>1, <1>2, <1>3, PTL DEF Spec

-----------------------------------------------------------------------------
(* Where no edit of the inbound runs, no byte is forgotten.                 *)
NoEdits == \A r \in Request : rpc[r] \notin {"save", "rows", "write"}

LEMMA NoEditsNext ==
    ASSUME Kinds \subseteq {"expire"}, TypeOK, NoEdits, [Next]_vars
    PROVE  NoEdits' /\ \A r \in Request : ~EnsureSave(r)
<1>0. Control
  BY TypeParts
<1>1. \A r \in Request :
          ~(Load(r) \/ Save(r) \/ Refused(r) \/ EnsureSave(r) \/ EnsureFails(r) \/ Updated(r)
              \/ \E c \in Client : EnsureRead(r, c) \/ EnsureAgain(r, c))
  BY DEF NoEdits, Load, Save, Refused, EnsureSave, EnsureFails, Updated, EnsureRead, EnsureAgain
<1>2. ASSUME NEW r \in Request,
             \/ ResetTrafficMany(r) \/ SetEnableMany(r) \/ DisableExpired(r)
             \/ SetToNeedRestart(r) \/ ExpireFails(r) \/ DisableInvalidInbounds(r)
             \/ \E c \in Client : SetLimits(r, c) \/ ExpireRow(r, c) \/ ResetTraffic(r, c)
      PROVE  NoEdits'
  BY <1>0, <1>2 DEF ResetTrafficMany, SetEnableMany, DisableExpired, SetToNeedRestart, ExpireFails,
     DisableInvalidInbounds, SetLimits, ExpireRow, ResetTraffic, At, NoEdits, Control
<1>3. ASSUME \/ Expire \/ Reload \/ ReloadFails \/ Restart \/ UNCHANGED vars
             \/ \E c \in Client : Serve(c)
             \/ \E j \in Job : JobStep(j) \/ GetTrafficFails(j) \/ AddTrafficByEmailFails(j)
      PROVE  NoEdits'
  BY <1>3 DEF Expire, Reload, ReloadFails, Restart, vars, reqVars, Serve, JobStep, GetTraffic, AddTraffic,
     AddTrafficByEmail, JobFlag, GetTrafficFails, AddTrafficByEmailFails, NoEdits
<1> QED
  BY <1>1, <1>2, <1>3 DEF Next, RequestStep, Arrival, Failure

LEMMA ConservedIsKnown == TypeOK => (Conserved <=> \A c \in Client : served[c] = Known(c))
BY Naturals DEF Conserved, Known, Coming, NaturalCounts

LEMMA ConservedNext ==
    ASSUME TypeOK, IdleIsEmpty, Conserved, [Next]_vars, \A r \in Request : ~EnsureSave(r)
    PROVE  Conserved'
<1>1. TypeOK' /\ NaturalCounts /\ NaturalCounts'
  BY TypedNext, Naturals, PTL
<1>2. Conserved' <=> \A c \in Client : served'[c] = Known(c)'
  <2>1. (Conserved <=> \A c \in Client : served[c] = Known(c))'
    BY <1>1, ConservedIsKnown, PTL
  <2> QED
    BY <2>1
<1> SUFFICES ASSUME NEW c \in Client
             PROVE  served'[c] = Known(c)'
  BY <1>2
<1>3. served[c] = Known(c)
  BY ConservedIsKnown
<1>4. Conserves(c)
  BY Flow
<1>5. served[c] \in Nat /\ served'[c] \in Nat /\ Known(c)' \in Nat
  BY <1>1 DEF NaturalCounts, Known, Coming
<1> QED
  BY <1>3, <1>4, <1>5 DEF Conserves

LEMMA InitConserved == Init => Conserved
<1> SUFFICES ASSUME NEW l \in Plan, Init!(l), NEW c \in Client
             PROVE  served[c] = row[c].used + stat[c] + Fetched(c) + cleared[c] + lost[c]
  BY DEF Init, Conserved
<1>1. Fetched(c) = 0
  BY FetchedZero
<1>2. row[c].used = 0 /\ stat[c] = 0 /\ served[c] = 0 /\ cleared[c] = 0 /\ lost[c] = 0
  BY DEF Zero
<1> QED
  BY <1>1, <1>2

LEMMA InitNoEdits == Init => NoEdits
BY DEF Init, NoEdits

\* Every byte served is in the row, under way, cleared by a reset, or lost with
\* a counter, where no edit of the inbound or of its clients runs (an edit may
\* write an old count back).
THEOREM NothingForgotten == Kinds \subseteq {"expire"} => (Spec => []Conserved)
<1> SUFFICES ASSUME Kinds \subseteq {"expire"}
             PROVE  Spec => []Conserved
  OBVIOUS
<1> DEFINE Inv == TypeOK /\ IdleIsEmpty /\ NoEdits /\ Conserved
<1>1. Init => Inv
  BY InitTyped, InitCounts, InitNoEdits, InitConserved
<1>2. Inv /\ [Next]_vars => Inv'
  BY TypedNext, IdleNext, NoEditsNext, ConservedNext
<1> QED
  BY <1>1, <1>2, PTL DEF Spec
=============================================================================
