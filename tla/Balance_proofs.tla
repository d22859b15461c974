--------------------------- MODULE Balance_proofs ---------------------------
(***************************************************************************)
(* The ledger of the Balance contract: supply and balances agree, a        *)
(* deposit is minted once, assets of users leave their accounts only when  *)
(* their owner or a quorum of the alphabet wants it.                       *)
(***************************************************************************)
EXTENDS Balance, Voting_proofs

-----------------------------------------------------------------------------
(* Accounts.  What a user owns, as a sum over all lock accounts. *)
Holdings(m) == SumFunctionOnSet(Balances(m), Accounts)

Share(m, u) == [a \in LockAccounts |-> IF m[a].parent = u THEN m[a].balance ELSE 0]

(* Only lock accounts are locked, and on behalf of a user. *)
LedgerOK(m) ==
    /\ m \in [Accounts -> Account]
    /\ \A u \in Users : m[u].until = 0 /\ m[u].parent = NoParent
    /\ \A a \in LockAccounts : m[a].until # 0 => m[a].parent \in Users

LEMMA AccountsAreFinite ==
    /\ IsFiniteSet(Accounts) /\ IsFiniteSet(LockAccounts)
    /\ Users \subseteq Accounts /\ LockAccounts \subseteq Accounts
    /\ Users \intersect LockAccounts = {}
  BY RequestsAssumption, FS_Subset DEF Accounts

LEMMA BalancesSumUp ==
    ASSUME NEW m \in [Accounts -> Account]
    PROVE  /\ SumsUp(Balances(m), Accounts)
           /\ \A a \in Accounts : Balances(m)[a] = m[a].balance
           /\ Holdings(m) \in Nat
           /\ \A a \in Accounts : m[a].balance <= Holdings(m)
  <1>1. SumsUp(Balances(m), Accounts) /\ \A a \in Accounts : Balances(m)[a] = m[a].balance
    BY AccountsAreFinite DEF SumsUp, Balances, Account
  <1> QED
    BY <1>1, SumType, SumBounds DEF Holdings

LEMMA SharesSumUp ==
    ASSUME NEW m \in [Accounts -> Account], NEW u \in Users
    PROVE  /\ SumsUp(Share(m, u), LockAccounts)
           /\ SumFunctionOnSet(Share(m, u), LockAccounts) \in Nat
           /\ OwnedIn(m, u) = m[u].balance + SumFunctionOnSet(Share(m, u), LockAccounts)
  <1>1. SumsUp(Share(m, u), LockAccounts)
    BY AccountsAreFinite DEF SumsUp, Share, Account
  <1>2. SumFunctionOnSet(Balances(m), Held(m, u)) = SumFunctionOnSet(Share(m, u), LockAccounts)
    <2>1. /\ IsFiniteSet(LockAccounts) /\ Held(m, u) \in SUBSET LockAccounts
          /\ \A a \in LockAccounts :
                /\ Balances(m)[a] \in Nat
                /\ Share(m, u)[a] = IF a \in Held(m, u) THEN Balances(m)[a] ELSE 0
      BY AccountsAreFinite DEF Held, Share, Balances, Account
    <2> QED
      BY <2>1, SumOfPart
  <1> QED
    BY <1>1, <1>2, SumType DEF OwnedIn

(* One account changes. *)
LEMMA HoldingsChange ==
    ASSUME NEW m \in [Accounts -> Account], NEW m2 \in [Accounts -> Account], NEW x \in Accounts,
           \A a \in Accounts \ {x} : m2[a].balance = m[a].balance
    PROVE  Holdings(m2) = Holdings(m) - m[x].balance + m2[x].balance
  <1>1. /\ SumsUp(Balances(m), Accounts) /\ SumsUp(Balances(m2), Accounts)
        /\ \A a \in Accounts : Balances(m)[a] = m[a].balance /\ Balances(m2)[a] = m2[a].balance
    BY BalancesSumUp
  <1>2. \A a \in Accounts \ {x} : Balances(m)[a] = Balances(m2)[a]
    BY <1>1
  <1>3. SumFunctionOnSet(Balances(m2), Accounts)
          = SumFunctionOnSet(Balances(m), Accounts) - Balances(m)[x] + Balances(m2)[x]
    BY <1>1, <1>2, SumChanges
  <1> QED
    BY <1>1, <1>3 DEF Holdings

(* What a user owns when at most one lock account changes. *)
LEMMA OwnedChange ==
    ASSUME NEW m \in [Accounts -> Account], NEW m2 \in [Accounts -> Account], NEW u \in Users,
           NEW x \in LockAccounts, \A a \in LockAccounts \ {x} : Share(m2, u)[a] = Share(m, u)[a],
           m2[u].balance + Share(m2, u)[x] = m[u].balance + Share(m, u)[x]
    PROVE  OwnedIn(m2, u) = OwnedIn(m, u)
  <1> DEFINE before == SumFunctionOnSet(Share(m, u), LockAccounts)
             after == SumFunctionOnSet(Share(m2, u), LockAccounts)
  <1>1. after = before - Share(m, u)[x] + Share(m2, u)[x]
    BY SharesSumUp, SumChanges
  <1>2. /\ OwnedIn(m, u) = m[u].balance + before /\ before \in Nat
        /\ OwnedIn(m2, u) = m2[u].balance + after /\ after \in Nat
    BY SharesSumUp
  <1>3. /\ m[u].balance \in Nat /\ m2[u].balance \in Nat
        /\ Share(m, u)[x] \in Nat /\ Share(m2, u)[x] \in Nat
    BY AccountsAreFinite DEF Share, Account
  <1> HIDE DEF before, after
  <1> QED
    BY <1>1, <1>2, <1>3

LEMMA OwnedSame ==
    ASSUME NEW m \in [Accounts -> Account], NEW m2 \in [Accounts -> Account], NEW u \in Users,
           \A a \in LockAccounts : Share(m2, u)[a] = Share(m, u)[a],
           m2[u].balance = m[u].balance
    PROVE  OwnedIn(m2, u) = OwnedIn(m, u)
  <1>1. SumFunctionOnSet(Share(m, u), LockAccounts) = SumFunctionOnSet(Share(m2, u), LockAccounts)
    BY SharesSumUp, SumAgrees
  <1> QED
    BY <1>1, SharesSumUp

-----------------------------------------------------------------------------
(* The two halves of a transfer. *)
LEMMA WithdrawnTakes ==
    ASSUME NEW m, LedgerOK(m), NEW x \in Accounts, NEW amount \in Nat, m[x].balance >= amount
    PROVE  /\ LedgerOK(Withdrawn(m, x, amount))
           /\ Withdrawn(m, x, amount)[x].balance = m[x].balance - amount
           /\ \A a \in Accounts \ {x} : Withdrawn(m, x, amount)[a] = m[a]
           /\ \/ Withdrawn(m, x, amount)[x] = Zero /\ m[x].balance = amount
              \/ /\ Withdrawn(m, x, amount)[x].until = m[x].until
                 /\ Withdrawn(m, x, amount)[x].parent = m[x].parent
           /\ Holdings(Withdrawn(m, x, amount)) = Holdings(m) - amount
  <1> DEFINE w == Withdrawn(m, x, amount)
  <1>1. /\ m \in [Accounts -> Account] /\ Users \subseteq Accounts /\ LockAccounts \subseteq Accounts
        /\ m[x] \in Account /\ m[x].balance \in Nat
    BY AccountsAreFinite DEF LedgerOK, Account
  <1>2. CASE m[x].balance = amount
    <2>1. w = [m EXCEPT ![x] = Zero]
      BY <1>2 DEF Withdrawn
    <2>2. Zero \in Account /\ Zero.balance = 0 /\ Zero.until = 0 /\ Zero.parent = NoParent
      BY DEF Zero, Account
    <2>3. w \in [Accounts -> Account] /\ w[x] = Zero /\ \A a \in Accounts \ {x} : w[a] = m[a]
      BY <1>1, <2>1, <2>2
    <2> HIDE DEF w
    <2>4. Holdings(w) = Holdings(m) - m[x].balance + w[x].balance
      BY <1>1, <2>3, HoldingsChange
    <2>5. Holdings(m) \in Nat
      BY <1>1, BalancesSumUp
    <2>6. LedgerOK(w)
      BY <1>1, <2>2, <2>3 DEF LedgerOK
    <2> QED
      BY <1>1, <1>2, <2>2, <2>3, <2>4, <2>5, <2>6 DEF w
  <1>3. CASE m[x].balance # amount
    <2>1. w = [m EXCEPT ![x].balance = @ - amount]
      BY <1>3 DEF Withdrawn
    <2>2. m[x].balance - amount \in Nat
      BY <1>1
    <2>3. /\ w \in [Accounts -> Account] /\ \A a \in Accounts \ {x} : w[a] = m[a]
          /\ w[x].balance = m[x].balance - amount
          /\ w[x].until = m[x].until /\ w[x].parent = m[x].parent
      BY <1>1, <2>1, <2>2 DEF Account
    <2> HIDE DEF w
    <2>4. Holdings(w) = Holdings(m) - m[x].balance + w[x].balance
      BY <1>1, <2>3, HoldingsChange
    <2>5. Holdings(m) \in Nat
      BY <1>1, BalancesSumUp
    <2>6. LedgerOK(w)
      BY <1>1, <2>3 DEF LedgerOK
    <2>7. Holdings(w) = Holdings(m) - amount
      BY <1>1, <2>3, <2>4, <2>5
    <2> QED
      BY <2>3, <2>6, <2>7 DEF w
  <1> QED
    BY <1>2, <1>3

LEMMA CreditedGives ==
    ASSUME NEW m, LedgerOK(m), NEW x \in Accounts, NEW amount \in Nat
    PROVE  /\ LedgerOK(Credited(m, x, amount))
           /\ Credited(m, x, amount)[x].balance = m[x].balance + amount
           /\ Credited(m, x, amount)[x].until = m[x].until
           /\ Credited(m, x, amount)[x].parent = m[x].parent
           /\ \A a \in Accounts \ {x} : Credited(m, x, amount)[a] = m[a]
           /\ Holdings(Credited(m, x, amount)) = Holdings(m) + amount
  <1> DEFINE c == Credited(m, x, amount)
  <1>1. /\ m \in [Accounts -> Account] /\ Users \subseteq Accounts /\ LockAccounts \subseteq Accounts
        /\ m[x] \in Account /\ m[x].balance \in Nat
    BY AccountsAreFinite DEF LedgerOK, Account
  <1>2. /\ c \in [Accounts -> Account] /\ \A a \in Accounts \ {x} : c[a] = m[a]
        /\ c[x].balance = m[x].balance + amount
        /\ c[x].until = m[x].until /\ c[x].parent = m[x].parent
    BY <1>1 DEF Credited, Account
  <1> HIDE DEF c
  <1>3. Holdings(c) = Holdings(m) - m[x].balance + c[x].balance
    BY <1>1, <1>2, HoldingsChange
  <1>4. Holdings(m) \in Nat
    BY <1>1, BalancesSumUp
  <1>5. LedgerOK(c)
    BY <1>1, <1>2 DEF LedgerOK
  <1>6. Holdings(c) = Holdings(m) + amount
    BY <1>1, <1>2, <1>3, <1>4
  <1> QED
    BY <1>2, <1>5, <1>6 DEF c

(* A transfer loses nothing and changes no other account. *)
LEMMA MovedKeeps ==
    ASSUME NEW m, LedgerOK(m), NEW x \in Accounts, NEW y \in Accounts, NEW amount \in Nat,
           m[x].balance >= amount
    PROVE  /\ LedgerOK(Moved(m, x, y, amount))
           /\ Holdings(Moved(m, x, y, amount)) = Holdings(m)
           /\ \A a \in Accounts \ {x, y} : Moved(m, x, y, amount)[a] = m[a]
           /\ x # y => /\ Moved(m, x, y, amount)[x] = Withdrawn(m, x, amount)[x]
                       /\ Moved(m, x, y, amount)[x].balance = m[x].balance - amount
                       /\ Moved(m, x, y, amount)[y].balance = m[y].balance + amount
                       /\ Moved(m, x, y, amount)[y].until = m[y].until
                       /\ Moved(m, x, y, amount)[y].parent = m[y].parent
           /\ x = y => Moved(m, x, y, amount)[x].balance = m[x].balance
  <1> DEFINE w == Withdrawn(m, x, amount)
  <1>1. LedgerOK(w) /\ w[x].balance = m[x].balance - amount
        /\ (\A a \in Accounts \ {x} : w[a] = m[a]) /\ Holdings(w) = Holdings(m) - amount
    BY WithdrawnTakes
  <1>2. Holdings(m) \in Nat /\ m[x].balance \in Nat
    BY BalancesSumUp DEF LedgerOK, Account
  <1> HIDE DEF w
  <1> DEFINE c == Credited(w, y, amount)
  <1>3. /\ LedgerOK(c) /\ c[y].balance = w[y].balance + amount
        /\ c[y].until = w[y].until /\ c[y].parent = w[y].parent
        /\ (\A a \in Accounts \ {y} : c[a] = w[a]) /\ Holdings(c) = Holdings(w) + amount
    BY <1>1, CreditedGives
  <1>4. Moved(m, x, y, amount) = c
    BY DEF Moved, c, w
  <1> HIDE DEF c
  <1>5. Holdings(c) = Holdings(m)
    BY <1>1, <1>2, <1>3
  <1>6. x = y => c[x].balance = m[x].balance
    BY <1>1, <1>2, <1>3
  <1>7. x # y => /\ c[x] = w[x] /\ c[x].balance = m[x].balance - amount
                 /\ c[y].balance = m[y].balance + amount
                 /\ c[y].until = m[y].until /\ c[y].parent = m[y].parent
    BY <1>1, <1>3
  <1>8. \A a \in Accounts \ {x, y} : c[a] = m[a]
    BY <1>1, <1>3
  <1> QED
    BY <1>3, <1>4, <1>5, <1>6, <1>7, <1>8 DEF w

-----------------------------------------------------------------------------
(* NewEpoch.  One lock that is over returns to its owner. *)
Returned(m, a) == Moved(m, a, m[a].parent, m[a].balance)

LEMMA ReturnsOne ==
    ASSUME NEW m, LedgerOK(m), NEW a \in LockAccounts, m[a].until # 0
    PROVE  /\ LedgerOK(Returned(m, a))
           /\ Returned(m, a)[a] = Zero
           /\ \A b \in LockAccounts \ {a} : Returned(m, a)[b] = m[b]
           /\ Holdings(Returned(m, a)) = Holdings(m)
           /\ \A u \in Users :
                 /\ Returned(m, a)[u].balance >= m[u].balance
                 /\ m[a].parent = u => Returned(m, a)[u].balance = m[u].balance + m[a].balance
                 /\ OwnedIn(Returned(m, a), u) = OwnedIn(m, u)
  <1> DEFINE r == Returned(m, a)  p == m[a].parent  amount == m[a].balance
  <1>1. /\ m \in [Accounts -> Account] /\ a \in Accounts /\ p \in Accounts /\ p \in Users /\ p # a
        /\ amount \in Nat /\ amount >= amount
    BY AccountsAreFinite DEF LedgerOK, Account
  <1>2. /\ LedgerOK(r) /\ Holdings(r) = Holdings(m) /\ \A b \in Accounts \ {a, p} : r[b] = m[b]
        /\ r[a] = Withdrawn(m, a, amount)[a] /\ r[p].balance = m[p].balance + amount
    BY <1>1, MovedKeeps DEF Returned
  <1>3. r[a] = Zero
    BY <1>1, <1>2 DEF Withdrawn
  <1> HIDE DEF r
  <1>4. \A b \in LockAccounts \ {a} : r[b] = m[b]
    BY <1>1, <1>2, AccountsAreFinite
  <1>5. r \in [Accounts -> Account]
    BY <1>2 DEF LedgerOK
  <1>6. ASSUME NEW u \in Users
        PROVE  r[u].balance >= m[u].balance /\ OwnedIn(r, u) = OwnedIn(m, u)
    <2>1. m[u].balance \in Nat /\ u # a
      BY <1>1, AccountsAreFinite DEF Account
    <2>2. \A b \in LockAccounts \ {a} : Share(r, u)[b] = Share(m, u)[b]
      BY <1>4 DEF Share
    <2>3. Share(r, u)[a] = 0
      BY <1>3 DEF Share, Zero
    <2>4. CASE u = p
      <3>1. Share(m, u)[a] = amount /\ r[u].balance = m[u].balance + amount
        BY <1>2, <2>4 DEF Share
      <3>2. r[u].balance + Share(r, u)[a] = m[u].balance + Share(m, u)[a] /\ r[u].balance >= m[u].balance
        BY <1>1, <2>1, <2>3, <3>1
      <3> QED
        BY <1>1, <1>5, <2>2, <3>2, OwnedChange
    <2>5. CASE u # p
      <3>1. Share(m, u)[a] = 0 /\ r[u] = m[u]
        BY <1>2, <2>1, <2>5, AccountsAreFinite DEF Share
      <3>2. r[u].balance + Share(r, u)[a] = m[u].balance + Share(m, u)[a] /\ r[u].balance >= m[u].balance
        BY <2>1, <2>3, <3>1
      <3> QED
        BY <1>1, <1>5, <2>2, <3>2, OwnedChange
    <2> QED
      BY <2>4, <2>5
  <1>7. ASSUME NEW u \in Users, m[a].parent = u
        PROVE  r[u].balance = m[u].balance + m[a].balance
    BY <1>2, <1>7
  <1> QED
    BY <1>2, <1>3, <1>4, <1>6, <1>7 DEF r

(* What is so after some of the locks that are over have been returned. *)
ReturnedOf(m, m2, done) ==
    /\ LedgerOK(m2)
    /\ \A a \in done : m2[a] = Zero
    /\ \A a \in LockAccounts \ done : m2[a] = m[a]
    /\ Holdings(m2) = Holdings(m)
    /\ \A u \in Users : m2[u].balance >= m[u].balance /\ OwnedIn(m2, u) = OwnedIn(m, u)
    /\ \A a \in done, u \in Users :
          m[a].parent = u => m2[u].balance >= m[u].balance + m[a].balance

(* They are returned one after another, in whichever order. *)
LEMMA UnlockedReturns ==
    ASSUME NEW m, LedgerOK(m), NEW e
    PROVE  ReturnedOf(m, Unlocked(m, e), TimedOut(m, e))
  <1> DEFINE S == TimedOut(m, e)
             M == [Accounts -> Account]
             step == [a \in S |-> [l \in M |-> Returned(l, a)]]
             Result(iter) == iter = [T \in SUBSET S |->
                                IF T = {} THEN m
                                ELSE Moved(iter[T \ {CHOOSE x \in T : TRUE}],
                                           CHOOSE x \in T : TRUE,
                                           iter[T \ {CHOOSE x \in T : TRUE}][CHOOSE x \in T : TRUE].parent,
                                           iter[T \ {CHOOSE x \in T : TRUE}][CHOOSE x \in T : TRUE].balance)]
  <1>1. /\ m \in M /\ S \subseteq LockAccounts /\ IsFiniteSet(S) /\ \A a \in S : m[a].until # 0
        /\ S \subseteq Accounts
    <2>1. m \in M /\ S \subseteq LockAccounts /\ \A a \in S : m[a].until # 0
      BY DEF LedgerOK, TimedOut, Accounts
    <2> HIDE DEF S
    <2> QED
      BY <2>1, AccountsAreFinite, FS_Subset
  <1>2. ASSUME NEW a \in S, NEW l \in M
        PROVE  Returned(l, a) \in M
    <2>1. a \in Accounts /\ l[a] \in Account
      BY <1>1
    <2>2. Withdrawn(l, a, l[a].balance) = [l EXCEPT ![a] = Zero] /\ Zero \in Account
      BY DEF Withdrawn, Zero, Account
    <2>3. [l EXCEPT ![a] = Zero] \in M
      BY <2>2
    <2> DEFINE w == [l EXCEPT ![a] = Zero]  x == l[a].parent  b == l[a].balance
    <2>4. w \in M /\ b \in Nat
      BY <2>1, <2>3 DEF Account
    <2> HIDE DEF w, x, b
    <2>5. Credited(w, x, b) \in M
      <3>1. CASE x \in Accounts
        BY <2>4, <3>1 DEF Credited, Account
      <3>2. CASE x \notin Accounts
        <4>1. Credited(w, x, b) = w
          BY <2>4, <3>2 DEF Credited
        <4> QED
          BY <2>4, <4>1
      <3> QED
        BY <3>1, <3>2
    <2> QED
      BY <2>2, <2>5 DEF Returned, Moved, w, x, b
  <1>3. \E g : Folds(g, S, M, m, step)
    <2>1. step \in [S -> [M -> M]]
      BY <1>2
    <2> HIDE DEF step, M, S
    <2> QED
      BY <1>1, <2>1, FoldExists
  <1>4. \A T \in SUBSET S : T # {} => Pick(T) \in T
    BY DEF Pick
  <1>5. PICK g \in [SUBSET S -> M] :
           \A T \in SUBSET S : g[T] = IF T = {} THEN m ELSE Returned(g[T \ {Pick(T)}], Pick(T))
    <2>1. PICK h : Folds(h, S, M, m, step)
      BY <1>3
    <2>2. h \in [SUBSET S -> M]
      BY <2>1 DEF Folds
    <2>3. ASSUME NEW T \in SUBSET S, T # {}
          PROVE  h[T] = Returned(h[T \ {Pick(T)}], Pick(T))
      <3>1. Pick(T) \in S /\ T \ {Pick(T)} \in SUBSET S
        BY <1>4, <2>3
      <3>2. h[T \ {Pick(T)}] \in M
        BY <2>2, <3>1
      <3>3. h[T] = step[Pick(T)][h[T \ {Pick(T)}]]
        BY <2>1, <2>3 DEF Folds
      <3> QED
        BY <3>1, <3>2, <3>3
    <2>4. h[{}] = m
      BY <2>1 DEF Folds
    <2> QED
      BY <2>2, <2>3, <2>4
  <1> HIDE DEF M, step
  <1>6. Result(g)
    BY <1>5 DEF Pick, Returned
  <1> DEFINE total == CHOOSE iter : Result(iter)
  <1>7. Unlocked(m, e) = total[S]
    BY DEF Unlocked, FoldSet, MapThenFoldSet
  <1>8. Result(total)
    <2> HIDE DEF Result
    <2> QED
      BY <1>6
  <1>9. \A T \in SUBSET S : total[T] = IF T = {} THEN m ELSE Returned(total[T \ {Pick(T)}], Pick(T))
    BY <1>8 DEF Pick, Returned
  <1> HIDE DEF total
  <1> DEFINE Q == {T \in SUBSET S : ReturnedOf(m, total[T], T)}
  <1>10. SUFFICES S \in Q
    BY <1>7
  <1> DEFINE Bad == {T \in SUBSET S : T \notin Q}
  <1>11. SUFFICES ASSUME Bad # {} PROVE FALSE
    OBVIOUS
  <1>12. PICK T \in Bad : \A U \in Bad : <<U, T>> \notin StrictSubsetOrdering(S)
    <2> HIDE DEF S
    <2>1. IsWellFoundedOn(StrictSubsetOrdering(S), FiniteSubsetsOf(S))
      BY FS_StrictSubsetOrderingWellFounded
    <2>2. Bad \subseteq FiniteSubsetsOf(S)
      BY <1>1, FS_FiniteSubsetsOfFinite
    <2> HIDE DEF Bad
    <2> QED
      BY <1>11, <2>1, <2>2, WFMin
  <1>13. CASE T = {}
    <2>1. total[T] = m
      BY <1>9, <1>13
    <2>2. \A u \in Users : m[u].balance >= m[u].balance
      BY <1>1, AccountsAreFinite DEF M, Account
    <2> QED
      BY <1>13, <2>1, <2>2 DEF ReturnedOf
  <1>14. CASE T # {}
    <2> DEFINE x == Pick(T)  U == T \ {x}
    <2>1. x \in T /\ U \in SUBSET S /\ U \subseteq T /\ U # T /\ x \in LockAccounts /\ x \notin U /\ T \in SUBSET S
      BY <1>1, <1>4, <1>14
    <2>2. ReturnedOf(m, total[U], U)
      <3>1. <<U, T>> \in StrictSubsetOrdering(S)
        BY <2>1 DEF StrictSubsetOrdering
      <3> QED
        BY <1>12, <2>1, <3>1
    <2>3. total[T] = Returned(total[U], x)
      BY <1>9, <1>14
    <2> DEFINE l == total[U]
    <2>4. LedgerOK(l) /\ l[x] = m[x] /\ l[x].until # 0
      BY <1>1, <2>1, <2>2 DEF ReturnedOf
    <2> HIDE DEF x, U, l
    <2>5. /\ LedgerOK(Returned(l, x))
          /\ Returned(l, x)[x] = Zero
          /\ \A b \in LockAccounts \ {x} : Returned(l, x)[b] = l[b]
          /\ Holdings(Returned(l, x)) = Holdings(l)
          /\ \A u \in Users :
                /\ Returned(l, x)[u].balance >= l[u].balance
                /\ l[x].parent = u => Returned(l, x)[u].balance = l[u].balance + l[x].balance
                /\ OwnedIn(Returned(l, x), u) = OwnedIn(l, u)
      BY <2>1, <2>4, ReturnsOne
    <2>6. /\ Holdings(l) = Holdings(m)
          /\ \A a \in U : l[a] = Zero
          /\ \A a \in LockAccounts \ U : l[a] = m[a]
          /\ \A u \in Users : l[u].balance >= m[u].balance /\ OwnedIn(l, u) = OwnedIn(m, u)
          /\ \A a \in U, u \in Users :
                m[a].parent = u => l[u].balance >= m[u].balance + m[a].balance
      BY <2>2 DEF ReturnedOf, l
    <2> DEFINE r == Returned(l, x)
    <2>7. \A a \in T : r[a] = Zero
      BY <1>1, <2>1, <2>5, <2>6 DEF U
    <2>8. \A a \in LockAccounts \ T : r[a] = m[a]
      BY <2>1, <2>5, <2>6 DEF U
    <2>9. \A u \in Users : r[u].balance >= m[u].balance
      <3>1. \A u \in Users : r[u].balance \in Int /\ l[u].balance \in Int /\ m[u].balance \in Int
        BY <2>4, <2>5, AccountsAreFinite DEF LedgerOK, Account
      <3> HIDE DEF r
      <3> QED
        BY <2>5, <2>6, <3>1 DEF r
    <2>10. ASSUME NEW a \in T, NEW u \in Users, m[a].parent = u
           PROVE  r[u].balance >= m[u].balance + m[a].balance
      <3>1. /\ r[u].balance \in Int /\ l[u].balance \in Int /\ m[u].balance \in Int
            /\ m[a].balance \in Int
        <4>1. a \in Accounts /\ u \in Accounts /\ m \in [Accounts -> Account]
          BY <1>1, <2>1, AccountsAreFinite DEF M
        <4> QED
          BY <2>4, <2>5, <4>1 DEF LedgerOK, Account
      <3> HIDE DEF r
      <3>2. CASE a \in U
        <4>1. l[u].balance >= m[u].balance + m[a].balance /\ r[u].balance >= l[u].balance
          BY <2>5, <2>6, <2>10, <3>2 DEF r
        <4> QED
          BY <3>1, <4>1
      <3>3. CASE a = x
        <4>1. r[u].balance = l[u].balance + m[a].balance /\ l[u].balance >= m[u].balance
          BY <2>4, <2>5, <2>6, <2>10, <3>3 DEF r
        <4> QED
          BY <3>1, <4>1
      <3> QED
        BY <3>2, <3>3 DEF U
    <2>11. ReturnedOf(m, r, T)
      BY <2>5, <2>6, <2>7, <2>8, <2>9, <2>10 DEF ReturnedOf
    <2> QED
      BY <2>1, <2>3, <2>11 DEF l
  <1> QED
    BY <1>13, <1>14

-----------------------------------------------------------------------------
(* Totals of requests. *)
LEMMA TotalType ==
    ASSUME NEW R, IsFiniteSet(R), \A r \in R : r.amount \in Nat
    PROVE  Total(R) \in Nat
  <1>1. SumsUp([r \in R |-> r.amount], R)
    BY DEF SumsUp
  <1> QED
    BY <1>1, SumType DEF Total

LEMMA TotalGrows ==
    ASSUME NEW R, IsFiniteSet(R), \A r \in R : r.amount \in Nat, NEW Q \in SUBSET R
    PROVE  Total(Q) <= Total(R)
  <1> DEFINE f == [r \in Q |-> r.amount]  g == [r \in R |-> r.amount]
  <1>1. SumsUp(f, Q) /\ SumsUp(g, R) /\ \A r \in Q : f[r] = g[r]
    BY FS_Subset DEF SumsUp
  <1> HIDE DEF f, g
  <1>2. SumFunctionOnSet(f, Q) = SumFunctionOnSet(g, Q)
    BY <1>1, SumAgrees
  <1>3. SumFunctionOnSet(g, Q) <= SumFunctionOnSet(g, R)
    BY <1>1, SumGrows
  <1> QED
    BY <1>2, <1>3 DEF Total, f, g

LEMMA TotalAdds ==
    ASSUME NEW Q, NEW x, x \notin Q, IsFiniteSet(Q), \A r \in Q \union {x} : r.amount \in Nat
    PROVE  Total(Q \union {x}) = x.amount + Total(Q)
  <1> DEFINE f == [r \in Q |-> r.amount]  g == [r \in Q \union {x} |-> r.amount]
  <1>0. IsFiniteSet(Q \union {x})
    BY FS_AddElement
  <1>1. SumsUp(f, Q) /\ SumsUp(g, Q \union {x}) /\ (\A r \in Q : f[r] = g[r]) /\ g[x] = x.amount
    BY <1>0 DEF SumsUp
  <1> HIDE DEF f, g
  <1>2. SumFunctionOnSet(f, Q) = SumFunctionOnSet(g, Q)
    BY <1>1, SumAgrees
  <1>3. SumFunctionOnSet(g, Q \union {x}) = g[x] + SumFunctionOnSet(g, Q)
    BY <1>1, SumAdds
  <1> QED
    BY <1>1, <1>2, <1>3 DEF Total, f, g

-----------------------------------------------------------------------------
(* The inductive invariant.  A spent quorum stands for a decision: a lock  *)
(* account is in use, and a deposit is part of the supply, only if its     *)
(* quorum is spent, and no other quorum can follow (DecidesOnce).          *)
VotesOK ==
    /\ VotesInv(Ids)
    /\ VotersHaveAsked(box, Ids, answered)
    /\ height \in 0..MaxHeight
    /\ called \subseteq Invokers \X Ids
    /\ answered \subseteq Invokers \X Ids

SupplyOK == LedgerOK(acct) /\ supply \in Nat /\ supply = Holdings(acct)

OpenedByLocks ==
    \A r \in Locks : acct[r.to] # Zero => Approved(Spent(box, answered), LockId(r))

Minted == {r \in Mints : Approved(Spent(box, answered), MintId(r))}

(* What is there and what was burned has been minted, and a quorum is      *)
(* spent for every deposit and every cheque of these.                      *)
BackedOK ==
    /\ burned \subseteq Burns /\ IsFiniteSet(burned)
    /\ \A r \in burned : Approved(Spent(box, answered), BurnId(r))
    /\ supply + Total(burned) <= Total(Minted)

BalanceInv ==
    /\ VotesOK
    /\ SupplyOK
    /\ OpenedByLocks
    /\ BackedOK
    /\ epoch \in 0..MaxEpoch
    /\ payments \in 0..MaxPayments

LEMMA IdsOfRequests ==
    /\ \A r \in Mints : MintId(r) \in Ids
    /\ \A r \in Locks : LockId(r) \in Ids
    /\ \A r \in Burns : BurnId(r) \in Ids
    /\ \A r \in Payments : TransferId(r) \in Ids
  BY DEF Ids

LEMMA MintsSumUp ==
    ASSUME NEW R \in SUBSET Mints
    PROVE  IsFiniteSet(R) /\ (\A r \in R : r.amount \in Nat) /\ Total(R) \in Nat
  <1>1. IsFiniteSet(R) /\ \A r \in R : r.amount \in Nat
    BY RequestsAssumption, FS_Subset
  <1> QED
    BY <1>1, TotalType

LEMMA BurnsSumUp ==
    ASSUME BackedOK
    PROVE  IsFiniteSet(burned) /\ (\A r \in burned : r.amount \in Nat) /\ Total(burned) \in Nat
  <1>1. IsFiniteSet(burned) /\ \A r \in burned : r.amount \in Nat
    BY RequestsAssumption DEF BackedOK
  <1> QED
    BY <1>1, TotalType

(* Spent quorums are never forgotten. *)
LEMMA SpentIsKept ==
    ASSUME Spent(box, answered) \subseteq Spent(box, answered)'
    PROVE  /\ \A id : Approved(Spent(box, answered), id) => Approved(Spent(box, answered)', id)
           /\ Total(Minted) <= Total(Minted')
  <1>1. \A id : Approved(Spent(box, answered), id) => Approved(Spent(box, answered)', id)
    BY ApprovalIsKept
  <1>2. Minted \subseteq Minted'
    BY <1>1 DEF Minted
  <1>3. Minted' \in SUBSET Mints
    BY DEF Minted
  <1> QED
    BY <1>1, <1>2, <1>3, MintsSumUp, TotalGrows

(* What an invocation of the alphabet does to the votes. *)
LEMMA AnswersKeepVotes ==
    ASSUME VotesOK, NEW n \in Invokers, NEW id \in Ids, Answers(n, id), Ends(n, id)
    PROVE  /\ VotesOK'
           /\ Spent(box, answered) \subseteq Spent(box, answered)'
           /\ Decides(n, id) => /\ ~Approved(Spent(box, answered), id)
                                /\ Approved(Spent(box, answered)', id)
                                /\ Quorate(id)
           /\ epoch' = epoch /\ payments' = payments
  <1>1. /\ VotesInv(Ids) /\ answered \subseteq Invokers \X Ids /\ VotersHaveAsked(box, Ids, answered)
        /\ <<n, id>> \notin answered
    BY DEF VotesOK, Answers
  <1>2. answered' = answered \union {<<n, id>>} /\ epoch' = epoch /\ payments' = payments
    BY DEF Answers
  <1>3. VotesInv(Ids)' /\ height' = height
    BY <1>1, EndsKeepVotes
  <1>4. /\ VotersHaveAsked(box', Ids, answered')
        /\ Spent(box, answered) \subseteq Spent(box', answered')
    BY <1>1, <1>2, EndsSpendMore
  <1>5. called' \subseteq Invokers \X Ids
    BY DEF VotesOK, Ends, OnlyVotes, Decides, Reverts, voting
  <1>6. Decides(n, id) => /\ ~Approved(Spent(box, answered), id)
                          /\ Approved(Spent(box', answered'), id)
                          /\ Quorate(id)
    BY <1>1, <1>2, DecidesOnce, DecidesIsQuorate
  <1>7. answered' \subseteq Invokers \X Ids /\ height' \in 0..MaxHeight
    BY <1>1, <1>2, <1>3 DEF VotesOK
  <1>8. VotesOK'
    BY <1>3, <1>4, <1>5, <1>7 DEF VotesOK
  <1> QED
    BY <1>2, <1>4, <1>6, <1>8

(* Steps without a vote. *)
LEMMA OthersKeepSpent ==
    ASSUME VotesOK, UNCHANGED answered, UNCHANGED voting \/ NextBlock
    PROVE  VotesOK' /\ Spent(box, answered)' = Spent(box, answered)
  <1>1. VotesInv(Ids)'
    BY OthersKeepVotes DEF VotesOK
  <1>2. UNCHANGED <<box, called, answered>> /\ height' \in 0..MaxHeight
    BY VotingAssumption DEF VotesOK, voting, NextBlock
  <1> QED
    BY <1>1, <1>2 DEF VotesOK

-----------------------------------------------------------------------------
(* What the bodies of the methods do to the accounts. *)
LockResult(r) == Moved([acct EXCEPT ![r.to] = LockAccount(r)], r.from, r.to, r.amount)

(* Whatever a lock account held before, the accounts stay in order.        *)
LEMMA LockIsOrderly ==
    ASSUME LedgerOK(acct), NEW r \in Locks,
           CanTransfer([acct EXCEPT ![r.to] = LockAccount(r)], r.from, r.amount)
    PROVE  LedgerOK(LockResult(r))
  <1> DEFINE o == [acct EXCEPT ![r.to] = LockAccount(r)]
  <1>1. /\ r.from \in Users /\ r.to \in LockAccounts /\ r.amount \in Nat /\ r.until \in Nat
        /\ r.from \in Accounts /\ r.to \in Accounts /\ acct \in [Accounts -> Account]
    BY RequestsAssumption, AccountsAreFinite DEF LedgerOK
  <1>2. /\ o \in [Accounts -> Account] /\ o[r.to].parent = r.from
        /\ \A a \in Accounts \ {r.to} : o[a] = acct[a]
        /\ o[r.from].balance >= r.amount
    BY <1>1 DEF LockAccount, Account, CanTransfer
  <1>3. LockResult(r) = Moved(o, r.from, r.to, r.amount)
    BY DEF LockResult
  <1> HIDE DEF o
  <1>4. LedgerOK(o)
    BY <1>1, <1>2, AccountsAreFinite DEF LedgerOK
  <1> QED
    BY <1>1, <1>2, <1>3, <1>4, MovedKeeps

LEMMA LockOpens ==
    ASSUME LedgerOK(acct), NEW r \in Locks, acct[r.to] = Zero,
           CanTransfer([acct EXCEPT ![r.to] = LockAccount(r)], r.from, r.amount)
    PROVE  /\ LedgerOK(LockResult(r))
           /\ Holdings(LockResult(r)) = Holdings(acct)
           /\ \A a \in Accounts \ {r.from, r.to} : LockResult(r)[a] = acct[a]
           /\ LockResult(r)[r.from].balance = acct[r.from].balance - r.amount
           /\ LockResult(r)[r.to] = [balance |-> r.amount, until |-> r.until, parent |-> r.from]
           /\ \A u \in Users : OwnedIn(LockResult(r), u) = OwnedIn(acct, u)
  <1> DEFINE o == [acct EXCEPT ![r.to] = LockAccount(r)]
             m == LockResult(r)
  <1>1. /\ r.from \in Users /\ r.to \in LockAccounts /\ r.amount \in Nat /\ r.until \in Nat
        /\ r.from \in Accounts /\ r.to \in Accounts /\ r.from # r.to
        /\ acct \in [Accounts -> Account]
    BY RequestsAssumption, AccountsAreFinite DEF LedgerOK
  <1>2. /\ o \in [Accounts -> Account]
        /\ o[r.to].balance = 0 /\ o[r.to].until = r.until /\ o[r.to].parent = r.from
        /\ \A a \in Accounts \ {r.to} : o[a] = acct[a]
        /\ o[r.from].balance >= r.amount
    BY <1>1 DEF LockAccount, Account, CanTransfer
  <1> HIDE DEF o
  <1>3. LedgerOK(o)
    BY <1>1, <1>2, AccountsAreFinite DEF LedgerOK
  <1>4. Holdings(o) = Holdings(acct)
    <2>1. Holdings(o) = Holdings(acct) - acct[r.to].balance + o[r.to].balance
      BY <1>1, <1>2, HoldingsChange
    <2>2. Holdings(acct) \in Nat /\ acct[r.to].balance = 0
      BY <1>1, BalancesSumUp DEF Zero
    <2> QED
      BY <1>2, <2>1, <2>2
  <1>5. m = Moved(o, r.from, r.to, r.amount)
    BY DEF LockResult, o
  <1>6. /\ LedgerOK(m) /\ Holdings(m) = Holdings(o)
        /\ \A a \in Accounts \ {r.from, r.to} : m[a] = o[a]
        /\ m[r.from].balance = o[r.from].balance - r.amount
        /\ m[r.to].balance = o[r.to].balance + r.amount
        /\ m[r.to].until = o[r.to].until /\ m[r.to].parent = o[r.to].parent
    BY <1>1, <1>2, <1>3, <1>5, MovedKeeps
  <1> HIDE DEF m
  <1>7. m \in [Accounts -> Account]
    BY <1>6 DEF LedgerOK
  <1>8. /\ \A a \in Accounts \ {r.from, r.to} : m[a] = acct[a]
        /\ m[r.from].balance = acct[r.from].balance - r.amount
        /\ m[r.to].balance = r.amount /\ m[r.to].until = r.until /\ m[r.to].parent = r.from
    BY <1>1, <1>2, <1>6
  <1>9. m[r.to] = [balance |-> r.amount, until |-> r.until, parent |-> r.from]
    BY <1>1, <1>7, <1>8 DEF Account
  <1>10. ASSUME NEW u \in Users
         PROVE  OwnedIn(m, u) = OwnedIn(acct, u)
    <2>1. /\ u \in Accounts /\ u # r.to /\ acct[u].balance \in Nat
          /\ \A a \in LockAccounts \ {r.to} : a \in Accounts \ {r.from, r.to}
      BY <1>1, AccountsAreFinite DEF Account
    <2>2. \A a \in LockAccounts \ {r.to} : Share(m, u)[a] = Share(acct, u)[a]
      BY <1>8, <2>1 DEF Share
    <2>3. Share(acct, u)[r.to] = 0
      BY <1>1 DEF Share, Zero
    <2>4. Share(m, u)[r.to] = IF u = r.from THEN r.amount ELSE 0
      BY <1>1, <1>8 DEF Share
    <2>5. m[u].balance + Share(m, u)[r.to] = acct[u].balance + Share(acct, u)[r.to]
      BY <1>1, <1>8, <2>1, <2>3, <2>4
    <2> QED
      BY <1>1, <1>7, <2>2, <2>5, OwnedChange
  <1> QED
    BY <1>4, <1>6, <1>8, <1>9, <1>10 DEF m

LEMMA MintCredits ==
    ASSUME LedgerOK(acct), NEW r \in Mints
    PROVE  /\ LedgerOK(Credited(acct, r.to, r.amount))
           /\ \A a \in LockAccounts : Credited(acct, r.to, r.amount)[a] = acct[a]
           /\ \A u \in Users : /\ Credited(acct, r.to, r.amount)[u].balance \in Nat
                               /\ Credited(acct, r.to, r.amount)[u].balance >= acct[u].balance
                               /\ r.amount = 0 =>
                                    Credited(acct, r.to, r.amount)[u].balance = acct[u].balance
  <1> DEFINE c == Credited(acct, r.to, r.amount)
  <1>1. r.to \in Users /\ r.to \in Accounts /\ r.amount \in Nat
    BY RequestsAssumption, AccountsAreFinite
  <1>2. /\ LedgerOK(c) /\ c[r.to].balance = acct[r.to].balance + r.amount
        /\ \A a \in Accounts \ {r.to} : c[a] = acct[a]
    BY <1>1, CreditedGives
  <1>0. \A a \in Accounts : acct[a].balance \in Nat
    BY DEF LedgerOK, Account
  <1> HIDE DEF c
  <1>3. \A a \in LockAccounts : c[a] = acct[a]
    BY <1>1, <1>2, AccountsAreFinite
  <1>4. ASSUME NEW u \in Users
        PROVE  /\ c[u].balance \in Nat /\ c[u].balance >= acct[u].balance
               /\ r.amount = 0 => c[u].balance = acct[u].balance
    <2>1. u \in Accounts
      BY AccountsAreFinite
    <2> QED
      BY <1>0, <1>1, <1>2, <2>1
  <1> QED
    BY <1>2, <1>3, <1>4 DEF c

(* A transfer to anybody but an account that locks create. *)
LEMMA PaymentMoves ==
    ASSUME LedgerOK(acct), NEW r \in Payments, CanTransfer(acct, r.from, r.amount)
    PROVE  /\ LedgerOK(Moved(acct, r.from, r.to, r.amount))
           /\ Holdings(Moved(acct, r.from, r.to, r.amount)) = Holdings(acct)
           /\ \A a \in LockAccounts :
                 /\ Moved(acct, r.from, r.to, r.amount)[a].balance >= acct[a].balance
                 /\ Moved(acct, r.from, r.to, r.amount)[a].until = acct[a].until
           /\ \A u \in Users : Moved(acct, r.from, r.to, r.amount)[u].balance < acct[u].balance => u = r.from
           /\ \A s \in Locks : Moved(acct, r.from, r.to, r.amount)[s.to] = acct[s.to]
  <1> DEFINE m == Moved(acct, r.from, r.to, r.amount)
  <1>1. /\ r.from \in Users /\ r.from \in Accounts /\ r.to \in Accounts /\ r.amount \in Nat
        /\ acct[r.from].balance >= r.amount
        /\ \A a \in Accounts : acct[a].balance \in Nat
    BY RequestsAssumption, AccountsAreFinite DEF CanTransfer, LedgerOK, Account
  <1>2. /\ LedgerOK(m) /\ Holdings(m) = Holdings(acct)
        /\ \A a \in Accounts \ {r.from, r.to} : m[a] = acct[a]
        /\ r.from # r.to => /\ m[r.to].balance = acct[r.to].balance + r.amount
                            /\ m[r.to].until = acct[r.to].until
        /\ r.from = r.to => m[r.from].balance = acct[r.from].balance
    BY <1>1, MovedKeeps
  <1> HIDE DEF m
  <1>3. \A a \in LockAccounts : m[a].balance >= acct[a].balance /\ m[a].until = acct[a].until
    <2>1. \A a \in LockAccounts : a \in Accounts /\ a # r.from
      BY <1>1, AccountsAreFinite
    <2> QED
      BY <1>1, <1>2, <2>1
  <1>4. \A u \in Users : m[u].balance < acct[u].balance => u = r.from
    <2>1. Users \subseteq Accounts
      BY AccountsAreFinite
    <2> QED
      BY <1>1, <1>2, <2>1
  <1>5. \A s \in Locks : m[s.to] = acct[s.to]
    BY <1>1, <1>2, RequestsAssumption, LockAccountsAssumption, AccountsAreFinite
  <1> QED
    BY <1>2, <1>3, <1>4, <1>5 DEF m

-----------------------------------------------------------------------------
(* Every action keeps the invariant. *)
LEMMA NoLockIsOpened ==
    ASSUME OpenedByLocks, Spent(box, answered) \subseteq Spent(box, answered)',
           \A r \in Locks : acct[r.to] = Zero => acct'[r.to] = Zero
    PROVE  OpenedByLocks'
  BY SpentIsKept DEF OpenedByLocks

LEMMA StillBacked ==
    ASSUME BackedOK, supply \in Nat, supply' \in Nat, supply' <= supply, UNCHANGED burned,
           Spent(box, answered) \subseteq Spent(box, answered)'
    PROVE  BackedOK'
  <1>1. Minted \in SUBSET Mints /\ Minted' \in SUBSET Mints
    BY DEF Minted
  <1>2. Total(Minted) \in Nat /\ Total(Minted') \in Nat /\ Total(burned) \in Nat
    BY <1>1, MintsSumUp, BurnsSumUp
  <1>3. supply + Total(burned) <= Total(Minted) /\ Total(Minted) <= Total(Minted')
    BY SpentIsKept DEF BackedOK
  <1>4. supply' + Total(burned) <= Total(Minted')
    BY <1>2, <1>3
  <1>5. \A r \in burned : Approved(Spent(box, answered)', BurnId(r))
    BY SpentIsKept DEF BackedOK
  <1> QED
    BY <1>4, <1>5 DEF BackedOK

LEMMA LedgerStays ==
    ASSUME BalanceInv, VotesOK', Spent(box, answered) \subseteq Spent(box, answered)',
           UNCHANGED <<ledger, epoch, payments>>
    PROVE  BalanceInv'
  <1>1. SupplyOK'
    BY DEF BalanceInv, SupplyOK, ledger, LedgerOK, Holdings, Balances
  <1>2. OpenedByLocks'
    BY NoLockIsOpened DEF BalanceInv, ledger
  <1>3. BackedOK'
    <2>1. supply \in Nat /\ supply' = supply /\ burned' = burned /\ BackedOK
      BY DEF BalanceInv, SupplyOK, ledger
    <2> QED
      BY <2>1, StillBacked
  <1> QED
    BY <1>1, <1>2, <1>3 DEF BalanceInv, ledger

(* The accounts change, the supply with them. *)
LEMMA AccountsChange ==
    ASSUME BalanceInv, VotesOK', Spent(box, answered) \subseteq Spent(box, answered)',
           LedgerOK(acct'), supply' \in Nat, supply' = Holdings(acct'), BackedOK',
           OpenedByLocks', epoch' \in 0..MaxEpoch, payments' \in 0..MaxPayments
    PROVE  BalanceInv'
  <1>1. SupplyOK'
    BY DEF SupplyOK, LedgerOK, Holdings, Balances
  <1> QED
    BY <1>1 DEF BalanceInv

LEMMA MintKeeps ==
    ASSUME BalanceInv, NEW n \in Invokers, NEW r \in Mints, Mint(n, r)
    PROVE  BalanceInv'
  <1> DEFINE id == MintId(r)
  <1>1. /\ VotesOK' /\ Spent(box, answered) \subseteq Spent(box, answered)'
        /\ Decides(n, id) => /\ ~Approved(Spent(box, answered), id)
                             /\ Approved(Spent(box, answered)', id)
        /\ epoch' = epoch /\ payments' = payments
    BY IdsOfRequests, AnswersKeepVotes DEF Mint, Ends, BalanceInv
  <1>2. CASE UNCHANGED ledger
    BY <1>1, <1>2, LedgerStays
  <1>3. CASE /\ Decides(n, id)
             /\ acct' = Credited(acct, r.to, r.amount) /\ supply' = supply + r.amount
             /\ UNCHANGED burned
    <2>1. LedgerOK(acct) /\ supply \in Nat /\ supply = Holdings(acct) /\ OpenedByLocks
          /\ BackedOK
      BY DEF BalanceInv, SupplyOK
    <2>2. r.to \in Users /\ r.to \in Accounts /\ r.amount \in Nat
      BY RequestsAssumption, AccountsAreFinite
    <2>3. /\ LedgerOK(acct') /\ Holdings(acct') = Holdings(acct) + r.amount
          /\ \A a \in Accounts \ {r.to} : acct'[a] = acct[a]
      BY <1>3, <2>1, <2>2, CreditedGives
    <2>4. \A s \in Locks : acct'[s.to] = acct[s.to]
      BY <2>2, <2>3, RequestsAssumption, AccountsAreFinite
    <2>5. OpenedByLocks'
      BY <1>1, <2>1, <2>4, NoLockIsOpened
    <2>6. SupplyOK'
      <3>1. supply' = Holdings(acct') /\ supply' \in Nat /\ LedgerOK(acct')
        BY <1>3, <2>1, <2>2, <2>3
      <3> QED
        BY <3>1 DEF SupplyOK, LedgerOK, Holdings, Balances
    <2>7. supply' + Total(burned) <= Total(Minted')
      <3>1. r \notin Minted /\ Minted \union {r} \subseteq Minted'
        BY <1>1, <1>3, SpentIsKept DEF Minted
      <3>2. Minted \in SUBSET Mints /\ Minted' \in SUBSET Mints /\ Minted \union {r} \in SUBSET Mints
        BY DEF Minted
      <3>3. Total(Minted \union {r}) = r.amount + Total(Minted)
        BY <3>1, <3>2, MintsSumUp, TotalAdds
      <3>4. Total(Minted \union {r}) <= Total(Minted')
        BY <3>1, <3>2, MintsSumUp, TotalGrows
      <3>5. Total(Minted) \in Nat /\ Total(Minted') \in Nat /\ Total(burned) \in Nat
        BY <2>1, <3>2, MintsSumUp, BurnsSumUp
      <3>6. supply + Total(burned) <= Total(Minted)
        BY <2>1 DEF BackedOK
      <3> QED
        BY <1>3, <2>1, <2>2, <3>3, <3>4, <3>5, <3>6
    <2>8. \A b \in burned : Approved(Spent(box, answered)', BurnId(b))
      BY <1>1, <2>1, SpentIsKept DEF BackedOK
    <2>9. BackedOK'
      BY <1>3, <2>1, <2>7, <2>8 DEF BackedOK
    <2> QED
      BY <1>1, <2>5, <2>6, <2>9 DEF BalanceInv
  <1> QED
    BY <1>2, <1>3 DEF Mint

LEMMA LockKeeps ==
    ASSUME BalanceInv, NEW n \in Invokers, NEW r \in Locks, Lock(n, r)
    PROVE  /\ BalanceInv'
           /\ UNCHANGED ledger \/ (/\ Decides(n, LockId(r)) /\ acct[r.to] = Zero
                                   /\ CanTransfer([acct EXCEPT ![r.to] = LockAccount(r)], r.from, r.amount)
                                   /\ acct' = LockResult(r) /\ UNCHANGED <<supply, burned>>)
  <1> DEFINE id == LockId(r)
             possible == CanTransfer([acct EXCEPT ![r.to] = LockAccount(r)], r.from, r.amount)
  <1>1. /\ VotesOK' /\ Spent(box, answered) \subseteq Spent(box, answered)'
        /\ Decides(n, id) => /\ ~Approved(Spent(box, answered), id)
                             /\ Approved(Spent(box, answered)', id)
        /\ epoch' = epoch /\ payments' = payments
    BY IdsOfRequests, AnswersKeepVotes DEF Lock, Ends, BalanceInv
  <1>2. CASE UNCHANGED ledger
    BY <1>1, <1>2, LedgerStays
  <1>3. CASE Decides(n, id) /\ possible /\ acct' = LockResult(r) /\ UNCHANGED <<supply, burned>>
    <2>1. /\ LedgerOK(acct) /\ supply \in Nat /\ supply = Holdings(acct) /\ OpenedByLocks
          /\ BackedOK /\ epoch \in 0..MaxEpoch /\ payments \in 0..MaxPayments
      BY DEF BalanceInv, SupplyOK
    <2>2. acct[r.to] = Zero
      BY <1>1, <1>3, <2>1 DEF OpenedByLocks
    <2>3. /\ LedgerOK(acct') /\ Holdings(acct') = Holdings(acct)
          /\ \A a \in Accounts \ {r.from, r.to} : acct'[a] = acct[a]
      BY <1>3, <2>1, <2>2, LockOpens
    <2>4. ASSUME NEW s \in Locks, acct'[s.to] # Zero
          PROVE  Approved(Spent(box, answered)', LockId(s))
      <3>1. CASE s.to = r.to
        BY <1>1, <1>3, <3>1, LockAccountsAssumption DEF LockId
      <3>2. CASE s.to # r.to
        <4>1. acct'[s.to] = acct[s.to]
          BY <2>3, <3>2, RequestsAssumption, AccountsAreFinite
        <4> QED
          BY <1>1, <2>1, <2>4, <4>1, SpentIsKept DEF OpenedByLocks
      <3> QED
        BY <3>1, <3>2
    <2>5. OpenedByLocks'
      BY <2>4 DEF OpenedByLocks
    <2>6. BackedOK'
      BY <1>1, <1>3, <2>1, StillBacked
    <2>7. BalanceInv'
      BY <1>1, <1>3, <2>1, <2>3, <2>5, <2>6, AccountsChange
    <2> QED
      BY <1>3, <2>2, <2>7
  <1> QED
    BY <1>2, <1>3 DEF Lock, LockResult

LEMMA BurnKeeps ==
    ASSUME BalanceInv, NEW n \in Invokers, NEW r \in Burns, Burn(n, r)
    PROVE  BalanceInv'
  <1> DEFINE id == BurnId(r)
  <1>1. /\ VotesOK' /\ Spent(box, answered) \subseteq Spent(box, answered)'
        /\ Decides(n, id) => /\ ~Approved(Spent(box, answered), id)
                             /\ Approved(Spent(box, answered)', id)
        /\ epoch' = epoch /\ payments' = payments
    BY IdsOfRequests, AnswersKeepVotes DEF Burn, Ends, BalanceInv
  <1>2. CASE UNCHANGED ledger
    BY <1>1, <1>2, LedgerStays
  <1>3. CASE /\ CanTransfer(acct, r.from, r.amount) /\ supply >= r.amount
             /\ acct' = Withdrawn(acct, r.from, r.amount) /\ supply' = supply - r.amount
             /\ Decides(n, id) /\ burned' = burned \union {r}
    <2>1. /\ LedgerOK(acct) /\ supply \in Nat /\ supply = Holdings(acct) /\ OpenedByLocks
          /\ BackedOK /\ epoch \in 0..MaxEpoch /\ payments \in 0..MaxPayments
      BY DEF BalanceInv, SupplyOK
    <2>2. r.from \in Accounts /\ r.amount \in Nat /\ acct[r.from].balance >= r.amount
      BY <1>3, RequestsAssumption DEF CanTransfer
    <2>3. /\ LedgerOK(acct') /\ Holdings(acct') = Holdings(acct) - r.amount
          /\ \A a \in Accounts \ {r.from} : acct'[a] = acct[a]
      BY <1>3, <2>1, <2>2, WithdrawnTakes
    <2>4. \A s \in Locks : acct[s.to] = Zero => acct'[s.to] = Zero
      <3>1. ASSUME acct[r.from] = Zero PROVE acct'[r.from] = Zero
        <4>1. r.amount = 0 /\ acct[r.from].balance = 0
          BY <2>2, <3>1 DEF Zero
        <4> QED
          BY <1>3, <2>1, <2>2, <4>1 DEF Withdrawn, LedgerOK
      <3>2. \A s \in Locks : s.to \in Accounts
        BY RequestsAssumption, AccountsAreFinite
      <3> QED
        BY <2>3, <3>1, <3>2
    <2>5. OpenedByLocks'
      BY <1>1, <2>1, <2>4, NoLockIsOpened
    <2>6. supply' \in Nat /\ supply' = Holdings(acct')
      BY <1>3, <2>1, <2>2, <2>3
    <2>7. BackedOK'
      <3>1. r \notin burned /\ \A b \in burned : Approved(Spent(box, answered)', BurnId(b))
        BY <1>1, <1>3, <2>1, SpentIsKept DEF BackedOK
      <3>2. IsFiniteSet(burned) /\ (\A b \in burned \union {r} : b.amount \in Nat) /\ Total(burned) \in Nat
        BY <2>1, <2>2, BurnsSumUp
      <3>3. Total(burned') = r.amount + Total(burned)
        BY <1>3, <3>1, <3>2, TotalAdds
      <3>4. Total(Minted) \in Nat /\ Total(Minted') \in Nat /\ Total(Minted) <= Total(Minted')
        <4>1. Minted \in SUBSET Mints /\ Minted' \in SUBSET Mints
          BY DEF Minted
        <4> QED
          BY <1>1, <4>1, MintsSumUp, SpentIsKept
      <3>5. supply + Total(burned) <= Total(Minted)
        BY <2>1 DEF BackedOK
      <3>6. supply' + Total(burned') <= Total(Minted')
        BY <1>3, <2>1, <2>2, <3>2, <3>3, <3>4, <3>5
      <3>7. burned' \subseteq Burns /\ IsFiniteSet(burned')
        BY <1>3, <2>1, <3>2, FS_AddElement DEF BackedOK
      <3>8. \A b \in burned' : Approved(Spent(box, answered)', BurnId(b))
        BY <1>1, <1>3, <3>1
      <3> QED
        BY <3>6, <3>7, <3>8 DEF BackedOK
    <2> QED
      BY <1>1, <2>1, <2>3, <2>5, <2>6, <2>7, AccountsChange
  <1> QED
    BY <1>2, <1>3 DEF Burn

LEMMA PaymentKeeps ==
    ASSUME BalanceInv, VotesOK', Spent(box, answered) \subseteq Spent(box, answered)',
           NEW r \in Payments, CanTransfer(acct, r.from, r.amount),
           acct' = Moved(acct, r.from, r.to, r.amount), UNCHANGED <<supply, burned, epoch>>,
           payments' \in 0..MaxPayments
    PROVE  BalanceInv'
  <1>1. LedgerOK(acct) /\ supply \in Nat /\ supply = Holdings(acct) /\ OpenedByLocks
        /\ BackedOK /\ epoch \in 0..MaxEpoch
    BY DEF BalanceInv, SupplyOK
  <1>2. /\ LedgerOK(acct') /\ Holdings(acct') = Holdings(acct)
        /\ \A s \in Locks : acct'[s.to] = acct[s.to]
    BY <1>1, PaymentMoves
  <1>3. OpenedByLocks'
    BY <1>1, <1>2, NoLockIsOpened
  <1>4. BackedOK'
    BY <1>1, StillBacked
  <1> QED
    BY <1>1, <1>2, <1>3, <1>4, AccountsChange

LEMMA TransferXKeeps ==
    ASSUME BalanceInv, NEW n \in Invokers, NEW r \in Payments, TransferX(n, r)
    PROVE  BalanceInv'
  <1>1. /\ VotesOK' /\ Spent(box, answered) \subseteq Spent(box, answered)'
        /\ epoch' = epoch /\ payments' = payments
    BY IdsOfRequests, AnswersKeepVotes DEF TransferX, Ends, BalanceInv
  <1>2. CASE UNCHANGED ledger
    BY <1>1, <1>2, LedgerStays
  <1>3. CASE /\ CanTransfer(acct, r.from, r.amount)
             /\ acct' = Moved(acct, r.from, r.to, r.amount) /\ UNCHANGED <<supply, burned>>
    <2>1. payments' \in 0..MaxPayments
      BY <1>1 DEF BalanceInv
    <2> QED
      BY <1>1, <1>3, <2>1, PaymentKeeps
  <1> QED
    BY <1>2, <1>3 DEF TransferX

LEMMA TransferKeeps ==
    ASSUME BalanceInv, NEW r \in Payments, Transfer(r)
    PROVE  BalanceInv'
  <1>1. VotesOK' /\ Spent(box, answered)' = Spent(box, answered)
    BY OthersKeepSpent DEF Transfer, BalanceInv
  <1>2. payments' \in 0..MaxPayments
    BY BalanceConstantsAssumption DEF Transfer, BalanceInv
  <1> QED
    BY <1>1, <1>2, PaymentKeeps DEF Transfer

LEMMA NewEpochKeeps ==
    ASSUME BalanceInv, NEW e \in 1..MaxEpoch, NewEpoch(e)
    PROVE  BalanceInv' /\ ReturnedOf(acct, acct', TimedOut(acct, e))
  <1>1. VotesOK' /\ Spent(box, answered)' = Spent(box, answered)
    BY OthersKeepSpent DEF NewEpoch, BalanceInv
  <1>2. /\ LedgerOK(acct) /\ supply \in Nat /\ supply = Holdings(acct) /\ OpenedByLocks
        /\ BackedOK /\ payments \in 0..MaxPayments
    BY DEF BalanceInv, SupplyOK
  <1>3. ReturnedOf(acct, acct', TimedOut(acct, e))
    BY <1>2, UnlockedReturns DEF NewEpoch
  <1>4. LedgerOK(acct') /\ Holdings(acct') = Holdings(acct)
    BY <1>3 DEF ReturnedOf
  <1>5. \A s \in Locks : acct[s.to] = Zero => acct'[s.to] = Zero
    BY <1>3, RequestsAssumption DEF ReturnedOf
  <1>6. OpenedByLocks'
    BY <1>1, <1>2, <1>5, NoLockIsOpened
  <1>7. epoch' \in 0..MaxEpoch /\ UNCHANGED <<supply, burned, payments>>
    BY BalanceConstantsAssumption DEF NewEpoch
  <1>8. BackedOK'
    BY <1>1, <1>2, <1>7, StillBacked
  <1>9. BalanceInv'
    BY <1>1, <1>2, <1>4, <1>6, <1>7, <1>8, AccountsChange
  <1> QED
    BY <1>3, <1>9

LEMMA NewBlockKeeps ==
    ASSUME BalanceInv, UNCHANGED vars \/ NewBlock
    PROVE  BalanceInv'
  <1>1. VotesOK' /\ Spent(box, answered)' = Spent(box, answered)
    BY OthersKeepSpent DEF NewBlock, vars, BalanceInv
  <1>2. UNCHANGED <<ledger, epoch, payments>>
    BY DEF NewBlock, vars, ledger
  <1> QED
    BY <1>1, <1>2, LedgerStays

-----------------------------------------------------------------------------
(* In the beginning no account is stored and nobody has voted. *)
LEMMA BalanceInit == Init => BalanceInv
  <1> SUFFICES ASSUME Init PROVE BalanceInv
    OBVIOUS
  <1>1. VotesOK
    BY VotesInit, VotingAssumption DEF Init, VotingInit, VotesOK, VotersHaveAsked, NoBallot
  <1>2. LedgerOK(acct)
    BY AccountsAreFinite DEF Init, LedgerOK, Account, Zero
  <1>3. Holdings(acct) = 0
    <2>1. \A a \in Accounts : Balances(acct)[a] = 0
      BY DEF Init, Balances, Zero
    <2>2. Units(Balances(acct), Accounts) = {}
      BY <2>1 DEF Units
    <2> QED
      BY <2>1, <2>2, AccountsAreFinite, SumCounts, FS_EmptySet DEF Holdings
  <1>4. OpenedByLocks
    BY RequestsAssumption, AccountsAreFinite DEF Init, OpenedByLocks
  <1>5. supply = 0 /\ supply = Holdings(acct)
    BY <1>3 DEF Init
  <1>6. BackedOK
    <2>1. Minted \in SUBSET Mints /\ burned = {} /\ IsFiniteSet(burned)
      BY FS_EmptySet DEF Minted, Init
    <2>2. Total(Minted) \in Nat
      BY <2>1, MintsSumUp
    <2>3. Total({}) = 0
      <3> DEFINE f == [r \in {} |-> r.amount]
      <3>1. SumsUp(f, {})
        BY FS_EmptySet DEF SumsUp
      <3> HIDE DEF f
      <3>2. SumFunctionOnSet(f, {}) = 0
        BY <3>1, SumEmpty
      <3> QED
        BY <3>2 DEF Total, f
    <2> QED
      BY <1>5, <2>1, <2>2, <2>3 DEF BackedOK
  <1> QED
    BY <1>1, <1>2, <1>4, <1>5, <1>6, BalanceConstantsAssumption DEF Init, BalanceInv, SupplyOK

LEMMA BalanceNext == BalanceInv /\ [Next]_vars => BalanceInv'
  <1> SUFFICES ASSUME BalanceInv, [Next]_vars PROVE BalanceInv'
    OBVIOUS
  <1>1. CASE \E n \in Invokers, r \in Mints : Mint(n, r)
    BY <1>1, MintKeeps
  <1>2. CASE \E n \in Invokers, r \in Locks : Lock(n, r)
    BY <1>2, LockKeeps
  <1>3. CASE \E n \in Invokers, r \in Burns : Burn(n, r)
    BY <1>3, BurnKeeps
  <1>4. CASE \E n \in Invokers, r \in Payments : TransferX(n, r)
    BY <1>4, TransferXKeeps
  <1>5. CASE \E r \in Payments : Transfer(r)
    BY <1>5, TransferKeeps
  <1>6. CASE \E e \in 1..MaxEpoch : NewEpoch(e)
    BY <1>6, NewEpochKeeps
  <1>7. CASE UNCHANGED vars \/ NewBlock
    BY <1>7, NewBlockKeeps
  <1> QED
    BY <1>1, <1>2, <1>3, <1>4, <1>5, <1>6, <1>7 DEF Next

(* The state of the ledger and of its ballots, in every reachable state.   *)
THEOREM BalanceInvariance == Spec => []BalanceInv
  BY BalanceInit, BalanceNext, PTL DEF Spec

(* No balance is ever negative, and everything else stays in its domain.   *)
THEOREM BalanceTypes == Spec => []TypeOK
  <1>1. BalanceInv => TypeOK
    BY DEF BalanceInv, VotesOK, VotesInv, SupplyOK, BackedOK, LedgerOK, TypeOK, VotingTypeOK
  <1> QED
    BY <1>1, BalanceInvariance, PTL

(* The supply is the sum of all balances: no interleaving of deposits,     *)
(* locks, timeouts, cheques and payments makes or destroys an asset.       *)
THEOREM SupplyIsWhatAccountsHold == Spec => []SupplyMatchesBalances
  <1>1. BalanceInv => SupplyMatchesBalances
    BY DEF BalanceInv, SupplyOK, SupplyMatchesBalances, Holdings
  <1> QED
    BY <1>1, BalanceInvariance, PTL

(* Each deposit enters the supply once at most, and each cheque leaves it  *)
(* once at most, both with a quorum.                                       *)
THEOREM SupplyIsBacked == Spec => []SupplyBackedByDeposits
  <1>1. BalanceInv => SupplyBackedByDeposits
    <2> SUFFICES ASSUME BalanceInv PROVE SupplyBackedByDeposits
      OBVIOUS
    <2> DEFINE R == {r \in Mints : Approved(answered, MintId(r))}
    <2>1. Minted \subseteq R
      BY ApprovalIsKept DEF Minted, Spent
    <2>2. Minted \in SUBSET Mints /\ R \in SUBSET Mints
      BY DEF Minted
    <2>3. Total(Minted) <= Total(R) /\ Total(Minted) \in Nat /\ Total(R) \in Nat
      BY <2>1, <2>2, MintsSumUp, TotalGrows
    <2>4. supply + Total(burned) <= Total(Minted) /\ supply \in Nat /\ Total(burned) \in Nat
      BY BurnsSumUp DEF BalanceInv, SupplyOK, BackedOK
    <2>5. \A r \in burned : Approved(answered, BurnId(r))
      BY ApprovalIsKept DEF BalanceInv, BackedOK, Spent
    <2> HIDE DEF R
    <2>6. supply + Total(burned) <= Total(R)
      BY <2>3, <2>4
    <2> QED
      BY <2>5, <2>6 DEF SupplyBackedByDeposits, R
  <1> QED
    BY <1>1, BalanceInvariance, PTL

-----------------------------------------------------------------------------
(* The accounts, at the moment of a step. *)
LEMMA AccountsNow ==
    ASSUME BalanceInv
    PROVE  /\ VotesOK /\ VotesInv(Ids) /\ LedgerOK(acct) /\ acct \in [Accounts -> Account]
           /\ supply \in Nat /\ supply = Holdings(acct)
           /\ Users \subseteq Accounts /\ LockAccounts \subseteq Accounts
           /\ Users \intersect LockAccounts = {}
           /\ \A a \in Accounts : acct[a].balance \in Nat
  <1>1. LedgerOK(acct) /\ VotesOK /\ VotesInv(Ids) /\ acct \in [Accounts -> Account]
        /\ supply \in Nat /\ supply = Holdings(acct)
    BY DEF BalanceInv, VotesOK, SupplyOK, LedgerOK
  <1>2. \A a \in Accounts : acct[a].balance \in Nat
    BY <1>1 DEF Account
  <1> QED
    BY <1>1, <1>2, AccountsAreFinite

(* Only what the account of its owner pays for goes down. *)
LEMMA DebitsStep == BalanceInv /\ [Next]_vars => AuthorisedDebit
  <1> SUFFICES ASSUME BalanceInv, [Next]_vars, NEW u \in Users,
                      acct'[u].balance < acct[u].balance
               PROVE  \/ payments' # payments
                      \/ \E r \in Payments : r.from = u /\ Quorate(TransferId(r))
                      \/ \E r \in Locks : r.from = u /\ Quorate(LockId(r))
                      \/ \E r \in Burns : r.from = u /\ Quorate(BurnId(r))
    BY DEF AuthorisedDebit
  <1>00. LedgerOK(acct)
    BY AccountsNow
  <1>0. /\ VotesInv(Ids) /\ LedgerOK(acct) /\ u \in Accounts /\ u \notin LockAccounts
        /\ acct[u].balance \in Nat /\ acct' # acct
    BY AccountsNow
  <1>1. CASE \E n \in Invokers, r \in Mints : Mint(n, r)
    <2>1. PICK r \in Mints : acct' = Credited(acct, r.to, r.amount)
      BY <1>0, <1>1 DEF Mint, ledger
    <2>2. acct'[u].balance \in Nat /\ acct'[u].balance >= acct[u].balance
      BY <1>00, <2>1, MintCredits
    <2> QED
      BY <1>0, <2>2
  <1>2. CASE \E n \in Invokers, r \in Locks : Lock(n, r)
    <2>1. PICK n \in Invokers, r \in Locks : Lock(n, r)
      BY <1>2
    <2>2. /\ Decides(n, LockId(r)) /\ acct[r.to] = Zero
          /\ CanTransfer([acct EXCEPT ![r.to] = LockAccount(r)], r.from, r.amount)
          /\ acct' = LockResult(r)
      BY <1>0, <2>1, LockKeeps DEF ledger
    <2>3. Quorate(LockId(r))
      BY <1>0, <2>2, IdsOfRequests, DecidesIsQuorate
    <2>4. \A a \in Accounts \ {r.from, r.to} : acct'[a] = acct[a]
      BY <1>0, <2>2, LockOpens
    <2>5. u = r.from
      BY <1>0, <2>4, RequestsAssumption
    <2> QED
      BY <2>3, <2>5
  <1>3. CASE \E n \in Invokers, r \in Burns : Burn(n, r)
    <2>1. PICK n \in Invokers, r \in Burns :
             /\ Decides(n, BurnId(r)) /\ CanTransfer(acct, r.from, r.amount)
             /\ acct' = Withdrawn(acct, r.from, r.amount)
      BY <1>0, <1>3 DEF Burn, ledger
    <2>2. Quorate(BurnId(r))
      BY <1>0, <2>1, IdsOfRequests, DecidesIsQuorate
    <2>3. \A a \in Accounts \ {r.from} : acct'[a] = acct[a]
      BY <1>0, <2>1, RequestsAssumption, WithdrawnTakes DEF CanTransfer
    <2>4. u = r.from
      BY <1>0, <2>3
    <2> QED
      BY <2>2, <2>4
  <1>4. CASE \E n \in Invokers, r \in Payments : TransferX(n, r)
    <2>1. PICK n \in Invokers, r \in Payments :
             /\ Decides(n, TransferId(r)) /\ CanTransfer(acct, r.from, r.amount)
             /\ acct' = Moved(acct, r.from, r.to, r.amount)
      BY <1>0, <1>4 DEF TransferX, ledger
    <2>2. Quorate(TransferId(r))
      BY <1>0, <2>1, IdsOfRequests, DecidesIsQuorate
    <2>3. u = r.from
      BY <1>0, <2>1, PaymentMoves
    <2> QED
      BY <2>2, <2>3
  <1>5. CASE \E r \in Payments : Transfer(r)
    BY <1>5 DEF Transfer, BalanceInv
  <1>6. CASE \E e \in 1..MaxEpoch : NewEpoch(e)
    <2>1. PICK e \in 1..MaxEpoch : ReturnedOf(acct, acct', TimedOut(acct, e))
      BY <1>6, NewEpochKeeps
    <2>2. acct'[u].balance >= acct[u].balance /\ acct'[u].balance \in Nat
      BY <1>0, <2>1 DEF ReturnedOf, LedgerOK, Account
    <2> QED
      BY <1>0, <2>2
  <1>7. CASE UNCHANGED vars \/ NewBlock
    BY <1>0, <1>7 DEF vars, ledger, NewBlock
  <1> QED
    BY <1>1, <1>2, <1>3, <1>4, <1>5, <1>6, <1>7 DEF Next

(* No account of a user is debited without its owner or a quorum.          *)
THEOREM UsersAreDebitedByQuorum == Spec => DebitsAreAuthorised
  <1>1. BalanceInv /\ [Next]_vars => [AuthorisedDebit]_vars
    BY DebitsStep
  <1> QED
    BY <1>1, BalanceInvariance, PTL DEF Spec, DebitsAreAuthorised

-----------------------------------------------------------------------------
(* Locks and timeouts only move assets between accounts of one owner.      *)
LEMMA OwnersStep ==
    BalanceInv /\ [Next]_vars =>
      (supply' = supply /\ ~PaymentStep => \A u \in Users : OwnedIn(acct', u) = OwnedIn(acct, u))
  <1> SUFFICES ASSUME BalanceInv, [Next]_vars, supply' = supply, ~PaymentStep, NEW u \in Users
               PROVE  OwnedIn(acct', u) = OwnedIn(acct, u)
    OBVIOUS
  <1>00. LedgerOK(acct)
    BY AccountsNow
  <1>0. /\ LedgerOK(acct) /\ u \in Accounts /\ acct \in [Accounts -> Account] /\ supply \in Nat
        /\ acct[u].balance \in Nat /\ \A a \in LockAccounts : a \in Accounts /\ a # u
    BY AccountsNow
  <1>1. CASE \E n \in Invokers, r \in Mints : Mint(n, r)
    <2>1. PICK r \in Mints : acct' = acct \/ (acct' = Credited(acct, r.to, r.amount)
                                              /\ supply' = supply + r.amount)
      BY <1>1 DEF Mint, ledger
    <2>2. CASE acct' = acct
      BY <2>2
    <2>3. CASE acct' = Credited(acct, r.to, r.amount) /\ supply' = supply + r.amount
      <3>1. r.amount = 0
        BY <1>0, <2>3, RequestsAssumption
      <3>2. /\ LedgerOK(acct') /\ acct'[u].balance = acct[u].balance
            /\ \A a \in LockAccounts : acct'[a] = acct[a]
        BY <1>00, <2>3, <3>1, MintCredits
      <3> QED
        BY <1>0, <3>2, OwnedSame DEF LedgerOK, Share
    <2> QED
      BY <2>1, <2>2, <2>3
  <1>2. CASE \E n \in Invokers, r \in Locks : Lock(n, r)
    <2>1. PICK n \in Invokers, r \in Locks : Lock(n, r)
      BY <1>2
    <2> QED
      BY <1>0, <2>1, LockKeeps, LockOpens DEF ledger
  <1>3. CASE \E n \in Invokers, r \in Burns : Burn(n, r)
    <2>1. PICK r \in Burns : \/ acct' = acct
                             \/ /\ CanTransfer(acct, r.from, r.amount) /\ supply >= r.amount
                                /\ acct' = Withdrawn(acct, r.from, r.amount)
                                /\ supply' = supply - r.amount
      BY <1>3 DEF Burn, ledger
    <2>2. CASE acct' = acct
      BY <2>2
    <2>3. CASE /\ CanTransfer(acct, r.from, r.amount)
               /\ acct' = Withdrawn(acct, r.from, r.amount) /\ supply' = supply - r.amount
      <3>1. /\ r.from \in Accounts /\ r.amount = 0 /\ r.amount \in Nat
            /\ acct[r.from].balance >= r.amount /\ acct[r.from].balance \in Nat
        BY <1>0, <2>3, RequestsAssumption, AccountsNow DEF CanTransfer
      <3>2. /\ LedgerOK(acct') /\ \A a \in Accounts \ {r.from} : acct'[a] = acct[a]
            /\ acct'[r.from].balance = acct[r.from].balance - r.amount
            /\ \/ acct'[r.from] = Zero /\ acct[r.from].balance = r.amount
               \/ acct'[r.from].parent = acct[r.from].parent
        BY <1>0, <2>3, <3>1, WithdrawnTakes
      <3>3. \A a \in Accounts : acct'[a].balance = acct[a].balance
        BY <3>1, <3>2
      <3>4. \A a \in LockAccounts : Share(acct', u)[a] = Share(acct, u)[a]
        BY <1>0, <3>1, <3>2, <3>3 DEF Share
      <3> QED
        BY <1>0, <3>2, <3>3, <3>4, OwnedSame DEF LedgerOK
    <2> QED
      BY <2>1, <2>2, <2>3
  <1>4. CASE \E n \in Invokers, r \in Payments : TransferX(n, r)
    BY <1>4 DEF TransferX, Answers, PaymentStep
  <1>5. CASE \E r \in Payments : Transfer(r)
    BY <1>5 DEF Transfer, PaymentStep, BalanceInv
  <1>6. CASE \E e \in 1..MaxEpoch : NewEpoch(e)
    BY <1>6, NewEpochKeeps DEF ReturnedOf
  <1>7. CASE UNCHANGED vars \/ NewBlock
    BY <1>7 DEF vars, ledger, NewBlock
  <1> QED
    BY <1>1, <1>2, <1>3, <1>4, <1>5, <1>6, <1>7 DEF Next

(* What a user owns changes only by payments, deposits and cheques.        *)
THEOREM OwnersKeepAssets == Spec => OwnersKeepTheirAssets
  <1>1. BalanceInv /\ [Next]_vars =>
          [supply' = supply /\ ~PaymentStep => \A u \in Users : Owned(u)' = Owned(u)]_vars
    BY OwnersStep DEF Owned, OwnedIn, Balances, Held
  <1> QED
    BY <1>1, BalanceInvariance, PTL DEF Spec, OwnersKeepTheirAssets

-----------------------------------------------------------------------------
(* What is locked stays until a cheque burns it or its epoch has come.     *)
LocksHold ==
    \A a \in LockAccounts :
       /\ acct'[a].balance < acct[a].balance =>
            supply' < supply \/ (epoch' > epoch /\ epoch' >= acct[a].until)
       /\ epoch' > epoch => acct'[a].until = 0 \/ acct'[a].until > epoch'

(* Only Burn and a new epoch take from a lock account. *)
LEMMA LocksStep == BalanceInv /\ [Next]_vars => LocksHold
  <1> SUFFICES ASSUME BalanceInv, [Next]_vars, NEW a \in LockAccounts
               PROVE  /\ acct'[a].balance < acct[a].balance =>
                           supply' < supply \/ (epoch' > epoch /\ epoch' >= acct[a].until)
                      /\ epoch' > epoch => acct'[a].until = 0 \/ acct'[a].until > epoch'
    BY DEF LocksHold
  <1>00. LedgerOK(acct)
    BY AccountsNow
  <1>0. /\ LedgerOK(acct) /\ a \in Accounts /\ acct \in [Accounts -> Account] /\ supply \in Nat
        /\ acct[a].balance \in Nat /\ acct[a].until \in Nat /\ epoch \in Nat
        /\ Users \subseteq Accounts /\ a \notin Users
    BY AccountsNow, BalanceConstantsAssumption DEF BalanceInv, Account
  <1>1. CASE \E n \in Invokers, r \in Mints : Mint(n, r)
    <2>1. PICK n \in Invokers, r \in Mints : Mint(n, r)
      BY <1>1
    <2>2. acct' = acct \/ acct' = Credited(acct, r.to, r.amount)
      BY <2>1 DEF Mint, ledger
    <2>3. acct'[a] = acct[a]
      BY <1>00, <2>2, MintCredits
    <2> QED
      BY <1>0, <2>1, <2>3 DEF Mint, Answers
  <1>2. CASE \E n \in Invokers, r \in Locks : Lock(n, r)
    <2>1. PICK n \in Invokers, r \in Locks : Lock(n, r)
      BY <1>2
    <2>2. acct' = acct \/ (/\ acct[r.to] = Zero /\ acct' = LockResult(r)
                           /\ CanTransfer([acct EXCEPT ![r.to] = LockAccount(r)], r.from, r.amount))
      BY <2>1, LockKeeps DEF ledger
    <2>3. acct'[a].balance >= acct[a].balance /\ acct'[a].balance \in Nat
      <3>1. CASE acct' = acct
        BY <1>0, <3>1
      <3>2. CASE /\ acct[r.to] = Zero /\ acct' = LockResult(r)
                 /\ CanTransfer([acct EXCEPT ![r.to] = LockAccount(r)], r.from, r.amount)
        <4>1. /\ \A b \in Accounts \ {r.from, r.to} : acct'[b] = acct[b]
              /\ acct'[r.to] = [balance |-> r.amount, until |-> r.until, parent |-> r.from]
          BY <1>00, <3>2, LockOpens
        <4>2. r.from # a /\ r.amount \in Nat /\ acct[r.to].balance = 0
          BY <1>0, <3>2, RequestsAssumption DEF Zero
        <4> QED
          BY <1>0, <4>1, <4>2
      <3> QED
        BY <2>2, <3>1, <3>2
    <2>4. epoch' = epoch
      BY <2>1 DEF Lock, Answers
    <2> QED
      BY <1>0, <2>3, <2>4
  <1>3. CASE \E n \in Invokers, r \in Burns : Burn(n, r)
    <2>1. PICK n \in Invokers, r \in Burns : Burn(n, r)
      BY <1>3
    <2>2. \/ acct' = acct
          \/ /\ CanTransfer(acct, r.from, r.amount)
             /\ acct' = Withdrawn(acct, r.from, r.amount) /\ supply' = supply - r.amount
      BY <2>1 DEF Burn, ledger
    <2>3. epoch' = epoch
      BY <2>1 DEF Burn, Answers
    <2>4. acct'[a].balance < acct[a].balance => supply' < supply
      <3> SUFFICES ASSUME acct'[a].balance < acct[a].balance PROVE supply' < supply
        OBVIOUS
      <3>1. /\ CanTransfer(acct, r.from, r.amount)
            /\ acct' = Withdrawn(acct, r.from, r.amount) /\ supply' = supply - r.amount
        BY <1>0, <2>2
      <3>2. r.from \in Accounts /\ r.amount \in Nat /\ acct[r.from].balance >= r.amount
        BY <3>1, RequestsAssumption DEF CanTransfer
      <3>3. /\ \A b \in Accounts \ {r.from} : acct'[b] = acct[b]
            /\ acct'[r.from].balance = acct[r.from].balance - r.amount
        BY <1>0, <3>1, <3>2, WithdrawnTakes
      <3>4. a = r.from
        BY <1>0, <3>3
      <3> QED
        BY <1>0, <3>1, <3>2, <3>3, <3>4
    <2> QED
      BY <1>0, <2>3, <2>4
  <1>4. CASE \/ \E n \in Invokers, r \in Payments : TransferX(n, r)
             \/ \E r \in Payments : Transfer(r)
    <2>1. PICK r \in Payments :
             \/ acct' = acct
             \/ /\ CanTransfer(acct, r.from, r.amount)
                /\ acct' = Moved(acct, r.from, r.to, r.amount)
      BY <1>4 DEF TransferX, Transfer, ledger
    <2>2. epoch' = epoch
      BY <1>4 DEF TransferX, Transfer, Answers
    <2>3. acct'[a].balance >= acct[a].balance /\ acct'[a].balance \in Nat
      BY <1>0, <2>1, PaymentMoves DEF LedgerOK, Account
    <2> QED
      BY <1>0, <2>2, <2>3
  <1>5. CASE \E e \in 1..MaxEpoch : NewEpoch(e)
    <2>1. PICK e \in 1..MaxEpoch : NewEpoch(e)
      BY <1>5
    <2>2. ReturnedOf(acct, acct', TimedOut(acct, e)) /\ epoch' = e /\ e > epoch /\ e \in Nat
      BY <2>1, NewEpochKeeps, BalanceConstantsAssumption DEF NewEpoch
    <2>3. CASE a \in TimedOut(acct, e)
      <3>1. acct'[a].until = 0 /\ e >= acct[a].until
        BY <2>2, <2>3 DEF ReturnedOf, Zero, TimedOut
      <3> QED
        BY <1>0, <2>2, <3>1
    <2>4. CASE a \notin TimedOut(acct, e)
      <3>1. acct'[a] = acct[a] /\ (acct[a].until = 0 \/ ~(e >= acct[a].until))
        BY <1>0, <2>2, <2>4 DEF ReturnedOf, TimedOut
      <3> QED
        BY <1>0, <2>2, <3>1
    <2> QED
      BY <2>3, <2>4
  <1>6. CASE UNCHANGED vars \/ NewBlock
    BY <1>0, <1>6 DEF vars, ledger, NewBlock
  <1> QED
    BY <1>1, <1>2, <1>3, <1>4, <1>5, <1>6 DEF Next

(* Locked assets wait for their cheque, and not beyond their epoch.        *)
THEOREM LocksWaitForTheirEpoch == Spec => LocksHoldUntilTheirEpoch
  <1>1. BalanceInv /\ [Next]_vars => [LocksHold]_vars
    BY LocksStep
  <1> QED
    BY <1>1, BalanceInvariance, PTL DEF Spec, LocksHoldUntilTheirEpoch, LocksHold
=============================================================================
