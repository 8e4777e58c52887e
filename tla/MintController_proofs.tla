------------------------ MODULE MintController_proofs ------------------------
(***************************************************************************)
(* MintController keeps the promise of SupplyController, for every set of   *)
(* holders, every amount and whatever else its dWallet signs.               *)
(***************************************************************************)
EXTENDS MintController, Shared_proofs

\* The mapping of used nonces is the set of nonces of the Authorized events.
NonceInv == usedNonces = {m.nonce : m \in authorized}

LEMMA DigestType ==
  ASSUME NEW a \in Authorizations
  PROVE  /\ Digest(a) \in Message
         /\ Digest(a).nonce = a.nonce /\ Digest(a).action = a.action
         /\ Digest(a).amount = a.amount /\ a.amount \in Amounts
         /\ a.nonce \in Nonces /\ AddressOf[a.account] \in Addresses
         /\ Digest(a).domain = DOMAIN_SEPARATOR /\ Digest(a).ledger = a.ledger
  BY ControllerAssumption DEF Digest, Message, Authorizations

\* Amounts are natural numbers of the width of the contract.
LEMMA AmountType == Uint256Max \in Nat /\ \A v \in Amounts : v \in 0 .. Uint256Max
  BY ControllerAssumption DEF Uint256

\* Crediting an account that has room, or debiting one that has enough, keeps
\* the balances in range.
LEMMA CreditType ==
  ASSUME NEW f \in [Addresses -> Uint256], NEW x \in Addresses, NEW v \in 0 .. Uint256Max,
         Uint256Max \in Nat, Fits(f[x], v)
  PROVE  [f EXCEPT ![x] = @ + v] \in [Addresses -> Uint256]
  <1>1. f[x] \in 0 .. Uint256Max
    BY DEF Uint256
  <1>2. f[x] + v \in Uint256
    BY <1>1 DEF Fits, Uint256
  <1> QED BY <1>2

LEMMA DebitType ==
  ASSUME NEW f \in [Addresses -> Uint256], NEW x \in Addresses, NEW v \in 0 .. Uint256Max,
         Uint256Max \in Nat, v <= f[x]
  PROVE  /\ [f EXCEPT ![x] = @ - v] \in [Addresses -> Uint256]
  <1>1. f[x] \in 0 .. Uint256Max
    BY DEF Uint256
  <1>2. f[x] - v \in Uint256
    BY <1>1 DEF Uint256
  <1> QED BY <1>2

\* A transfer that CanMove allows keeps the balances in range, to oneself as well.
LEMMA MovedType ==
  ASSUME TypeOK, NEW x \in Addresses, NEW y \in Addresses, NEW v \in Amounts, CanMove(x, y, v)
  PROVE  Moved(x, y, v) \in [Addresses -> Uint256]
  <1> DEFINE debited == [balanceOf EXCEPT ![x] = @ - v]
  <1>1. Uint256Max \in Nat /\ v \in 0 .. Uint256Max
    BY AmountType
  <1>2. balanceOf \in [Addresses -> Uint256] /\ v <= balanceOf[x]
    BY DEF TypeOK, CanMove
  <1>3. debited \in [Addresses -> Uint256]
    BY <1>1, <1>2, DebitType
  <1>4. balanceOf[x] \in 0 .. Uint256Max /\ balanceOf[y] \in 0 .. Uint256Max
    BY <1>2 DEF Uint256
  <1>5. Fits(debited[y], v)
    <2>1. CASE x = y
      <3>1. debited[y] = balanceOf[x] - v
        BY <1>2, <2>1
      <3> QED BY <3>1, <1>1, <1>4 DEF Fits
    <2>2. CASE x # y
      <3>1. debited[y] = balanceOf[y]
        BY <1>2, <2>2
      <3> QED BY <3>1, <2>2 DEF CanMove
    <2> QED BY <2>1, <2>2
  <1> HIDE DEF debited
  <1>6. [debited EXCEPT ![y] = @ + v] \in [Addresses -> Uint256]
    BY <1>1, <1>3, <1>5, CreditType
  <1> QED BY <1>6 DEF Moved, debited

-----------------------------------------------------------------------------

LEMMA InitType == Init => TypeOK /\ NonceInv
  <1> SUFFICES ASSUME Init PROVE TypeOK /\ NonceInv
    OBVIOUS
  <1>1. 0 \in Uint256 /\ GenesisAmount \in Uint256
    BY ControllerAssumption DEF Uint256
  <1> QED BY <1>1 DEF Init, TypeOK, NonceInv

\* The two functions that change the supply.
LEMMA AuthorizedType ==
  ASSUME TypeOK, NonceInv, NEW a \in Authorizations,
         MintWithAuthorization(a) \/ BurnWithAuthorization(a)
  PROVE  TypeOK' /\ NonceInv'
  <1>1. Uint256Max \in Nat /\ a.amount \in 0 .. Uint256Max
    BY AmountType, DigestType
  <1>2. balanceOf' \in [Addresses -> Uint256] /\ totalSupply' \in Uint256
    <2> DEFINE x == AddressOf[a.account]
    <2>1. x \in Addresses /\ balanceOf \in [Addresses -> Uint256] /\ totalSupply \in 0 .. Uint256Max
      BY DigestType DEF TypeOK, Uint256
    <2>2. CASE MintWithAuthorization(a)
      <3>1. /\ Fits(totalSupply, a.amount) /\ Fits(balanceOf[x], a.amount)
            /\ totalSupply' = totalSupply + a.amount
            /\ balanceOf' = [balanceOf EXCEPT ![x] = @ + a.amount]
        BY <2>2 DEF MintWithAuthorization
      <3> HIDE DEF x
      <3>2. balanceOf' \in [Addresses -> Uint256]
        BY <1>1, <2>1, <3>1, CreditType
      <3>3. totalSupply' \in Uint256
        BY <1>1, <2>1, <3>1 DEF Fits, Uint256
      <3> QED BY <3>2, <3>3
    <2>3. CASE BurnWithAuthorization(a)
      <3>1. /\ a.amount <= balanceOf[x] /\ a.amount <= totalSupply
            /\ totalSupply' = totalSupply - a.amount
            /\ balanceOf' = [balanceOf EXCEPT ![x] = @ - a.amount]
        BY <2>3 DEF BurnWithAuthorization
      <3> HIDE DEF x
      <3>2. balanceOf' \in [Addresses -> Uint256]
        BY <1>1, <2>1, <3>1, DebitType
      <3>3. totalSupply' \in Uint256
        BY <1>1, <2>1, <3>1 DEF Uint256
      <3> QED BY <3>2, <3>3
    <2> QED BY <2>2, <2>3
  <1>3. /\ usedNonces' = usedNonces \cup {a.nonce}
        /\ authorized' = authorized \cup {Digest(a)}
        /\ UNCHANGED <<allowance, signatures>>
    BY DEF MintWithAuthorization, BurnWithAuthorization, Consume
  <1>4. Digest(a) \in Message /\ Digest(a).nonce = a.nonce /\ a.nonce \in Nonces
    BY DigestType
  <1>5. NonceInv'
    BY <1>3, <1>4 DEF NonceInv
  <1>6. TypeOK'
    BY <1>2, <1>3, <1>4 DEF TypeOK
  <1> QED BY <1>5, <1>6

LEMMA TokenType ==
  ASSUME TypeOK, NonceInv,
         \/ \E x, y \in Addresses, v \in Amounts : Transfer(x, y, v)
         \/ \E x, y \in Addresses, v \in Amounts \cup {Uint256Max} : Approve(x, y, v)
         \/ \E x, y, z \in Addresses, v \in Amounts : TransferFrom(x, y, z, v)
  PROVE  TypeOK' /\ NonceInv'
  <1>1. CASE \E x, y \in Addresses, v \in Amounts : Transfer(x, y, v)
    <2> PICK x \in Addresses, y \in Addresses, v \in Amounts : Transfer(x, y, v)
      BY <1>1
    <2>1. balanceOf' \in [Addresses -> Uint256]
      BY MovedType DEF Transfer
    <2> QED BY <2>1 DEF Transfer, TypeOK, NonceInv
  <1>2. CASE \E x, y \in Addresses, v \in Amounts \cup {Uint256Max} : Approve(x, y, v)
    <2> PICK x \in Addresses, y \in Addresses, v \in Amounts \cup {Uint256Max} : Approve(x, y, v)
      BY <1>2
    <2>1. v \in Uint256
      BY AmountType DEF Uint256
    <2>2. allowance' \in [Addresses -> [Addresses -> Uint256]]
      BY <2>1 DEF Approve, TypeOK
    <2> QED BY <2>2 DEF Approve, TypeOK, NonceInv
  <1>3. CASE \E x, y, z \in Addresses, v \in Amounts : TransferFrom(x, y, z, v)
    <2> PICK x \in Addresses, y \in Addresses, z \in Addresses, v \in Amounts : TransferFrom(x, y, z, v)
      BY <1>3
    <2>1. balanceOf' \in [Addresses -> Uint256]
      BY MovedType DEF TransferFrom
    <2>2. Uint256Max \in Nat /\ v \in 0 .. Uint256Max /\ allowance[y][x] \in 0 .. Uint256Max
      BY AmountType DEF TypeOK, Uint256
    <2>3. Spent(allowance[y][x], v) \in Uint256
      BY <2>2 DEF TransferFrom, Spent, Uint256
    <2>4. allowance' \in [Addresses -> [Addresses -> Uint256]]
      BY <2>3 DEF TransferFrom, TypeOK
    <2> QED BY <2>1, <2>4 DEF TransferFrom, TypeOK, NonceInv
  <1> QED BY <1>1, <1>2, <1>3

LEMMA NextType == ASSUME TypeOK, NonceInv, [Next]_vars PROVE TypeOK' /\ NonceInv'
  <1>1. CASE \E a \in Authorizations : MintWithAuthorization(a)
    BY <1>1, AuthorizedType
  <1>2. CASE \E a \in Authorizations : BurnWithAuthorization(a)
    BY <1>2, AuthorizedType
  <1>3. CASE \/ \E x, y \in Addresses, v \in Amounts : Transfer(x, y, v)
             \/ \E x, y \in Addresses, v \in Amounts \cup {Uint256Max} : Approve(x, y, v)
             \/ \E x, y, z \in Addresses, v \in Amounts : TransferFrom(x, y, z, v)
    BY <1>3, TokenType
  <1>4. CASE \E m \in Signable : DWalletSigns(m)
    BY <1>4, ControllerAssumption DEF DWalletSigns, tokenVars, TypeOK, NonceInv
  <1>5. CASE UNCHANGED vars
    BY <1>5 DEF vars, tokenVars, TypeOK, NonceInv
  <1> QED BY <1>1, <1>2, <1>3, <1>4, <1>5 DEF Next

\* Every balance, allowance and the supply stay within uint256, and a nonce is
\* used exactly when an authorization with it was honoured (MintController.sol:15-111).
THEOREM TypeCorrect == Spec => [](TypeOK /\ NonceInv)
  <1>1. Init => TypeOK /\ NonceInv
    BY InitType
  <1>2. TypeOK /\ NonceInv /\ [Next]_vars => (TypeOK /\ NonceInv)'
    BY NextType
  <1> QED BY <1>1, <1>2, PTL DEF Spec

-----------------------------------------------------------------------------

LEMMA InitRefines == Init => Controller!Init
  BY DEF Init, Controller!Init

LEMMA AuthorizedRefines ==
  ASSUME TypeOK, NonceInv, NEW a \in Authorizations,
         MintWithAuthorization(a) \/ BurnWithAuthorization(a)
  PROVE  Controller!Honour(Digest(a))
  <1>1. /\ Digest(a).nonce = a.nonce /\ Digest(a).action = a.action /\ Digest(a).amount = a.amount
    BY DigestType
  <1>2. Digest(a) \in signatures /\ a.nonce \notin usedNonces
    BY DEF MintWithAuthorization, BurnWithAuthorization, Verify
  <1>3. \A h \in authorized : h.nonce # Digest(a).nonce
    BY <1>1, <1>2 DEF NonceInv
  <1>4. authorized' = authorized \cup {Digest(a)} /\ signatures' = signatures
    BY DEF MintWithAuthorization, BurnWithAuthorization, Consume
  <1>5. \/ a.action = "mint" /\ totalSupply' = totalSupply + a.amount
        \/ a.action = "burn" /\ a.amount <= totalSupply /\ totalSupply' = totalSupply - a.amount
    BY DEF MintWithAuthorization, BurnWithAuthorization
  <1> QED BY <1>1, <1>2, <1>3, <1>4, <1>5 DEF Controller!Honour

LEMMA NextRefines ==
  ASSUME TypeOK, NonceInv, [Next]_vars PROVE [Controller!Next]_(Controller!vars)
  <1>1. CASE \E a \in Authorizations : MintWithAuthorization(a) \/ BurnWithAuthorization(a)
    <2> PICK a \in Authorizations : MintWithAuthorization(a) \/ BurnWithAuthorization(a)
      BY <1>1
    <2>1. Controller!Honour(Digest(a)) /\ Digest(a) \in Message
      BY AuthorizedRefines, DigestType
    <2> QED BY <2>1 DEF Controller!Next
  <1>2. CASE \/ \E x, y \in Addresses, v \in Amounts : Transfer(x, y, v)
             \/ \E x, y \in Addresses, v \in Amounts \cup {Uint256Max} : Approve(x, y, v)
             \/ \E x, y, z \in Addresses, v \in Amounts : TransferFrom(x, y, z, v)
    <2>1. UNCHANGED <<totalSupply, signatures, authorized>>
      BY <1>2 DEF Transfer, Approve, TransferFrom
    <2> QED BY <2>1 DEF Controller!vars
  <1>3. CASE \E m \in Signable : DWalletSigns(m)
    <2> PICK m \in Signable : DWalletSigns(m)
      BY <1>3
    <2>1. m \in Message /\ Controller!Sign(m)
      BY ControllerAssumption DEF DWalletSigns, tokenVars, Controller!Sign
    <2> QED BY <2>1 DEF Controller!Next
  <1>4. CASE UNCHANGED vars
    BY <1>4 DEF vars, tokenVars, Controller!vars
  <1> QED BY <1>1, <1>2, <1>3, <1>4 DEF Next

\* The contract implements SupplyController: README.md:41-42, supply moves only by
\* authorizations as they were signed, and each nonce works once.
THEOREM ControllerImplemented == Spec => ImplementsController
  <1>1. Init => Controller!Init
    BY InitRefines
  <1>2. TypeOK /\ NonceInv /\ [Next]_vars => [Controller!Next]_(Controller!vars)
    BY NextRefines
  <1> QED BY <1>1, <1>2, TypeCorrect, PTL DEF Spec, ImplementsController, Controller!Spec

\* No signature made for another chain or another asset has an effect here
\* (MintController.sol:101-109).
THEOREM OnlyThisContractHolds == Spec => []OnlyThisContract
  <1>1. Init => OnlyThisContract
    BY DEF Init, OnlyThisContract
  <1>2. OnlyThisContract /\ [Next]_vars => OnlyThisContract'
    <2> SUFFICES ASSUME OnlyThisContract, [Next]_vars PROVE OnlyThisContract'
      OBVIOUS
    <2>1. CASE \E a \in Authorizations : MintWithAuthorization(a) \/ BurnWithAuthorization(a)
      <3> PICK a \in Authorizations : MintWithAuthorization(a) \/ BurnWithAuthorization(a)
        BY <2>1
      <3>1. authorized' = authorized \cup {Digest(a)} /\ a.ledger = ledger
        BY DEF MintWithAuthorization, BurnWithAuthorization, Consume, Verify
      <3>2. Digest(a).domain = DOMAIN_SEPARATOR /\ Digest(a).ledger = ledger
        BY <3>1, DigestType
      <3> QED BY <3>1, <3>2 DEF OnlyThisContract
    <2>2. CASE UNCHANGED authorized
      BY <2>2 DEF OnlyThisContract
    <2> QED
      BY <2>1, <2>2 DEF Next, vars, Transfer, Approve, TransferFrom, DWalletSigns
  <1> QED BY <1>1, <1>2, PTL DEF Spec

-----------------------------------------------------------------------------
(* The balances and the supply.                                              *)

\* A balance that changes by v changes the sum by v.
LEMMA SumPaid ==
  ASSUME NEW f, NEW g, NEW x \in Addresses, NEW v \in Int,
         \A y \in Addresses : f[y] \in Int /\ g[y] \in Int,
         \A y \in Addresses \ {x} : g[y] = f[y]
  PROVE  g[x] = f[x] + v => SumOver(g, Addresses) = SumOver(f, Addresses) + v
  <1>1. IsFiniteSet(Addresses)
    BY ControllerAssumption
  <1>2. SumOver(g, Addresses) = SumOver(f, Addresses) - f[x] + g[x]
    BY <1>1, SumUpdate
  <1>3. SumOver(f, Addresses) \in Int /\ f[x] \in Int
    BY <1>1, SumIsInt
  <1> QED BY <1>2, <1>3

LEMMA BalanceIsInt == ASSUME NEW f \in [Addresses -> Uint256] PROVE \A y \in Addresses : f[y] \in Int
  BY AmountType DEF Uint256

\* Moving tokens keeps their sum, to oneself as well: the debit and the credit
\* are two updates, one after the other.
LEMMA MovedSum ==
  ASSUME TypeOK, NEW x \in Addresses, NEW y \in Addresses, NEW v \in Amounts, CanMove(x, y, v)
  PROVE  SumOver(Moved(x, y, v), Addresses) = SumOver(balanceOf, Addresses)
  <1> DEFINE debited == [balanceOf EXCEPT ![x] = @ - v]
             moved   == [debited EXCEPT ![y] = @ + v]
  <1>1. v \in 0 .. Uint256Max /\ v \in Int /\ 0 - v \in Int /\ Uint256Max \in Nat
    BY AmountType
  <1>2. balanceOf \in [Addresses -> Uint256] /\ v <= balanceOf[x]
    BY DEF TypeOK, CanMove
  <1>3. debited \in [Addresses -> Uint256]
    BY <1>1, <1>2, DebitType
  <1>4. moved \in [Addresses -> Uint256]
    BY MovedType DEF Moved
  <1>5. /\ \A z \in Addresses : balanceOf[z] \in Int
        /\ \A z \in Addresses : debited[z] \in Int
        /\ \A z \in Addresses : moved[z] \in Int
    <2> HIDE DEF debited, moved
    <2> QED BY <1>2, <1>3, <1>4, BalanceIsInt
  <1>6. debited[x] = balanceOf[x] + (0 - v) /\ \A z \in Addresses \ {x} : debited[z] = balanceOf[z]
    BY <1>1, <1>2, <1>5
  <1>7. moved[y] = debited[y] + v /\ \A z \in Addresses \ {y} : moved[z] = debited[z]
    BY <1>3
  <1> HIDE DEF debited, moved
  <1>8. SumOver(debited, Addresses) = SumOver(balanceOf, Addresses) + (0 - v)
    BY <1>1, <1>5, <1>6, SumPaid
  <1>9. SumOver(moved, Addresses) = SumOver(debited, Addresses) + v
    BY <1>1, <1>5, <1>7, SumPaid
  <1>10. SumOver(balanceOf, Addresses) \in Int
    BY <1>5, ControllerAssumption, SumIsInt
  <1>11. SumOver(moved, Addresses) = SumOver(balanceOf, Addresses)
    BY <1>1, <1>8, <1>9, <1>10
  <1> QED BY <1>11 DEF moved, debited, Moved

LEMMA AuthorizedSum ==
  ASSUME TypeOK, TypeOK', BalancesAddUp, NEW a \in Authorizations,
         MintWithAuthorization(a) \/ BurnWithAuthorization(a)
  PROVE  BalancesAddUp'
  <1> DEFINE x == AddressOf[a.account]
  <1>1. a.amount \in Int /\ 0 - a.amount \in Int /\ x \in Addresses
    BY AmountType, DigestType
  <1>2. totalSupply \in Int /\ \A y \in Addresses : balanceOf[y] \in Int /\ balanceOf'[y] \in Int
    BY BalanceIsInt, AmountType DEF TypeOK, Uint256
  <1>3. CASE MintWithAuthorization(a)
    <2>1. /\ totalSupply' = totalSupply + a.amount
          /\ balanceOf'[x] = balanceOf[x] + a.amount
          /\ \A y \in Addresses \ {x} : balanceOf'[y] = balanceOf[y]
      BY <1>1, <1>3 DEF MintWithAuthorization, TypeOK
    <2> HIDE DEF x
    <2>2. SumOver(balanceOf', Addresses) = SumOver(balanceOf, Addresses) + a.amount
      BY <1>1, <1>2, <2>1, SumPaid
    <2> QED BY <2>1, <2>2 DEF BalancesAddUp
  <1>4. CASE BurnWithAuthorization(a)
    <2>1. /\ totalSupply' = totalSupply + (0 - a.amount)
          /\ balanceOf'[x] = balanceOf[x] + (0 - a.amount)
          /\ \A y \in Addresses \ {x} : balanceOf'[y] = balanceOf[y]
      BY <1>1, <1>2, <1>4 DEF BurnWithAuthorization, TypeOK
    <2> HIDE DEF x
    <2>2. SumOver(balanceOf', Addresses) = SumOver(balanceOf, Addresses) + (0 - a.amount)
      BY <1>1, <1>2, <2>1, SumPaid
    <2> QED BY <2>1, <2>2 DEF BalancesAddUp
  <1> QED BY <1>3, <1>4

LEMMA InitSum == Init => BalancesAddUp
  <1> SUFFICES ASSUME Init PROVE BalancesAddUp
    OBVIOUS
  <1> DEFINE none == [y \in Addresses |-> 0]
  <1>1. GenesisTo \in Addresses /\ GenesisAmount \in Int /\ IsFiniteSet(Addresses)
    BY ControllerAssumption DEF Uint256
  <1>2. SumOver(none, Addresses) = 0
    BY <1>1, SumOfZeros
  <1>3. \A y \in Addresses : none[y] = 0 /\ balanceOf[y] = IF y = GenesisTo THEN GenesisAmount ELSE 0
    BY DEF Init
  <1> HIDE DEF none
  <1>4. /\ \A y \in Addresses : none[y] \in Int /\ balanceOf[y] \in Int
        /\ \A y \in Addresses \ {GenesisTo} : balanceOf[y] = none[y]
        /\ balanceOf[GenesisTo] = none[GenesisTo] + GenesisAmount
    BY <1>1, <1>3
  <1>5. SumOver(balanceOf, Addresses) = SumOver(none, Addresses) + GenesisAmount
    BY <1>1, <1>4, SumPaid
  <1> QED BY <1>1, <1>2, <1>5 DEF Init, BalancesAddUp

\* The holders' balances are the supply, for every set of holders: no mint, burn
\* or transfer, to oneself included, creates or loses a token
\* (MintController.sol:78-98, 163-168).
THEOREM BalancesAddUpHolds == Spec => []BalancesAddUp
  <1>1. TypeOK /\ TypeOK' /\ BalancesAddUp /\ [Next]_vars => BalancesAddUp'
    <2> SUFFICES ASSUME TypeOK, TypeOK', BalancesAddUp, [Next]_vars PROVE BalancesAddUp'
      OBVIOUS
    <2>1. CASE \E a \in Authorizations : MintWithAuthorization(a) \/ BurnWithAuthorization(a)
      BY <2>1, AuthorizedSum
    <2>2. CASE \E x, y \in Addresses, v \in Amounts :
                 CanMove(x, y, v) /\ balanceOf' = Moved(x, y, v) /\ totalSupply' = totalSupply
      BY <2>2, MovedSum DEF BalancesAddUp
    <2>3. CASE UNCHANGED <<totalSupply, balanceOf>>
      BY <2>3 DEF BalancesAddUp
    <2> QED
      BY <2>1, <2>2, <2>3 DEF Next, vars, tokenVars, Transfer, Approve, TransferFrom, DWalletSigns
  <1> QED BY <1>1, InitSum, TypeCorrect, PTL DEF Spec
=============================================================================
