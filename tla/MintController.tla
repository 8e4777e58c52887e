--------------------------- MODULE MintController ---------------------------
(***************************************************************************)
(* contracts/evm/src/MintController.sol: the ERC-20 on Ethereum, Base and  *)
(* Tempo whose supply only the ledger's dWallet can change.  One action    *)
(* per external function; a call that reverts leaves no trace, so a        *)
(* require that fails is a disabled action.                                *)
(*                                                                         *)
(* All EVM chains share one secp256k1 dWallet (scripts/setup-devnet.ts),   *)
(* so the key also signs for other chains and, after a redeployment of the *)
(* asset, for other ledgers.                                               *)
(***************************************************************************)
EXTENDS Integers, FiniteSets, Sums

CONSTANTS
  Addresses,       \* EVM addresses
  Words,           \* bytes32 values an authorization may carry as its account
  AddressOf,       \* word -> the address in its low 20 bytes
  Domains,         \* EIP-712 domains the dWallet signs for
  DOMAIN_SEPARATOR,\* this contract's domain
  Ledgers,         \* Asset accounts an authorization may name
  ledger,          \* the one this contract is bound to
  Amounts,         \* amounts authorised, transferred or approved
  Nonces,          \* nonces authorised
  Signable,        \* the messages the ledgers may get signed
  SignBound,       \* how many of them the dWallet signs
  GenesisTo, GenesisAmount,
  Uint256Max       \* largest uint256, also the unlimited allowance

Uint256 == 0 .. Uint256Max

\* What the dWallet signs.  keccak-256 is taken as injective, so the message
\* stands for its digest.
Message ==
  [domain : Domains, ledger : Ledgers, action : {"mint", "burn"}, amount : Amounts,
   account : Words, nonce : Nonces]

\* The struct a caller passes: everything in the message except the domain,
\* which the contract adds.
Authorizations ==
  [ledger : Ledgers, action : {"mint", "burn"}, amount : Amounts, account : Words, nonce : Nonces]

ASSUME ControllerAssumption ==
  /\ Uint256Max \in Nat /\ IsFiniteSet(Addresses)
  /\ AddressOf \in [Words -> Addresses]
  /\ DOMAIN_SEPARATOR \in Domains /\ ledger \in Ledgers
  /\ Amounts \subseteq Uint256
  /\ Signable \subseteq Message /\ SignBound \in Nat
  /\ GenesisTo \in Addresses /\ GenesisAmount \in Uint256

VARIABLES
  totalSupply, balanceOf, allowance,
  usedNonces,
  signatures,  \* the messages the dWallet has signed, for any domain and ledger
  authorized   \* the Authorized events emitted, as the message that was honoured

tokenVars == <<totalSupply, balanceOf, allowance>>
vars == <<tokenVars, usedNonces, signatures, authorized>>

\* The constructor.
Init ==
  /\ totalSupply = GenesisAmount
  /\ balanceOf = [x \in Addresses |-> IF x = GenesisTo THEN GenesisAmount ELSE 0]
  /\ allowance = [x \in Addresses |-> [y \in Addresses |-> 0]]
  /\ usedNonces = {} /\ signatures = {} /\ authorized = {}

\* The message whose digest digestOf(a) is.
Digest(a) ==
  [domain |-> DOMAIN_SEPARATOR, ledger |-> a.ledger, action |-> a.action, amount |-> a.amount,
   account |-> a.account, nonce |-> a.nonce]

\* _verify: the checks that let a signature through.  _m1 and _m2 forget one.
Verify_m1(a) == a.ledger = ledger /\ Digest(a) \in signatures
Verify_m2(a) == a.nonce \notin usedNonces /\ Digest(a) \in signatures
Verify(a) ==
  /\ a.ledger = ledger
  /\ a.nonce \notin usedNonces
  /\ Digest(a) \in signatures

Consume(a) ==
  /\ usedNonces' = usedNonces \cup {a.nonce}
  /\ authorized' = authorized \cup {Digest(a)}

\* Solidity 0.8 checks every addition and subtraction.
Fits(x, y) == x + y <= Uint256Max

MintWithAuthorization(a) ==
  LET to == AddressOf[a.account] IN
  /\ a.action = "mint"
  /\ Verify(a)
  /\ Fits(totalSupply, a.amount) /\ Fits(balanceOf[to], a.amount)
  /\ totalSupply' = totalSupply + a.amount
  /\ balanceOf' = [balanceOf EXCEPT ![to] = @ + a.amount]
  /\ Consume(a)
  /\ UNCHANGED <<allowance, signatures>>

BurnWithAuthorization(a) ==
  LET from == AddressOf[a.account] IN
  /\ a.action = "burn"
  /\ Verify(a)
  /\ a.amount <= balanceOf[from] /\ a.amount <= totalSupply
  /\ balanceOf' = [balanceOf EXCEPT ![from] = @ - a.amount]
  /\ totalSupply' = totalSupply - a.amount
  /\ Consume(a)
  /\ UNCHANGED <<allowance, signatures>>

\* _transfer debits, then credits: an account may send to itself.  _m1 reads
\* both balances before it writes either.
Moved_m1(from, to, value) == [balanceOf EXCEPT ![from] = @ - value, ![to] = balanceOf[to] + value]
Moved(from, to, value) ==
  LET debited == [balanceOf EXCEPT ![from] = @ - value]
  IN  [debited EXCEPT ![to] = @ + value]

CanMove(from, to, value) ==
  /\ value <= balanceOf[from]
  /\ from # to => Fits(balanceOf[to], value)

Transfer(sender, to, value) ==
  /\ CanMove(sender, to, value)
  /\ balanceOf' = Moved(sender, to, value)
  /\ UNCHANGED <<totalSupply, allowance, usedNonces, signatures, authorized>>

Approve(owner, spender, value) ==
  /\ allowance' = [allowance EXCEPT ![owner][spender] = value]
  /\ UNCHANGED <<totalSupply, balanceOf, usedNonces, signatures, authorized>>

\* What an allowance is after spending from it: the unlimited one stays.
Spent(allowed, value) == IF allowed = Uint256Max THEN allowed ELSE allowed - value

TransferFrom(spender, from, to, value) ==
  LET allowed == allowance[from][spender] IN
  /\ value <= allowed
  /\ CanMove(from, to, value)
  /\ allowance' = [allowance EXCEPT ![from][spender] = Spent(allowed, value)]
  /\ balanceOf' = Moved(from, to, value)
  /\ UNCHANGED <<totalSupply, usedNonces, signatures, authorized>>

\* Ika signs a message the ledger approved, for this contract or another.
DWalletSigns(m) ==
  /\ Cardinality(signatures \cup {m}) <= SignBound
  /\ signatures' = signatures \cup {m}
  /\ UNCHANGED <<tokenVars, usedNonces, authorized>>

Next ==
  \/ \E a \in Authorizations : MintWithAuthorization(a)
  \/ \E a \in Authorizations : BurnWithAuthorization(a)
  \/ \E x, y \in Addresses, v \in Amounts : Transfer(x, y, v)
  \/ \E x, y \in Addresses, v \in Amounts \cup {Uint256Max} : Approve(x, y, v)
  \/ \E x, y, z \in Addresses, v \in Amounts : TransferFrom(x, y, z, v)
  \/ \E m \in Signable : DWalletSigns(m)

Spec == Init /\ [][Next]_vars

-----------------------------------------------------------------------------

TypeOK ==
  /\ totalSupply \in Uint256
  /\ balanceOf \in [Addresses -> Uint256]
  /\ allowance \in [Addresses -> [Addresses -> Uint256]]
  /\ usedNonces \subseteq Nonces
  /\ signatures \subseteq Message /\ authorized \subseteq Message

\* The contract keeps the promise of SupplyController: README.md:41-42, "It
\* cannot change what was signed, and each nonce works once".
Controller ==
  INSTANCE SupplyController WITH
    Messages <- Message, Genesis <- {GenesisAmount},
    supply <- totalSupply, seeded <- TRUE, signed <- signatures, honoured <- authorized
ImplementsController == Controller!Spec

\* The holders' balances are the supply: no mint, burn or transfer, to oneself
\* included, creates or loses a token (MintController.sol:78-98, 163-168).
BalancesAddUp == totalSupply = SumOver(balanceOf, Addresses)

\* A signature the same dWallet made for another chain or for another asset is
\* not honoured here (MintController.sol:101-109).
OnlyThisContract ==
  \A m \in authorized : m.domain = DOMAIN_SEPARATOR /\ m.ledger = ledger
=============================================================================
