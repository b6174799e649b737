---------------------------- MODULE ToolPrograms ----------------------------
(***************************************************************************)
(* What each transaction tool of backend/tools does with its input, as the *)
(* sequence of its steps from one await to the next.  TransactionTools     *)
(* runs these programs concurrently.                                       *)
(*                                                                         *)
(*   "spend"    assertWithinSpendingLimit, which counts the amount         *)
(*   "lookup"   a request that may fail, with a timeout: loadAccount of    *)
(*              another account, or axios.get with a timeout               *)
(*   "query"    a request that may fail, without one: the clients of       *)
(*              Horizon and RPC are created without a timeout              *)
(*   "load"     loadAccount(agent)     "read"  the same, result only read  *)
(*   "refresh"  loadAccount(agent, { forceRefresh: true })                 *)
(*   "build"    build() on the loaded account record, and sign()           *)
(*   "simulate" prepareSorobanTx, which throws when the simulation fails   *)
(*   "submit"   submitTransaction      "submit_inner"  of a given envelope *)
(*   "submit_recover"  the same, with one rebuild after tx_bad_seq         *)
(*   "send"     sorobanServer.sendTransaction, without a timeout           *)
(*   "poll"     pollForConfirmation, each request without a timeout        *)
(*   "throw"    an error                                                   *)
(*                                                                         *)
(* Inputs are records of what the tools look at.  An amount is a number;   *)
(* the schemas' regular expressions accept the positive ones.  An asset is *)
(* "XLM", "issued", or "unissued": a code that lacks its issuer.  A memo   *)
(* is "none", a "short" or a "long" text, "hex32", or a number that does   *)
(* ("u64") or does not ("negative") fit an id.  What Horizon and the       *)
(* simulation answer, where a tool computes with it, is part of the input. *)
(***************************************************************************)
EXTENDS Integers, Sequences, Functions

CONSTANTS AGENT_SPENDING_LIMIT, MAX_SOROBAN_FEE_STROOPS

ASSUME ToolAssumption ==
  AGENT_SPENDING_LIMIT \in Nat /\ MAX_SOROBAN_FEE_STROOPS \in Nat

\* What every classic tool ends with.
Transact == <<"load", "build", "submit">>

\* A failed check before the first await ends the task.
When(valid, steps) == IF valid THEN steps ELSE <<"throw">>

Total(amounts) ==
  LET sum[i \in 0 .. Len(amounts)] == IF i = 0 THEN 0 ELSE sum[i - 1] + amounts[i]
  IN  sum[Len(amounts)]

AssetOk(asset) == asset # "unissued"

MemoOk(memoType, memo) ==
  \/ memo = "none"
  \/ memoType = "text" /\ memo = "short"
  \/ memoType = "id" /\ memo = "u64"
  \/ memoType \in {"hash", "return"} /\ memo = "hex32"

-----------------------------------------------------------------------------
(* Payments.                                                               *)

PaymentInput(in) ==
  /\ in.amount > 0
  /\ in.memoType = "text" => in.memo # "long"

\* The guard of the agent runs before the schema and the checks of the tool; a
\* memo the schema lets pass is refused while the transaction is built.
StellarPayment(in) ==
  <<"spend">> \o
  When(/\ PaymentInput(in) /\ in.destination # "agent" /\ AssetOk(in.asset),
       IF MemoOk(in.memoType, in.memo) THEN <<"load", "build", "submit_recover">>
       ELSE <<"load", "throw">>)

\* All payments of a batch are checked before the network is touched; the
\* total is compared with the limit and not counted.
BatchPaymentInput(in) ==
  /\ Len(in.payments) \in 1 .. 100
  /\ \A p \in Range(in.payments) : p.amount > 0

BatchTotal(in) == Total([i \in DOMAIN in.payments |-> in.payments[i].amount])

BatchPayment(in) ==
  When(/\ BatchPaymentInput(in)
       /\ BatchTotal(in) <= AGENT_SPENDING_LIMIT
       /\ \A p \in Range(in.payments) : AssetOk(p.asset),
       Transact)

\* Without enough signatures the built transaction is returned unsigned; a
\* signature that cannot be decoded throws after the build.
MultiSigInput(in) ==
  /\ in.amount > 0 /\ in.memo \in {"none", "short"}
  /\ in.minSignatures \in 1 .. in.additionalSigners + 1

MultiSigPayment(in) ==
  When(MultiSigInput(in) /\ AssetOk(in.asset),
       <<"load", "build">> \o
         (IF Len(in.signatures) < in.minSignatures THEN <<>>
          ELSE IF "garbled" \in Range(in.signatures) THEN <<"throw">>
          ELSE <<"submit">>))

PathPaymentInput(in) == in.sendAmount > 0 /\ in.destMinAmount > 0

\* The path is looked up when none is given; a bad memo throws in buildTx.
PathPayment(in) ==
  When(/\ PathPaymentInput(in)
       /\ in.allowSelfPayment \/ in.destination # "agent"
       /\ \A a \in {in.sendAsset, in.destAsset} \cup Range(in.path) : AssetOk(a),
       (IF in.path = <<>> THEN <<"query">> ELSE <<>>) \o
         IF MemoOk(in.memoType, in.memo) THEN <<"load", "build", "submit_recover">>
         ELSE <<"load", "throw">>)

SwapInput(in) == in.sellAmount > 0 /\ in.maxSlippagePct \in 0 .. 100

\* The best quote; between equal ones reduce() keeps the first.
BestQuote(quotes) ==
  quotes[CHOOSE i \in DOMAIN quotes :
           \A j \in DOMAIN quotes : /\ quotes[i].amount >= quotes[j].amount
                                    /\ j < i => quotes[i].amount > quotes[j].amount]

\* A swap is a path payment to the agent itself along the best quoted path.  A
\* best quote without intermediate assets gives an empty path, for which the
\* path payment looks for paths again.
Swap(in) ==
  LET best  == BestQuote(in.quotes)
      worst == CHOOSE q \in Range(in.quotes) : \A r \in Range(in.quotes) : q.amount <= r.amount
  IN  When(/\ SwapInput(in) /\ AssetOk(in.sellAsset) /\ AssetOk(in.buyAsset),
           <<"query">> \o
           When(/\ in.quotes # <<>>
                /\ best.amount > 0
                /\ (best.amount - worst.amount) * 100 <= in.maxSlippagePct * best.amount,
                PathPayment([destination |-> "agent", sendAsset |-> in.sellAsset,
                             sendAmount |-> in.sellAmount, destAsset |-> in.buyAsset,
                             destMinAmount |-> best.amount * (100 - in.maxSlippagePct),
                             path |-> best.path, allowSelfPayment |-> TRUE,
                             memoType |-> "text", memo |-> "none"])))

-----------------------------------------------------------------------------
(* Other classic transactions.                                             *)

DexOfferInput(in) ==
  /\ in.amount > 0 /\ in.price >= 0
  /\ in.action \in {"update", "delete"} => in.offerId # 0

\* An existing offer is looked for before it is changed.
DexOffer(in) ==
  When(/\ DexOfferInput(in) /\ AssetOk(in.selling) /\ AssetOk(in.buying),
       (IF in.action = "create" THEN <<>> ELSE <<"query">>) \o Transact)

LiquidityPoolInput(in) ==
  CASE in.action = "deposit"  -> in.maxAmountA > 0 /\ in.maxAmountB > 0
    [] in.action = "withdraw" -> in.amount > 0
    [] in.action = "info"     -> TRUE
    [] OTHER                  -> FALSE

LiquidityPool(in) ==
  When(LiquidityPoolInput(in), IF in.action = "info" THEN <<"query">> ELSE Transact)

ClaimableBalanceInput(in) == in.action = "create" => in.claimants > 0

\* The account is loaded first in both cases: the SDK refuses a bad asset or
\* amount only after that, and the claimant is verified while it is held.
ClaimableBalance(in) ==
  When(ClaimableBalanceInput(in),
       IF in.action = "claim" THEN <<"load", "query", "build", "submit">>
       ELSE IF AssetOk(in.asset) /\ in.amount > 0 THEN Transact ELSE <<"load", "throw">>)

FeeBumpInput(in) == in.baseFeeMultiplier >= 2

\* The inner transaction carries its own sequence number.
FeeBump(in) ==
  When(/\ FeeBumpInput(in)
       /\ in.inner = "transaction"                     \* not garbled, not a fee bump
       /\ in.sourceSignature \in {"none", "ours"},     \* not of another network
       <<"submit_inner">>)

DataEntryInput(in) == in.nameLength \in 1 .. 64 /\ in.valueLength \in 0 .. 64

\* Reads of another account do not touch the agent's record.
DataEntry(in) ==
  When(DataEntryInput(in),
       CASE in.action \in {"set", "delete"} -> Transact
         [] in.account = "agent"            -> <<"read">>
         [] OTHER                           -> <<"lookup">>)

InflationInput(in) == in.account # "invalid"

Inflation(in) ==
  When(InflationInput(in),
       CASE in.action = "set"     -> Transact
         [] in.account = "agent"  -> <<"read">>
         [] OTHER                 -> <<"lookup">>)

SequenceNumberInput(in) == in.account # "invalid" /\ in.bumpTo > 0

SequenceNumber(in) ==
  When(SequenceNumberInput(in),
       CASE in.action = "bump"   -> <<"refresh", "build", "submit">>
         [] in.account = "agent" -> <<"refresh">>
         [] OTHER                -> <<"lookup">>)

SponsoredAccountInput(in) == in.account # "invalid"

\* A starting balance the SDK refuses is noticed after the account is loaded;
\* a co-signature that is not XDR is taken for a raw one.
SponsoredAccount(in) ==
  When(SponsoredAccountInput(in),
       IF in.startingBalance >= 0 THEN Transact ELSE <<"load", "throw">>)

TrustlineInput(in) == in.asset = "issued"

\* The balance that forbids a removal is read through the account cache while
\* the account record of the transaction is already held.
Trustline(in) ==
  When(TrustlineInput(in),
       CASE in.action = "add"  -> Transact
         [] in.balance > 0     -> <<"load", "read", "throw">>
         [] OTHER              -> <<"load", "read", "build", "submit">>)

SetOptionsInput(in) == \A w \in in.weights : w \in 0 .. 255

SetOptions(in) == When(SetOptionsInput(in), Transact)

\* The memo of multi_op goes through String(): a number is a text, too.
MultiOpMemoOk(memoType, memo) ==
  MemoOk(memoType, memo) \/ (memoType = "text" /\ memo \in {"u64", "negative"})

\* taskToOperation.  An asset without an issuer is taken for XLM, and what the
\* SDK accepts decides about the rest.
OperationOk(op) ==
  CASE op.type \in {"payment", "path_payment", "path_payment_strict_send"} -> op.amount > 0
    [] op.type \in {"dex_offer", "change_trust", "create_account"} ->
         op.amount >= 0 \/ op.action \in {"delete", "remove"}
    [] OTHER -> op.known

MultiOp(in) ==
  When(/\ in.operations # <<>>
       /\ \A op \in Range(in.operations) : OperationOk(op),
       IF ~MultiOpMemoOk(in.memoType, in.memo) THEN <<"load", "throw">>
       ELSE IF in.simulateOnly THEN <<"load", "build">> ELSE Transact)

-----------------------------------------------------------------------------
(* Contracts.                                                              *)

\* extractSacTransferTotal: what the simulated events take from the agent.
Debit(event) ==
  IF /\ event.successful
     /\ event.name \in {"transfer", "transfer_from", "burn"}
     /\ event.from = "agent"
  THEN event.amount ELSE 0

SacTransferTotal(events) == Total([i \in DOMAIN events |-> Debit(events[i])])

\* assertSacTransfersWithinSpendingLimit: what is left to do when it passes.
AssertSacTransfers(total, record) ==
  CASE total <= 0                   -> <<>>
    [] total > AGENT_SPENDING_LIMIT -> <<"throw">>
    [] record                       -> <<"spend">>
    [] OTHER                        -> <<>>

\* Mutant of SorobanInvoke: the transfers are counted once they are confirmed.
MutCountLate(in) ==
  <<"load", "build", "simulate">> \o
    When(in.fee <= MAX_SOROBAN_FEE_STROOPS,
         (IF in.simulateOnly THEN <<>> ELSE <<"send", "poll">>)
           \o AssertSacTransfers(SacTransferTotal(in.events), ~in.simulateOnly))

SorobanInvoke(in) ==
  <<"load", "build", "simulate">> \o
    When(in.fee <= MAX_SOROBAN_FEE_STROOPS,
         AssertSacTransfers(SacTransferTotal(in.events), ~in.simulateOnly)
           \o (IF in.simulateOnly THEN <<>> ELSE <<"send", "poll">>))

SorobanQuery(in) == <<"load", "build", "simulate">>

\* The code is uploaded before the contract is created from it.
SorobanDeploy(in) ==
  When(IF in.action = "instantiate" THEN in.wasmHash # "none" ELSE in.wasm # "none",
       IF in.action = "deploy" THEN <<"query", "query">> ELSE <<"query">>)

SorobanStorage(in) == When(in.keys # "invalid", <<"query">>)

\* Tools that only read.
AccountInfo(in) == <<"read">>
BalanceCheck(in) ==
  When(in.account # "invalid", IF in.account = "agent" THEN <<"read">> ELSE <<"lookup">>)
AccountHistory(in) == When(in.limit \in 1 .. 200, <<"query">>)

\* A file that is cached is returned at once; the request of the others may fail.
StellarToml(in) == When(in.domain # "none", <<"lookup">>)
AnchorQuote(in) == When(in.url # "none" /\ in.amount # "none", <<"lookup">>)
=============================================================================
