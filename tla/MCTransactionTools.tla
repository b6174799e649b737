------------------------- MODULE MCTransactionTools -------------------------
(* Instances of TransactionTools for TLC: inputs that take every way through *)
(* the tools.                                                                *)
EXTENDS TransactionTools, TLC

Of(type, inputs) == {[type |-> type, in |-> i] : i \in inputs}

Pay(amount, asset, to, memo) ==
  [amount |-> amount, asset |-> asset, destination |-> to, memoType |-> "text", memo |-> memo]
Payments == Of("stellar_payment",
  {Pay(1, "XLM", "other", "none"), Pay(2, "issued", "other", "short"),
   Pay(1, "unissued", "other", "none"), Pay(1, "XLM", "agent", "none"),
   Pay(1, "XLM", "other", "long"), Pay(1, "XLM", "other", "u64"), Pay(0, "XLM", "other", "none"), Pay(3, "XLM", "other", "none")})

Batch(amounts) ==
  [payments |-> [i \in DOMAIN amounts |-> [amount |-> amounts[i], asset |-> "XLM"]]]
Batches == Of("batch_payment", {Batch(<<>>), Batch(<<1, 1>>), Batch(<<2, 1>>)})

MultiSig(signatures) ==
  [amount |-> 1, asset |-> "XLM", memo |-> "none", minSignatures |-> 2,
   additionalSigners |-> 2, signatures |-> signatures]
MultiSigs == Of("multisig_payment",
  {MultiSig(<<"ok">>), MultiSig(<<"ok", "ok">>), MultiSig(<<"ok", "garbled">>)})

Path(path, self, memo) ==
  [sendAmount |-> 1, destMinAmount |-> 1, allowSelfPayment |-> self, destination |-> "agent",
   sendAsset |-> "XLM", destAsset |-> "issued", path |-> path, memoType |-> "text", memo |-> memo]
Paths == Of("path_payment",
  {Path(<<>>, TRUE, "none"), Path(<<"issued">>, TRUE, "none"),
   Path(<<>>, FALSE, "none"), Path(<<>>, TRUE, "long")})

Quote(amount, path) == [amount |-> amount, path |-> path]
Sell(quotes) ==
  [sellAmount |-> 1, maxSlippagePct |-> 50, sellAsset |-> "XLM", buyAsset |-> "issued", quotes |-> quotes]
Swaps == Of("swap",
  {Sell(<<>>), Sell(<<Quote(1, <<>>), Quote(2, <<"issued">>)>>), Sell(<<Quote(1, <<>>), Quote(3, <<>>)>>)})

Others ==
  Of("dex_offer", {[action |-> a, offerId |-> 1, amount |-> 1, price |-> 1,
                    selling |-> "XLM", buying |-> "issued"] : a \in {"create", "delete"}})
  \cup Of("liquidity_pool", {[action |-> a, amount |-> 1, maxAmountA |-> 1, maxAmountB |-> 0]
                              : a \in {"deposit", "withdraw", "info"}})
  \cup Of("claimable_balance", {[action |-> a, claimants |-> 1, asset |-> "XLM", amount |-> m]
                                 : a \in {"create", "claim"}, m \in {0, 1}})
  \cup Of("fee_bump", {[baseFeeMultiplier |-> 2, inner |-> "transaction", sourceSignature |-> "none",
                        innerSequence |-> n] : n \in {0, 1}})
  \cup Of("data_entry", {[action |-> a, account |-> "agent", nameLength |-> 64, valueLength |-> 0]
                          : a \in {"set", "get"}})
  \cup Of("inflation", {[action |-> "get", account |-> a] : a \in {"agent", "other"}})
  \cup Of("sequence_number", {[action |-> a, account |-> "agent", bumpTo |-> 3] : a \in {"bump", "get"}})
  \cup Of("sponsored_account", {[account |-> "other", startingBalance |-> b] : b \in {-1, 0}})
  \cup Of("change_trust", {[action |-> "remove", asset |-> "issued", balance |-> b] : b \in {0, 1}})
  \cup Of("set_options", {[weights |-> {0, 255}]})
  \cup Of("multi_op", {[operations |-> <<[type |-> "payment", amount |-> 1]>>, memoType |-> "text",
                        memo |-> "none", simulateOnly |-> d] : d \in BOOLEAN})

Event(from, amount) ==
  [successful |-> TRUE, name |-> "transfer", from |-> from, amount |-> amount]
Invoke(events, dry, fee) == [events |-> events, simulateOnly |-> dry, fee |-> fee]
Contracts ==
  Of("soroban_invoke",
     {Invoke(<<Event("agent", 1), Event("other", 3)>>, FALSE, 1), Invoke(<<Event("agent", 2)>>, FALSE, 1),
      Invoke(<<Event("agent", 3)>>, FALSE, 1), Invoke(<<>>, FALSE, 1), Invoke(<<>>, FALSE, 2),
      Invoke(<<Event("agent", 1)>>, TRUE, 1)})
  \cup Of("soroban_query", {[method |-> "any"]})
  \cup Of("soroban_deploy", {[action |-> "deploy", wasm |-> "given", wasmHash |-> "none"]})
  \cup Of("soroban_storage", {[keys |-> "given"]})
  \cup Of("account_info", {[keys |-> "none"]})
  \cup Of("balance_check", {[account |-> "other"]})
  \cup Of("account_history", {[limit |-> 200]})
  \cup Of("stellar_toml", {[domain |-> "given"]})
  \cup Of("anchor_quote", {[url |-> "given", amount |-> "none"], [url |-> "given", amount |-> "given"]})

AllTasks == Payments \cup Batches \cup MultiSigs \cup Paths \cup Swaps \cup Others \cup Contracts
=============================================================================
