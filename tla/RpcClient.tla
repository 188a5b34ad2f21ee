----------------------------- MODULE RpcClient -----------------------------
(***************************************************************************)
(* The typed JSON-RPC client (rpc/mod.rs): which method each of its        *)
(* operations calls, the backend the router sends it to, and the record it *)
(* leaves of each answer.  Parameters are left out.                        *)
(***************************************************************************)
LOCAL INSTANCE Functions

RoutedToZebra ==
  {"getblockchaininfo", "getblockcount", "getbestblockhash", "getbestblockheightandhash",
   "getblock", "getblockhash", "getblockheader", "getblocktemplate", "getrawmempool",
   "getmempoolinfo", "getrawtransaction", "gettxout", "getaddressbalance", "getaddresstxids",
   "getaddressutxos", "getpeerinfo", "sendrawtransaction", "submitblock", "z_gettreestate",
   "z_getsubtreesbyindex", "generate", "invalidateblock", "reconsiderblock",
   "validateaddress", "z_validateaddress"}

RoutedToZallet ==
  {"z_listunifiedreceivers", "z_shieldcoinbase", "z_getnewaccount", "z_getaddressforaccount",
   "z_listaccounts", "z_getaccount", "listaddresses", "z_gettotalbalance",
   "z_getbalanceforaccount", "z_sendmany", "z_getoperationstatus", "z_getoperationresult",
   "z_listoperationids", "z_listunspent", "z_listtransactions", "z_getnotescount",
   "z_viewtransaction", "z_recoveraccounts", "getwalletinfo", "walletlock",
   "walletpassphrase"}

NoOverride == "none"

\* A client of Zaino's mirror overrides the table with "zaino".
BackendFor(override, method) ==
  IF override # NoOverride THEN override
  ELSE IF method \in RoutedToZebra THEN "zebra"
  ELSE IF method \in RoutedToZallet THEN "zallet"
  ELSE "unknown"

-----------------------------------------------------------------------------
(* The method of each operation. *)

ChainQueries ==
  [get_blockchain_info |-> "getblockchaininfo", get_block_count |-> "getblockcount",
   get_best_block_hash |-> "getbestblockhash", get_block |-> "getblock",
   get_block_hash |-> "getblockhash", get_block_header |-> "getblockheader",
   get_raw_mempool |-> "getrawmempool", get_mempool_info |-> "getmempoolinfo",
   get_raw_transaction |-> "getrawtransaction", get_tx_out |-> "gettxout",
   get_address_balance |-> "getaddressbalance", get_address_txids |-> "getaddresstxids",
   get_address_utxos |-> "getaddressutxos", get_peer_info |-> "getpeerinfo",
   send_raw_transaction |-> "sendrawtransaction", validate_address |-> "validateaddress",
   generate |-> "generate"]

ChainControls ==
  [invalidate_block |-> "invalidateblock", reconsider_block |-> "reconsiderblock",
   get_best_block_height_and_hash |-> "getbestblockheightandhash",
   get_block_template |-> "getblocktemplate", submit_block |-> "submitblock",
   z_get_treestate |-> "z_gettreestate", z_get_subtrees_by_index |-> "z_getsubtreesbyindex"]

Accounts ==
  [z_get_new_account |-> "z_getnewaccount",
   z_get_address_for_account |-> "z_getaddressforaccount",
   z_list_accounts |-> "z_listaccounts", z_get_account |-> "z_getaccount",
   list_addresses |-> "listaddresses", z_get_total_balance |-> "z_gettotalbalance",
   z_get_balance_for_account |-> "z_getbalanceforaccount"]

Sends ==
  [z_send_many |-> "z_sendmany", z_send_many_with_policy |-> "z_sendmany",
   z_send_many_attempt |-> "z_sendmany", z_shield_coinbase |-> "z_shieldcoinbase",
   z_list_unified_receivers |-> "z_listunifiedreceivers"]

WalletQueries ==
  [z_get_operation_status |-> "z_getoperationstatus",
   z_get_operation_result |-> "z_getoperationresult",
   z_list_operation_ids |-> "z_listoperationids", z_list_unspent |-> "z_listunspent",
   z_list_unspent_for_addresses |-> "z_listunspent", get_wallet_info |-> "getwalletinfo",
   z_get_notes_count |-> "z_getnotescount", z_list_transactions |-> "z_listtransactions",
   z_view_transaction |-> "z_viewtransaction", z_recover_accounts |-> "z_recoveraccounts"]

Operations == {ChainQueries, ChainControls, Accounts, Sends, WalletQueries}

MethodOf(operation) == (CHOOSE t \in Operations : operation \in DOMAIN t)[operation]

\* The names in the two tables are written twice, and none differs: no call is recorded with
\* an unknown backend.
ASSUME EveryMethodIsRouted ==
  \A t \in Operations : Range(t) \subseteq RoutedToZebra \cup RoutedToZallet

-----------------------------------------------------------------------------
(* One call. *)

\* The operations for which a null result is an answer (call_nullable).
Nullable == {"get_tx_out", "invalidate_block", "reconsider_block", "submit_block"}

\* What may come back for a call: a result, a null one, no answer at all, one that cannot be
\* parsed, or an error object with its code.
Unanswered == {"transport", "garbage"}

\* Only an error object has a code; every call is recorded.
Answered(operation, answer) ==
  LET ok == answer = "result" \/ (answer = "null" /\ operation \in Nullable)
      none == ok \/ answer = "null" \/ answer \in Unanswered
  IN [ok |-> ok, code |-> IF none THEN "none" ELSE answer]

\* Only z_send_many_attempt names the intent and the attempt it is made for.
IntentOf(operation, intent) == IF operation = "z_send_many_attempt" THEN intent ELSE "none"

\* The record of an answered call; the phase is the one its answer finds.
RpcCall(run, operation, intent, answer, phase, ms, at) ==
  LET outcome == Answered(operation, answer)
      method == MethodOf(operation)
  IN [run |-> run, method |-> method, backend |-> BackendFor(NoOverride, method), phase |-> phase,
      intent |-> IntentOf(operation, intent), attempt |-> 1,
      ok |-> outcome.ok, code |-> outcome.code, ms |-> ms, at |-> at]
=============================================================================
