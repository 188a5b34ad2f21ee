-------------------------------- MODULE Roster --------------------------------
(***************************************************************************)
(* The methods the compatibility matrix has a row for (IN_SCOPE_METHODS of *)
(* report/rpc_matrix.rs), and what binds that hand-written table to the    *)
(* client's own (RpcClient).                                               *)
(***************************************************************************)
EXTENDS RpcClient, TLC

LOCAL INSTANCE Functions

Entries(methods, category, backends) ==
  [m \in methods |-> [category |-> category, backends |-> backends]]

ChainRoster ==
  Entries({"getblockchaininfo", "getblockcount", "getbestblockhash", "getbestblockheightandhash",
           "getblock", "getblockhash", "getblockheader", "gettxout", "getaddressbalance",
           "getaddresstxids", "getaddressutxos", "getrawmempool", "getmempoolinfo",
           "getblocktemplate", "submitblock"}, "Stress", {"zebra"})
    @@ Entries({"getrawtransaction"}, "Stress", {"zebra", "zallet"})

NodeRoster ==
  Entries({"getblocksubsidy", "getdifficulty", "getmininginfo", "getnetworkhashps",
           "getnetworksolps", "getnetworkinfo", "getinfo", "addnode", "ping",
           "validateaddress", "z_validateaddress"}, "Smoke", {"zebra"})
    @@ Entries({"getpeerinfo", "z_gettreestate", "z_getsubtreesbyindex", "sendrawtransaction"},
               "Stress", {"zebra"})
    @@ Entries({"z_listunifiedreceivers", "rpc.discover", "stop"}, "Smoke", {"zebra", "zallet"})
    @@ Entries({"generate", "invalidateblock", "reconsiderblock"}, "RegtestControl", {"zebra"})

WalletRoster ==
  Entries({"z_getnewaccount", "z_getaddressforaccount", "z_listaccounts", "z_getaccount",
           "listaddresses", "z_gettotalbalance", "z_sendmany", "z_getoperationstatus",
           "z_getoperationresult", "z_listoperationids", "z_listunspent", "z_listtransactions",
           "z_getnotescount", "z_viewtransaction", "z_recoveraccounts"}, "Stress", {"zallet"})
    @@ Entries({"getwalletinfo", "walletlock", "walletpassphrase", "help"}, "Smoke", {"zallet"})

RosterEntries == ChainRoster @@ NodeRoster @@ WalletRoster

\* A row's label names the backend the router sends its method to.
ASSUME LabelsFollowRouting ==
  \A m \in DOMAIN RosterEntries \cap (RoutedToZebra \cup RoutedToZallet) :
    BackendFor(NoOverride, m) \in RosterEntries[m].backends

\* Of the methods the client calls two have no row: the report shows them apart.
ASSUME TwoMethodsUnlisted ==
  (UNION {Range(t) : t \in Operations}) \ DOMAIN RosterEntries
    = {"z_getbalanceforaccount", "z_shieldcoinbase"}
===============================================================================
