------------------------------ MODULE MCReports ------------------------------
(***************************************************************************)
(* Instances of Reports for TLC.  The times are small numbers; the         *)
(* thresholds are the code's, or smaller where it wants many calls.        *)
(***************************************************************************)
EXTENDS Reports, Roster

\* The rows of the methods the feeds call; z_getbalanceforaccount has none.
Categories ==
  [m \in {"z_sendmany", "z_listunspent", "gettxout", "getblock", "generate"} |->
     RosterEntries[m].category]

Call(via, phase, intent, answer, ms, at) ==
  [via |-> via, phase |-> phase, intent |-> intent, answer |-> answer, ms |-> ms, at |-> at]
Sample(name, value, process) == [run |-> 1, name |-> name, value |-> value, process |-> process]
Intent(flow, kind, text) == [flow |-> flow, kind |-> kind, text |-> text]

Sent(intents) ==
  {Call("z_send_many_attempt", "load", i, c, 40, 0)
     : i \in intents, c \in {"result", "insufficient", "transport"}}

\* Sends that fail for good (a transport error has no code) or are tried again, the tolerated
\* failure of warm-up, the same error in the load, an answer of null that is a failure and
\* one that is none, and calls the roster or the phases leave out, in two runs.
Attempted ==
  [lines |-> 3, runs |-> 2, ticks |-> 0,
   calls |-> Sent({"i1"})
      \cup {Call("z_list_unspent", "warmup", Unlinked, "get_memo", 40, 0),
            Call("z_list_unspent", "load", Unlinked, "get_memo", 40, 0),
            Call("get_tx_out", "load", Unlinked, "null", 40, 0),
            Call("get_block", "drain", Unlinked, "null", 40, 0),
            Call("z_get_balance_for_account", "unknown", Unlinked, "result", 40, 0)},
   samples |-> {}, outcomes |-> {}, sweeping |-> {}]

\* Sends of two intents, interleaved; one of them sweeps before it pays out.
Interleaved ==
  [lines |-> 5, runs |-> 1, ticks |-> 0, calls |-> Sent({"i1", "i2"}), sweeping |-> {"i1"},
   samples |-> {}, outcomes |-> {}]

\* Latencies on both sides of the thresholds.
Timed ==
  [lines |-> 4, runs |-> 1, ticks |-> 0,
   calls |-> {Call(m, "load", Unlinked, "result", ms, 0) : m \in {"z_send_many", "generate"},
                                                       ms \in {40, 1000, 6000}},
   samples |-> {}, outcomes |-> {}, sweeping |-> {}]

\* Requests of three windows, answered soon or late.
Spread ==
  [lines |-> 4, runs |-> 1, ticks |-> 0,
   calls |-> {Call("z_send_many", "load", Unlinked, c, ms, at) :
                c \in {"result", "other"}, ms \in {10, 40}, at \in {0, 1, 3}},
   samples |-> {}, outcomes |-> {}, sweeping |-> {}]

\* Outcomes of every class.
Settled ==
  [lines |-> 3, runs |-> 2, ticks |-> 0,
   calls |-> {}, samples |-> {}, sweeping |-> {},
   outcomes |-> {Intent("ZToZ", "ok", "none"), Intent("ZToZ", "timedOut", "operation"),
                 Intent("ZToT", "timedOut", "tx"), Intent("ZToT", "failed", "already spent"),
                 Intent("ZToT", "failed", "Insufficient balance"), Panicked}]

\* Samples of every kind the report looks at.
Sampled ==
  [lines |-> 3, runs |-> 2, ticks |-> 0,
   calls |-> {}, outcomes |-> {Intent("ZToT", "timedOut", "tx")}, sweeping |-> {},
   samples |-> {Sample("mempool_saturated", 1, "none"), Sample("mempool_saturated", 0, "none"),
                Sample("mempool_tx_count", 3, "none"), Sample("mempool_tx_count", 5, "none"),
                Sample("process_cpu_percent", 20, "zebrad"),
                Sample("shielded_proving_time_ms", 7, "none")}]

\* Time alone.
Clocked == [lines |-> 0, runs |-> 1, ticks |-> 7, calls |-> {}, samples |-> {}, outcomes |-> {}, sweeping |-> {}]

AllFeeds ==
  [attempted |-> Attempted, interleaved |-> Interleaved, timed |-> Timed,
   spread |-> Spread, settled |-> Settled, sampled |-> Sampled, clocked |-> Clocked]
=============================================================================
