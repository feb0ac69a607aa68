------------------------------ MODULE MCUplink ------------------------------
(* Small instances of Uplink for TLC: two keys, a call that can be sent and     *)
(* one that cannot, intervals on both sides of the limits.                      *)
EXTENDS UplinkHistory

S(p, v) == [param |-> p, val |-> v]
Cfg(m, ps) == [kind |-> "cfg", name |-> m, pairs |-> ps]
Cmd(c) == [kind |-> "cmd", name |-> c, pairs |-> <<>>]

MCStored ==
  [p \in Param |-> CASE p = "check_auth" -> On
                     [] p \in {"altmax_meters", "altmax_timeout"} -> 1
                     [] p = "aprs_interval" -> 2
                     [] OTHER -> 1]

MCLoads ==
  {Cfg("radio", <<S("check_auth", Off), S("sign_key", 2)>>),
   Cfg("radio", <<S("sign_key", 2), S("check_auth", On)>>),
   Cfg("radio", <<S("aprs_interval", 9), S("check_auth", Junk)>>),
   Cfg("cutoff", <<S("altmax_meters", 2), S("altmax_timeout", 2)>>),
   Cfg("cutoff", <<S("altmax_meters", 1), S("aprs_interval", 1)>>),
   Cfg("radio", <<S("aprs_interval", 9), S("aprs_interval", 0)>>),
   Cfg("radio", <<S("send_call", 2)>>), Cfg("radio", <<S("send_call", 1)>>),
   Cfg("radio", <<>>), Cfg("unknown", <<S("unknown", 1)>>),
   Cmd("ping"), Cmd("reset"), Cmd("wrongreset"), Cmd("unknown")}
=============================================================================
