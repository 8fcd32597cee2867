------------------------------- MODULE MCSetup -------------------------------
(***************************************************************************)
(* Instances of Setup over the few texts the properties can tell apart.    *)
(* What the Go library does to them is written down as tables; a text that *)
(* is not in a table comes back as it is.  A duration is 11 bits wide,     *)
(* with 8 units to the second: 128 seconds are too many.                   *)
(***************************************************************************)
EXTENDS Setup, TLC

Look(table, text) == IF text \in DOMAIN table THEN table[text] ELSE text

MCTrim(text) ==
    Look((" " :> "") @@ (" pve/ " :> "pve/") @@ (" Lan " :> "Lan") @@
         (" A , b," :> "A , b,") @@ (" Y " :> "Y"), text)

MCLower(text) ==
    Look((" Lan " :> " lan ") @@ ("Lan" :> "lan") @@ ("Y" :> "y") @@ ("TEXT" :> "text"), text)

MCUnslash(text) == Look(("pve/" :> "pve") @@ ("/" :> ""), text)

MCItems(text) ==
    CASE text \in {"", " "}                  -> <<>>
      [] text \in {" A , b,", "A , b,", "a,b"} -> <<"a", "b">>
      [] text = "qemu,lxc"                   -> <<"qemu", "lxc">>
      [] text = "guest-agent,description,cloudinit" -> <<"guest-agent", "description", "cloudinit">>
      [] text = "config,description"         -> <<"config", "description">>
      [] text = "dns_ip,ip"                  -> <<"dns_ip", "ip">>
      [] text = "dns_name,name"              -> <<"dns_name", "name">>
      [] OTHER                               -> <<MCLower(MCTrim(text))>>

MCJoined(items) ==
    CASE Len(items) = 0 -> ""
      [] Len(items) = 1 -> items[1]
      [] Len(items) = 2 -> items[1] \o "," \o items[2]
      [] Len(items) = 3 -> items[1] \o "," \o items[2] \o "," \o items[3]

MCBoolOf(text) ==
    CASE text \in {"true", "1"}  -> TRUE
      [] text \in {"false", "0"} -> FALSE
      [] OTHER                   -> Unparsable

Numbers == {0, 60, 100, 130}

MCItoa(n) == ToString(n)

MCIntOf(text) ==
    IF \E n \in Numbers : ToString(n) = text
      THEN CHOOSE n \in Numbers : ToString(n) = text
      ELSE Unparsable

\* At each question: what is accepted, and what is asked again.
MCLines(topic) ==
    CASE topic \in {"overwrite", "write"} -> {"", " Y ", "n", "maybe"}
      [] topic = "proxmoxURL"     -> {" pve/ ", "/", " "}
      [] topic = "verifyTLS"      -> {"n"}
      [] topic = "suffix"         -> {" Lan "}
      [] topic = "requireRunning" -> {"", "maybe"}
      [] topic = "excludeTags"    -> {"", " A , b,"}
      [] topic = "seconds"        -> {"", "0", "maybe", "130"}
      [] topic = "stateFile"      -> {""}
      [] OTHER                    -> {"x"}

\* Only what Load cannot do without.
Credentials ==
    [v \in Vars |->
        IF v \in {"PROXMOX_URL", "PROXMOX_TOKEN_ID", "PROXMOX_TOKEN_SECRET",
                  "ADGUARD_URL", "ADGUARD_USERNAME", "ADGUARD_PASSWORD"}
          THEN "x" ELSE Blank]

\* Something stale in every variable.
Stale ==
    [v \in Vars |->
        CASE v \in {"DRY_RUN", "PROXMOX_VERIFY_TLS", "FILTER_REQUIRE_RUNNING"} -> "false"
          [] v = "SYNC_INTERVAL_SECONDS" -> "130"
          [] v = "LOG_LEVEL"             -> "info"
          [] v = "LOG_FORMAT"            -> "TEXT"
          [] v = "LOG_JSON"              -> "maybe"
          [] v = "FILTER_INCLUDE_TYPES"  -> "qemu,lxc"
          [] v \in {"DISCOVERY_VM_ORDER", "DISCOVERY_LXC_ORDER"} -> "config,description"
          [] OTHER                       -> "stale"]

\* A dry run that is neither on nor off.
Broken == [Credentials EXCEPT !.DRY_RUN = "maybe"]

MCAmbients == {Unset, Credentials, Stale, Broken}

MCHandWritten == { "DRY_RUN" :> "false", "FILTER_INCLUDE_TAGS" :> "a,b" }

MCText ==
    {"", " ", " pve/ ", "pve/", "pve", "/", " Lan ", "Lan", " lan ", "lan", " Y ", "Y", "y", "n", "x",
     " A , b,", "A , b,", "a,b", "true", "false", "maybe", "0", "60", "100", "130", "stale",
     "TEXT", "text", "info", "internal", "./data/state.json", "qemu,lxc",
     "guest-agent,description,cloudinit", "config,description", "dns_ip,ip", "dns_name,name"}
=============================================================================
