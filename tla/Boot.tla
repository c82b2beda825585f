------------------------------- MODULE Boot -------------------------------
(***************************************************************************)
(* From a reset to the main loop and back: main(), the reset cause, the    *)
(* watchdog's start and the RESET command.                                 *)
(*                                                                         *)
(* A reset may come at any step.  It leaves the flags of RCC->CSR and the  *)
(* backup register behind, for reset_get_type to read after the next boot, *)
(* and _main_task clears them one after the other.                         *)
(***************************************************************************)
EXTENDS FiniteSets

CONSTANTS
    Causes,   \* resets from outside: a subset of {"power", "pin", "brownout"}
    Failing   \* inits that may call Error_Handler: a subset of {"rng", "spi"}

ASSUME BootAssumption ==
    /\ Causes \subseteq {"power", "pin", "brownout"}
    /\ Failing \subseteq {"rng", "spi"}

VARIABLES
    pc,         \* where main() and _main_task are
    csr,        \* reset flags of RCC->CSR
    wdid,       \* GPREG_WDID: "RQ" is GPREG_WDID_REBOOT_RQ
    iwdg,       \* the watchdog: off, 20 seconds, as fast as possible
    reset_type,
    connected,  \* usb_device_connected
    banner,     \* what has become of "# RESET TYPE: ..."
    since       \* what has happened since its trace was last cleared (history)

vars == <<pc, csr, wdid, iwdg, reset_type, connected, banner, since>>

-----------------------------------------------------------------------------
Init ==
    /\ pc = "clock"
    /\ csr = {"BOR"}
    /\ wdid = "0"
    /\ iwdg = "off"
    /\ reset_type = "POWER_ON"
    /\ connected = FALSE
    /\ banner = "none"
    /\ since = {"power"}

(* main() from the start: the watchdog is off, RAM is initialised. *)
Restart ==
    /\ pc' = "clock"
    /\ iwdg' = "off"
    /\ reset_type' = "POWER_ON"
    /\ connected' = FALSE
    /\ banner' = "none"

(* The supply comes back: the backup domain is new as well. *)
PowerOn ==
    /\ "power" \in Causes
    /\ Restart
    /\ csr' = {"BOR"} /\ wdid' = "0"
    /\ since' = {"power"}

(* The supply dips, or the reset pin is pulled. *)
External(cause, flag) ==
    /\ cause \in Causes
    /\ Restart
    /\ csr' = csr \cup {flag, "PIN"}
    /\ since' = since \cup {cause}
    /\ UNCHANGED wdid

(* The watchdog is not fed: not while the program hangs or waits for the reset it
   has asked for.  A loop that stays away too long is MainLoop's subject.  *)
Bite ==
    /\ iwdg # "off"
    /\ pc \in {"hang", "spin", "loop"}
    /\ Restart
    /\ csr' = csr \cup {"IWDG", "PIN"}
    /\ since' = since \cup {"bite"}
    /\ UNCHANGED wdid

-----------------------------------------------------------------------------
Step(from, to) == pc = from /\ pc' = to

(* sys_init, sys_clock_config *)
Clock ==
    /\ Step("clock", "rng")
    /\ UNCHANGED <<csr, wdid, iwdg, reset_type, connected, banner, since>>

(* MX_RNG_Init: an error ends in Error_Handler.  MX_RNG_WarmUp never does. *)
Rng ==
    /\ \/ Step("rng", "wd")
       \/ "rng" \in Failing /\ Step("rng", "hang")
    /\ UNCHANGED <<csr, wdid, iwdg, reset_type, connected, banner, since>>

\* mutant: the watchdog stays off
WdRunNot ==
    /\ Step("wd", "type")
    /\ UNCHANGED <<csr, wdid, iwdg, reset_type, connected, banner, since>>

WdRun ==
    /\ Step("wd", "type")
    /\ iwdg' = "slow"
    /\ UNCHANGED <<csr, wdid, reset_type, connected, banner, since>>

\* mutant: the flags are looked at first
TypeFlagsFirst ==
    CASE csr \cap {"IWDG", "WWDG"} # {} -> "WDT"
      [] csr \cap {"IWDG", "WWDG"} = {} /\ wdid = "RQ" -> "USER_RQ"
      [] OTHER -> "POWER_ON"

(* reset_get_type *)
Type ==
    CASE wdid = "RQ" -> "USER_RQ"
      [] wdid # "RQ" /\ csr \cap {"IWDG", "WWDG"} # {} -> "WDT"
      [] wdid # "RQ" /\ csr \cap {"IWDG", "WWDG"} = {} /\ "LPWR" \in csr -> "BOD"
      [] OTHER -> "POWER_ON"

GetType ==
    /\ Step("type", "banner")
    /\ reset_type' = Type
    /\ UNCHANGED <<csr, wdid, iwdg, connected, banner, since>>

(* timer_init, tty_init, OS_PUTTEXT: nothing is sent without a connection. *)
Banner ==
    /\ Step("banner", "rmvf")
    /\ banner' = IF connected THEN "sent" ELSE "lost"
    /\ UNCHANGED <<csr, wdid, iwdg, reset_type, connected, since>>

(* reset_clear: the flags, *)
ClearFlags ==
    /\ Step("rmvf", "wdid")
    /\ csr' = {}
    /\ since' = since \cap {"request"}
    /\ UNCHANGED <<wdid, iwdg, reset_type, connected, banner>>

\* mutant: the backup register is left as it is
ClearWdidNot ==
    /\ Step("wdid", "usb")
    /\ since' = since \ {"request"}
    /\ UNCHANGED <<csr, wdid, iwdg, reset_type, connected, banner>>

(* and the backup register *)
ClearWdid ==
    /\ Step("wdid", "usb")
    /\ wdid' = "0"
    /\ since' = since \ {"request"}
    /\ UNCHANGED <<csr, iwdg, reset_type, connected, banner>>

(* led_init, usb_device_init, spi1_init: an error ends in Error_Handler. *)
InitDevices ==
    /\ \/ Step("usb", "loop")
       \/ "spi" \in Failing /\ Step("usb", "hang")
    /\ UNCHANGED <<csr, wdid, iwdg, reset_type, connected, banner, since>>

(* The host configures the device, once there is one, or goes. *)
Connect ==
    /\ pc = "loop"
    /\ connected' = ~connected
    /\ UNCHANGED <<pc, csr, wdid, iwdg, reset_type, banner, since>>

(* The RESET command, wd_reset: the reason is written, *)
Request ==
    /\ Step("loop", "request")
    /\ wdid' = "RQ"
    /\ since' = since \cup {"request"}
    /\ UNCHANGED <<csr, iwdg, reset_type, connected, banner>>

(* the watchdog is set to its fastest, and the program waits for it *)
Hasten ==
    /\ Step("request", "spin")
    /\ iwdg' = "fast"
    /\ UNCHANGED <<csr, wdid, reset_type, connected, banner, since>>

Boots ==
    \/ Clock \/ Rng \/ WdRun \/ GetType \/ Banner
    \/ ClearFlags \/ ClearWdid \/ InitDevices \/ Hasten

Next ==
    \/ Boots \/ Connect \/ Request \/ Bite
    \/ PowerOn \/ External("pin", "PIN") \/ External("brownout", "BOR")

Spec == Init /\ [][Next]_vars

(* The program goes on, and a watchdog that runs and is not fed bites. *)
FairSpec == Spec /\ WF_vars(Boots) /\ WF_vars(Bite)

-----------------------------------------------------------------------------
Places == {"clock", "rng", "wd", "type", "banner", "rmvf", "wdid", "usb", "loop",
           "request", "spin", "hang"}

TypeOK ==
    /\ pc \in Places
    /\ csr \subseteq {"PIN", "BOR", "IWDG"}
    /\ wdid \in {"0", "RQ"}
    /\ iwdg \in {"off", "slow", "fast"}
    /\ reset_type \in {"POWER_ON", "USER_RQ", "WDT", "BOD"}
    /\ connected \in BOOLEAN
    /\ banner \in {"none", "sent", "lost"}
    /\ since \subseteq {"power", "pin", "brownout", "bite", "request"}

Known == pc \in {"banner", "rmvf", "wdid"}

(* The type has been read for the banner, and no trace of a cause is cleared. *)
Told == pc \in {"banner", "rmvf"}

(* A reset of the watchdog that nobody asked for is reported as one, and nothing
   else is: not after the next boot, nor after a reset in the middle of a boot or
   between the two steps of reset_clear; and USER_RQ is reported of a request only
   (reset.c:5-31).  Of POWER_ON nothing is claimed: see BrownoutNamed.     *)
WatchdogReported ==
    Told =>
        /\ reset_type = "WDT" <=> "bite" \in since /\ "request" \notin since
        /\ reset_type = "USER_RQ" => "request" \in since

(* A RESET that the host asked for is reported, not the watchdog that carried it
   out, even if the boot after it is itself interrupted (reset.c:11).      *)
RequestReported ==
    (Known /\ "request" \in since) => reset_type = "USER_RQ"

(* An error of a device's init behind wd_run is not final: the program comes back.
   Of MX_RNG_Init, before it (main.c:93), this says nothing.               *)
DeviceErrorsPass == (pc = "usb") ~> (pc \in {"loop", "clock"})

(* reset.h:9, main.c:329: a reset by a brown-out has a type and a text of its own.
   reset.c:19 tests the flag of another cause for it.                      *)
BrownoutNamed == (Told /\ since = {"brownout"}) => reset_type = "BOD"

(* BUILD_AND_FLASH.md:98: "Once connected, you should see: ... # RESET TYPE: ...". *)
BannerSeen == connected => banner = "sent"
=============================================================================
