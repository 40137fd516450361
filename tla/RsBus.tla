-------------------------------- MODULE RsBus --------------------------------
(***************************************************************************)
(* The bus drivers, for SPI and for SDIO: the module registers a driver    *)
(* with the callbacks of the core; a probe allocates the interface,        *)
(* acquires what the device needs, downloads the firmware and starts the   *)
(* core, part by part; a remove undoes it, also for a probe that failed.   *)
(* Interrupts come at any time they are enabled.  On SPI a transfer is a   *)
(* command and a payload, each of which the chip acknowledges by an edge   *)
(* on a line of its own.                                                   *)
(*                                                                         *)
(* Sources: kal/linux/rs_k_spi.c, rs_k_sdio.c, core/rs_core.c,             *)
(* net/linux/rs_main_spi.c, rs_main_sdio.c, rs_net.c, rs_net_cfg80211.c    *)
(* (init and deinit), core/rs_c_if.c.  The kernel's bus and GPIO layers    *)
(* and the chip are external.  An interface (struct rs_c_if) is known by   *)
(* the number of the probe that allocated it, 0 is NULL.                   *)
(***************************************************************************)
EXTENDS Naturals, Sequences, SequencesExt, FiniteSets

CONSTANTS
  Bus,       \* "spi", "sdio", or both: the builds
  User,      \* threads that transfer
  MaxProbe,  \* bound: probes
  MaxXfer    \* bound: transfers

ASSUME UserAssumption  == "none" \notin User
ASSUME BusAssumption   == Bus \subseteq {"spi", "sdio"}
ASSUME BoundAssumption == MaxProbe \in Nat /\ MaxXfer \in Nat

VARIABLES
  bus,       \* the build
  mod,       \* the module is loaded
  if_cb,     \* the callbacks: "none" or "live"
  step,      \* what the bus's call to probe or remove does next, or "idle"
  nth,       \* at "up" and "down": which of the parts of the core, else 0
  bound,     \* a probe has succeeded and no remove has begun
  probes,    \* probes made
  c_if,      \* the interface the steps work on
  heap,      \* the interfaces allocated
  attached,  \* the device's drvdata
  dev,       \* c_if->if_dev.dev is set, and the operations with it
  held,      \* what was acquired, each for an interface
  noted,     \* dev_if_priv has the numbers of them
  core,      \* the parts of the core that are up
  booted,    \* the chip runs its firmware
  isr,       \* the interface an interrupt handler runs for
  claimed,   \* the SDIO host is claimed
  rescan,    \* the card is looked at again: rescan_disable is off, a rescan asked for
  leaked,    \* history: a failure left behind what nobody will free
  wiphy,     \* the stack's view of the device: "none", "new", "registered" or "dangling"
  xfer,      \* each user: where it is in its transfer
  lock,      \* owner of the device mutex
  flag,      \* state_change_flag
  edge,      \* the state line has risen and its handler has not run
  expects,   \* the chip: "cmd", "data", or "busy" with either
  late,      \* history: a wait for the state line has timed out
  garbled,   \* history: the chip was sent what it did not expect
  nxfer      \* transfers made

deviceVars == <<c_if, heap, attached, dev, held, noted, core, booted>>
xferVars   == <<xfer, lock, flag, edge, expects, late, garbled, nxfer>>
vars == <<bus, mod, if_cb, step, nth, bound, probes, deviceVars, isr, claimed, rescan, leaked, wiphy, xferVars>>

\* In the order they are acquired.
Lines == IF bus = "spi" THEN <<"irq_gpio", "reset_gpio", "irq", "state_gpio", "state_irq">> ELSE <<"irq">>
Resource == {"irq_gpio", "reset_gpio", "irq", "state_gpio", "state_irq"}

\* core_init and core_deinit
Parts       == <<"wq", "ctrl", "recovery", "indi", "rx_data", "rx", "tx", "status">>
DeinitOrder == <<"net", "wq", "tx", "rx", "rx_data", "indi", "recovery", "ctrl", "status">>
AllParts    == ToSet(DeinitOrder)

\* Where a call to probe, to remove or to the module's exit can be; "oops" is where it
\* follows a pointer to nothing, and stays.
Step == {"idle", "alloc", "init", "download", "enable", "up", "net_new", "net_ask", "net_register",
         "net_setup", "bind", "down", "claim", "detach", "release_irqs", "release_gpios", "clear",
         "free", "free_if_cb", "oops"}

Init ==
  /\ bus \in Bus
  /\ mod = FALSE /\ if_cb = "none"
  /\ step = "idle" /\ nth = 0 /\ bound = FALSE /\ probes = 0
  /\ c_if = 0 /\ heap = {} /\ attached = 0 /\ dev = FALSE
  /\ held = [r \in Resource |-> 0] /\ noted = FALSE
  /\ core = {} /\ booted = FALSE
  /\ isr = 0 /\ claimed = FALSE /\ rescan = FALSE /\ leaked = FALSE /\ wiphy = "none"
  /\ xfer = [u \in User |-> "idle"] /\ lock = "none"
  /\ flag = TRUE                    \* static, initialised to 1
  /\ edge = FALSE /\ expects = "cmd" /\ late = FALSE /\ garbled = FALSE /\ nxfer = 0

GoTo(there) == step' = there /\ nth' = 0

\* k_spi_rrq61000_remove and k_sdio_rrq61000_remove begin with core_deinit.
BeginRemove == step' = "down" /\ nth' = 1

NextUp   == IF nth < Len(Parts) THEN step' = step /\ nth' = nth + 1 ELSE GoTo("net_new")
NextDown ==
  IF nth < Len(DeinitOrder) THEN step' = step /\ nth' = nth + 1
                            ELSE GoTo(IF bus = "spi" THEN "detach" ELSE "claim")

-----------------------------------------------------------------------------
(* The module                                                              *)

\* rs_k_spi_init, rs_k_sdio_init: without memory for the callbacks the SPI driver
\* is not registered, and the module loaded all the same.
ModInit ==
  /\ ~mod /\ step = "idle"
  /\ mod' = TRUE
  /\ if_cb' \in {"none", "live"}
  /\ UNCHANGED <<bus, step, nth, bound, probes, deviceVars, isr, claimed, rescan, leaked, wiphy, xferVars>>

\* Mutant: the callbacks are freed before the device is removed.
BugModExit ==
  /\ mod /\ step = "idle"
  /\ mod' = FALSE
  /\ if_cb' = "none"
  /\ IF bound THEN BeginRemove ELSE GoTo("free_if_cb")
  /\ bound' = FALSE
  /\ c_if' = attached
  /\ UNCHANGED <<bus, probes, heap, attached, dev, held, noted, core, booted, isr, claimed,
                 rescan, leaked, wiphy, xferVars>>

\* rs_k_spi_deinit, rs_k_sdio_deinit: the driver is unregistered, which removes its
\* device, and then the callbacks freed.
ModExit ==
  /\ mod /\ step = "idle"
  /\ mod' = FALSE
  /\ IF bound THEN BeginRemove ELSE GoTo("free_if_cb")
  /\ bound' = FALSE
  /\ c_if' = attached
  /\ UNCHANGED <<bus, if_cb, probes, heap, attached, dev, held, noted, core, booted, isr, claimed,
                 rescan, leaked, wiphy, xferVars>>

FreeIfCb ==
  /\ step = "free_if_cb"
  /\ if_cb' = "none"
  /\ GoTo("idle")
  /\ UNCHANGED <<bus, mod, bound, probes, deviceVars, isr, claimed, rescan, leaked, wiphy, xferVars>>

-----------------------------------------------------------------------------
(* Probe                                                                   *)

\* The device appears, or is found again.
Probe ==
  /\ mod /\ step = "idle" /\ ~bound /\ probes < MaxProbe
  /\ bus = "spi" => if_cb = "live"
  /\ probes' = probes + 1
  /\ GoTo("alloc")
  /\ rescan' = FALSE
  /\ UNCHANGED <<bus, mod, if_cb, bound, deviceVars, isr, claimed, leaked, wiphy, xferVars>>

\* The interface, its buffers and its mutex.  Of an interface without buffers the
\* SPI probe goes on to the download and follows a NULL pointer there; the SDIO
\* probe calls remove, which finds no drvdata.
Alloc ==
  /\ step = "alloc"
  /\ \/ GoTo("idle") /\ c_if' = 0 /\ UNCHANGED <<heap, attached, dev, noted, leaked>>
     \/ /\ c_if' = probes /\ heap' = heap \cup {probes} /\ leaked' = TRUE
        /\ GoTo(IF bus = "spi" THEN "oops" ELSE "idle")
        /\ UNCHANGED <<attached, dev, noted>>
     \/ /\ c_if' = probes /\ heap' = heap \cup {probes}
        /\ attached' = probes /\ dev' = TRUE /\ noted' = FALSE
        /\ GoTo("init")
        /\ UNCHANGED leaked
  /\ UNCHANGED <<bus, mod, if_cb, bound, probes, held, core, booted, isr, claimed, rescan, wiphy, xferVars>>

\* k_spi_init: pins and interrupts one after another until one is refused (a pin
\* that was left behind still is what it was); nothing is given back, and only the
\* numbers of a complete set are kept.  The probe does not look at the result.
SpiInit ==
  /\ step = "init" /\ bus = "spi"
  /\ \E k \in 0..Len(Lines) :
       LET got == {Lines[i] : i \in 1..k}
           ok  == k = Len(Lines)
       IN  /\ \A r \in got : held[r] = 0
           /\ held' = [r \in Resource |-> IF r \in got THEN c_if ELSE held[r]]
           /\ noted' = ok
           /\ leaked' = (leaked \/ ~ok)
  /\ GoTo("download")
  /\ booted' = FALSE              \* by the reset line
  /\ UNCHANGED <<bus, mod, if_cb, bound, probes, c_if, heap, attached, dev, core, isr, claimed,
                 rescan, wiphy, xferVars>>

\* k_sdio_init, and rescan_disable for the download
SdioInit ==
  /\ step = "init" /\ bus = "sdio"
  /\ GoTo("download") \/ BeginRemove
  /\ booted' = FALSE              \* by the last remove, or the power
  /\ UNCHANGED <<bus, mod, if_cb, bound, probes, c_if, heap, attached, dev, held, noted, core, isr,
                 claimed, rescan, leaked, wiphy, xferVars>>

\* k_spi_fw_download: when the chip is still busy after the last of its polls the
\* download counts as done.
SpiDownload ==
  /\ step = "download" /\ bus = "spi"
  /\ \/ booted' \in BOOLEAN /\ GoTo("enable")
     \/ booted' = FALSE /\ BeginRemove
  /\ UNCHANGED <<bus, mod, if_cb, bound, probes, c_if, heap, attached, dev, held, noted, core, isr,
                 claimed, rescan, leaked, wiphy, xferVars>>

\* k_sdio_fw_download: the chip must acknowledge the size; of the polls for the
\* check of the image the last may find the chip as busy as the first.
SdioDownload ==
  /\ step = "download" /\ bus = "sdio"
  /\ \/ booted' \in BOOLEAN /\ GoTo("enable")
     \/ booted' = FALSE /\ BeginRemove
  /\ UNCHANGED <<bus, mod, if_cb, bound, probes, c_if, heap, attached, dev, held, noted, core, isr,
                 claimed, rescan, leaked, wiphy, xferVars>>

\* SPI's second spi_setup; k_sdio_enable_int, which claims the interrupt.  Without
\* callbacks, which SDIO allows, the probe fails.
Enable ==
  /\ step = "enable"
  /\ \/ /\ if_cb = "live"
        /\ held' = IF bus = "sdio" THEN [held EXCEPT !["irq"] = c_if] ELSE held
        /\ step' = "up" /\ nth' = 1
     \/ BeginRemove /\ UNCHANGED held
  /\ UNCHANGED <<bus, mod, if_cb, bound, probes, c_if, heap, attached, dev, noted, core, booted, isr,
                 claimed, rescan, leaked, wiphy, xferVars>>

\* Mutant: what the core says is not looked at.
BugInitPart ==
  /\ step = "up"
  /\ core' \in {core, core \cup {Parts[nth]}}
  /\ NextUp
  /\ UNCHANGED <<bus, mod, if_cb, bound, probes, c_if, heap, attached, dev, held, noted, booted, isr,
                 claimed, rescan, leaked, wiphy, xferVars>>

\* core_init: a part comes up, or the rest is not tried.
InitPart ==
  /\ step = "up"
  /\ \/ core' = core \cup {Parts[nth]} /\ NextUp
     \/ BeginRemove /\ UNCHANGED core
  /\ UNCHANGED <<bus, mod, if_cb, bound, probes, c_if, heap, attached, dev, held, noted, booted, isr,
                 claimed, rescan, leaked, wiphy, xferVars>>

\* The wiphy; without memory for it wiphy_free follows the NULL pointer.
NetNew ==
  /\ step = "net_new"
  /\ \/ wiphy' = "new" /\ GoTo("net_ask")
     \/ GoTo("oops") /\ UNCHANGED wiphy
  /\ UNCHANGED <<bus, mod, if_cb, bound, probes, deviceVars, isr, claimed, rescan, leaked, xferVars>>

\* The chip answers what rs_net_cfg80211_init asks of it.
ChipAnswers == booted /\ held["irq"] = c_if /\ "status" \in core /\ "rx" \in core

\* The chip is reset, asked for its version and configured.
NetAsk ==
  /\ step = "net_ask"
  /\ \/ ChipAnswers /\ GoTo("net_register") /\ UNCHANGED wiphy
     \/ wiphy' = "none" /\ BeginRemove
  /\ UNCHANGED <<bus, mod, if_cb, bound, probes, deviceVars, isr, claimed, rescan, leaked, xferVars>>

NetRegister ==
  /\ step = "net_register"
  /\ \/ wiphy' = "registered" /\ GoTo("net_setup")
     \/ wiphy' = "none" /\ BeginRemove
  /\ UNCHANGED <<bus, mod, if_cb, bound, probes, deviceVars, isr, claimed, rescan, leaked, xferVars>>

\* The channels and the first interface.  When one fails the wiphy is freed, still
\* registered, and nothing is left that could unregister it.
NetSetup ==
  /\ step = "net_setup"
  /\ \/ core' = core \cup {"net"} /\ GoTo("bind") /\ UNCHANGED <<wiphy, leaked>>
     \/ wiphy' = "dangling" /\ leaked' = TRUE /\ BeginRemove /\ UNCHANGED core
  /\ UNCHANGED <<bus, mod, if_cb, bound, probes, c_if, heap, attached, dev, held, noted, booted, isr,
                 claimed, rescan, xferVars>>

Bind ==
  /\ step = "bind"
  /\ bound' = TRUE
  /\ GoTo("idle")
  /\ UNCHANGED <<bus, mod, if_cb, probes, deviceVars, isr, claimed, rescan, leaked, wiphy, xferVars>>

-----------------------------------------------------------------------------
(* Remove                                                                  *)

\* The device goes away; k_sdio_reload makes the host look and find it gone.
Unbind ==
  /\ bound /\ step = "idle"
  /\ bound' = FALSE
  /\ c_if' = attached
  /\ BeginRemove
  /\ UNCHANGED <<bus, mod, if_cb, probes, heap, attached, dev, held, noted, core, booted, isr,
                 claimed, rescan, leaked, wiphy, xferVars>>

\* rs_c_recovery_process: k_sdio_reload; k_spi_reload does nothing.
Reload ==
  /\ bound /\ bus = "sdio" /\ ~rescan
  /\ rescan' = TRUE
  /\ UNCHANGED <<bus, mod, if_cb, step, nth, bound, probes, deviceVars, isr, claimed, leaked, wiphy, xferVars>>

\* core_deinit, of parts that came up or did not
DeinitPart ==
  /\ step = "down" /\ DeinitOrder[nth] # "net"
  /\ \A u \in User : xfer[u] = "idle"    \* a thread ends before its part is down
  /\ core' = core \ {DeinitOrder[nth]}
  /\ NextDown
  /\ UNCHANGED <<bus, mod, if_cb, bound, probes, c_if, heap, attached, dev, held, noted, booted, isr,
                 claimed, rescan, leaked, wiphy, xferVars>>

\* rs_net_cfg80211_deinit: the detectors are freed through the wiphy that has been.
DeinitNet ==
  /\ step = "down" /\ DeinitOrder[nth] = "net"
  /\ core' = core \ {"net"}
  /\ wiphy' = IF "net" \in core THEN "none" ELSE wiphy
  /\ NextDown \/ ("net" \in core /\ GoTo("oops"))
  /\ UNCHANGED <<bus, mod, if_cb, bound, probes, c_if, heap, attached, dev, held, noted, booted, isr,
                 claimed, rescan, leaked, xferVars>>

Claim ==
  /\ step = "claim" /\ isr = 0             \* the handler runs with the host claimed
  /\ claimed' = TRUE
  /\ GoTo("detach")
  /\ UNCHANGED <<bus, mod, if_cb, bound, probes, deviceVars, isr, rescan, leaked, wiphy, xferVars>>

Detach ==
  /\ step = "detach"
  /\ attached' = 0
  /\ GoTo(IF bus = "spi" THEN "clear" ELSE "release_irqs")
  /\ UNCHANGED <<bus, mod, if_cb, bound, probes, c_if, heap, dev, held, noted, core, booted, isr,
                 claimed, rescan, leaked, wiphy, xferVars>>

\* The device pointer and the operations are cleared, and the buffers freed.
Clear ==
  /\ step = "clear"
  /\ dev' = FALSE
  /\ GoTo(IF bus = "spi" THEN "release_irqs" ELSE "free")
  /\ UNCHANGED <<bus, mod, if_cb, bound, probes, c_if, heap, attached, held, noted, core, booted, isr,
                 claimed, rescan, leaked, wiphy, xferVars>>

\* Mutant: free_irq is only called for the first line.
BugReleaseIrqs ==
  /\ step = "release_irqs" /\ isr # c_if
  /\ held' = IF bus = "sdio" \/ noted THEN [held EXCEPT !["irq"] = 0] ELSE held
  /\ GoTo(IF bus = "spi" THEN "release_gpios" ELSE "clear")
  /\ UNCHANGED <<bus, mod, if_cb, bound, probes, c_if, heap, attached, dev, noted, core, booted, isr,
                 claimed, rescan, leaked, wiphy, xferVars>>

\* free_irq waits for a handler that runs.
ReleaseIrqs ==
  /\ step = "release_irqs" /\ isr # c_if
  /\ held' = IF bus = "sdio" \/ noted THEN [held EXCEPT !["irq"] = 0, !["state_irq"] = 0] ELSE held
  /\ GoTo(IF bus = "spi" THEN "release_gpios" ELSE "clear")
  /\ UNCHANGED <<bus, mod, if_cb, bound, probes, c_if, heap, attached, dev, noted, core, booted, isr,
                 claimed, rescan, leaked, wiphy, xferVars>>

ReleaseGpios ==
  /\ step = "release_gpios"
  /\ held' = IF noted THEN [held EXCEPT !["irq_gpio"] = 0, !["state_gpio"] = 0, !["reset_gpio"] = 0] ELSE held
  /\ GoTo("free")
  /\ UNCHANGED <<bus, mod, if_cb, bound, probes, c_if, heap, attached, dev, noted, core, booted, isr,
                 claimed, rescan, leaked, wiphy, xferVars>>

\* The interface is freed; on SDIO the chip is reset and the host released.
Free ==
  /\ step = "free"
  /\ heap' = heap \ {c_if}
  /\ c_if' = 0
  /\ claimed' = FALSE
  /\ booted' = (booted /\ bus = "spi")
  /\ GoTo(IF mod THEN "idle" ELSE "free_if_cb")
  /\ UNCHANGED <<bus, mod, if_cb, bound, probes, attached, dev, held, noted, core, isr, rescan, leaked,
                 wiphy, xferVars>>

-----------------------------------------------------------------------------
(* The chip's interrupt                                                    *)

\* rs_irq_handler and k_sdio_recv_handler: the handler begins, with its interface,
Interrupt ==
  /\ held["irq"] # 0 /\ isr = 0 /\ ~claimed /\ (bus = "sdio" => lock = "none")
  /\ isr' = held["irq"]
  /\ UNCHANGED <<bus, mod, if_cb, step, nth, bound, probes, deviceVars, claimed, rescan, leaked, wiphy, xferVars>>

\* finds that of the device, and calls rs_c_status, which posts an event to the RX
\* thread if there is one by then.
InterruptDone ==
  /\ isr # 0
  /\ isr' = 0
  /\ UNCHANGED <<bus, mod, if_cb, step, nth, bound, probes, deviceVars, claimed, rescan, leaked, wiphy, xferVars>>

-----------------------------------------------------------------------------
(* A transfer over SPI: bus_write and bus_read                             *)

Goto(u, there) == xfer' = [xfer EXCEPT ![u] = there]

outside == <<bus, mod, if_cb, step, nth, bound, probes, deviceVars, isr, claimed, rescan, leaked, wiphy>>

\* Mutant: nobody waits for the mutex.
BugLock(u) ==
  /\ bus = "spi" /\ bound /\ xfer[u] = "idle" /\ nxfer < MaxXfer
  /\ lock' = u
  /\ nxfer' = nxfer + 1
  /\ Goto(u, "reset_cmd")
  /\ UNCHANGED <<outside, flag, edge, expects, late, garbled>>

\* C_IF_DEV_MUTEX_LOCK
Lock(u) ==
  /\ bus = "spi" /\ bound /\ xfer[u] = "idle" /\ nxfer < MaxXfer
  /\ lock = "none" /\ lock' = u
  /\ nxfer' = nxfer + 1
  /\ Goto(u, "reset_cmd")
  /\ UNCHANGED <<outside, flag, edge, expects, late, garbled>>

\* Mutant: the flag is not reset before the payload.
BugResetFlag(u) ==
  /\ xfer[u] \in {"reset_cmd", "reset_data"}
  /\ flag' = (flag /\ xfer[u] = "reset_data")
  /\ Goto(u, IF xfer[u] = "reset_cmd" THEN "cmd" ELSE "data")
  /\ UNCHANGED <<outside, lock, edge, expects, late, garbled, nxfer>>

\* k_spi_reset_state_change, before the command and before the payload
ResetFlag(u) ==
  /\ xfer[u] \in {"reset_cmd", "reset_data"}
  /\ flag' = FALSE
  /\ Goto(u, IF xfer[u] = "reset_cmd" THEN "cmd" ELSE "data")
  /\ UNCHANGED <<outside, lock, edge, expects, late, garbled, nxfer>>

\* spi_sync of the one or the other
Sync(u) ==
  /\ xfer[u] \in {"cmd", "data"}
  /\ garbled' = (garbled \/ expects # xfer[u])
  /\ expects' = IF expects # xfer[u] THEN expects ELSE IF xfer[u] = "cmd" THEN "busy_cmd" ELSE "busy_data"
  /\ Goto(u, IF xfer[u] = "cmd" THEN "wait_cmd" ELSE "wait_data")
  /\ UNCHANGED <<outside, lock, flag, edge, late, nxfer>>

\* k_spi_wait_state_change, whose result nobody looks at
WaitFlag(u) ==
  /\ xfer[u] \in {"wait_cmd", "wait_data"}
  /\ late' = (late \/ ~flag)
  /\ Goto(u, IF xfer[u] = "wait_cmd" THEN "reset_data" ELSE "unlock")
  /\ UNCHANGED <<outside, lock, flag, edge, expects, garbled, nxfer>>

Unlock(u) ==
  /\ xfer[u] = "unlock"
  /\ lock' = "none"
  /\ Goto(u, "idle")
  /\ UNCHANGED <<outside, flag, edge, expects, late, garbled, nxfer>>

-----------------------------------------------------------------------------
(* A transfer over SDIO                                                    *)

\* sdio_claim_host, which the interrupt's handler runs with
SdioClaim(u) ==
  /\ bus = "sdio" /\ bound /\ xfer[u] = "idle" /\ nxfer < MaxXfer
  /\ ~claimed /\ isr = 0 /\ lock = "none"
  /\ lock' = u
  /\ nxfer' = nxfer + 1
  /\ Goto(u, "read") \/ Goto(u, "write")
  /\ UNCHANGED <<outside, flag, edge, expects, late, garbled>>

\* k_sdio_read: the first block says how much follows, or is none the driver knows;
\* the rest is read until the bus fails.
SdioRead(u) ==
  /\ \/ xfer[u] = "read" /\ (Goto(u, "read_rest") \/ Goto(u, "unlock"))
     \/ xfer[u] = "read_rest" /\ Goto(u, "unlock")
  /\ UNCHANGED <<outside, lock, flag, edge, expects, late, garbled, nxfer>>

\* k_sdio_write
SdioWrite(u) ==
  /\ xfer[u] = "write"
  /\ Goto(u, "unlock")
  /\ UNCHANGED <<outside, lock, flag, edge, expects, late, garbled, nxfer>>

\* The chip has dealt with the command or the payload and raises the line.
Edge ==
  /\ expects \in {"busy_cmd", "busy_data"}
  /\ expects' = IF expects = "busy_cmd" THEN "data" ELSE "cmd"
  /\ edge' = TRUE
  /\ UNCHANGED <<outside, xfer, lock, flag, late, garbled, nxfer>>

\* rs_irq_handler_state
StateInterrupt ==
  /\ edge /\ held["state_irq"] # 0
  /\ edge' = FALSE /\ flag' = TRUE
  /\ UNCHANGED <<outside, xfer, lock, expects, late, garbled, nxfer>>

-----------------------------------------------------------------------------
Transfer(u) ==
  \/ Lock(u) \/ ResetFlag(u) \/ Sync(u) \/ WaitFlag(u) \/ Unlock(u)
  \/ SdioClaim(u) \/ SdioRead(u) \/ SdioWrite(u)

Module  == ModInit \/ ModExit \/ FreeIfCb
Probing == Probe \/ Alloc \/ SpiInit \/ SdioInit \/ SpiDownload \/ SdioDownload \/ Enable \/ InitPart \/
           NetNew \/ NetAsk \/ NetRegister \/ NetSetup \/ Bind
Removing == Unbind \/ Reload \/ DeinitNet \/ DeinitPart \/ Claim \/ Detach \/ Clear \/ ReleaseIrqs \/ ReleaseGpios \/ Free

Next ==
  \/ Module \/ Probing \/ Removing
  \/ Interrupt \/ InterruptDone
  \/ Edge \/ StateInterrupt
  \/ \E u \in User : Transfer(u)

Spec == Init /\ [][Next]_vars

-----------------------------------------------------------------------------
(* Properties *)

\* Every variable holds a value of its kind, one user at a time is inside a
\* transfer, and the core is there only with its interface.
BusTypeOK ==
  /\ bus \in {"spi", "sdio"} /\ mod \in BOOLEAN /\ if_cb \in {"none", "live"}
  /\ step \in Step /\ nth \in 0..Len(DeinitOrder)
  /\ bound \in BOOLEAN /\ probes \in 0..MaxProbe
  /\ c_if \in 0..MaxProbe /\ heap \subseteq 1..MaxProbe /\ attached \in 0..MaxProbe
  /\ dev \in BOOLEAN /\ held \in [Resource -> 0..MaxProbe] /\ noted \in BOOLEAN
  /\ core \subseteq AllParts /\ booted \in BOOLEAN
  /\ isr \in 0..MaxProbe /\ claimed \in BOOLEAN /\ rescan \in BOOLEAN /\ leaked \in BOOLEAN
  /\ wiphy \in {"none", "new", "registered", "dangling"}
  /\ \A u, w \in User : xfer[u] # "idle" /\ xfer[w] # "idle" => u = w
  /\ core # {} => attached # 0 /\ attached \in heap

\* When no driver is bound and none is being bound, what a probe acquired has been
\* given back: k_..._remove undoes every probe, whether it succeeded or failed in the
\* download, the interrupt or any part of the core.  The failures that leak (the
\* pins of k_spi_init, the first allocations) are the exception.
RemoveUndoesProbe ==
  step = "idle" /\ ~bound /\ ~leaked =>
    heap = {} /\ core = {} /\ wiphy = "none" /\ attached = 0 /\ ~dev /\ ~claimed /\ \A r \in Resource : held[r] = 0

\* An interrupt's handler never has an interface that was freed, and neither an
\* interrupt nor the core callbacks that were: the order of remove and of the
\* module's exit.
NothingDangles ==
  /\ ~leaked => \A r \in {"irq", "state_irq"} : held[r] \in heap \cup {0}
  /\ ~leaked => isr \in heap \cup {0}
  /\ bound \/ core # {} \/ (~leaked /\ held["irq"] # 0) => if_cb = "live"

\* A device that is bound has a core in all its parts, its interrupt, and a chip
\* that runs its firmware, though neither k_spi_init's result nor the last poll of a
\* download is looked at: the requests of rs_net_cfg80211_init find out.
BoundDeviceAnswers ==
  bound => core = AllParts /\ booted /\ held["irq"] = attached /\ attached # 0

\* The chip is sent a command when it waits for one and a payload when it waits for
\* that, as long as none of its edges comes later than the driver waits.
PayloadWhenReady == garbled => late
=============================================================================
