---------------------------- MODULE RsBus_proofs ----------------------------
(***************************************************************************)
(* Proofs about RsBus, for any threads that transfer and any number of     *)
(* probes and transfers.                                                   *)
(***************************************************************************)
EXTENDS RsBus, TLAPS

Where == {"idle", "reset_cmd", "cmd", "wait_cmd", "reset_data", "data", "wait_data", "unlock",
          "read", "read_rest", "write"}

\* The device is used by the owner of its mutex, from the lock to the unlock.
OneTransfer ==
  /\ xfer \in [User -> Where]
  /\ \A u \in User : xfer[u] # "idle" <=> lock = u

\* The chip waits for this, and has said so.
Waiting(for) == expects = for /\ ~edge

\* The chip is at it, has raised the line, or the handler has seen the line.
Answering(busy, next) ==
  \/ expects = busy /\ ~edge /\ ~flag
  \/ expects = next /\ edge /\ ~flag
  \/ expects = next /\ ~edge /\ flag

\* What the owner's place in its transfer says of the chip, while every answer has come
\* in time.
InStep(place) ==
  /\ place \in {"idle", "reset_cmd", "unlock", "read", "read_rest", "write"} => Waiting("cmd")
  /\ place = "cmd"        => Waiting("cmd") /\ ~flag
  /\ place = "wait_cmd"   => Answering("busy_cmd", "data")
  /\ place = "reset_data" => Waiting("data")
  /\ place = "data"       => Waiting("data") /\ ~flag
  /\ place = "wait_data"  => Answering("busy_data", "cmd")

Handshake ==
  /\ flag \in BOOLEAN /\ edge \in BOOLEAN /\ late \in BOOLEAN /\ garbled \in BOOLEAN
  /\ ~late => ~garbled
  /\ ~late /\ lock = "none" => Waiting("cmd")
  /\ ~late => \A u \in User : lock = u => InStep(xfer[u])

XferInv == OneTransfer /\ Handshake

\* No transfer is under way at the start.
LEMMA XferInit == Init => XferInv
BY UserAssumption DEF Init, XferInv, OneTransfer, Handshake, Waiting, Where

\* The steps of the module, of probe and remove and of the interrupt leave the
\* transfers alone.
LEMMA OutsideKeepsXfer ==
  ASSUME XferInv,
         \/ Module \/ Probing \/ Removing
         \/ Interrupt \/ InterruptDone
         \/ UNCHANGED vars
  PROVE  XferInv'
<1>1. UNCHANGED xferVars
  <2>1. CASE Module
    BY <2>1 DEF Module, ModInit, ModExit, FreeIfCb
  <2>2. CASE Probing
    BY <2>2 DEF Probing, Probe, Alloc, SpiInit, SdioInit, SpiDownload, SdioDownload, Enable,
                InitPart, NetNew, NetAsk, NetRegister, NetSetup, Bind
  <2>3. CASE Removing
    BY <2>3 DEF Removing, Unbind, Reload, DeinitNet, DeinitPart, Claim, Detach, Clear, ReleaseIrqs, ReleaseGpios, Free
  <2>4. CASE Interrupt \/ InterruptDone
    BY <2>4 DEF Interrupt, InterruptDone
  <2>5. CASE UNCHANGED vars
    BY <2>5 DEF vars
  <2> QED BY <2>1, <2>2, <2>3, <2>4, <2>5
<1> QED BY <1>1 DEF xferVars, XferInv, OneTransfer, Handshake, InStep, Waiting, Answering

\* The chip's edge and its interrupt keep a transfer in step with the chip.
LEMMA ChipKeepsXfer ==
  ASSUME XferInv, Edge \/ StateInterrupt
  PROVE  XferInv'
<1>1. CASE Edge
  BY <1>1 DEF Edge, XferInv, OneTransfer, Handshake, InStep, Waiting, Answering, Where
<1>2. CASE StateInterrupt
  BY <1>2 DEF StateInterrupt, XferInv, OneTransfer, Handshake, InStep, Waiting, Answering, Where
<1> QED BY <1>1, <1>2

\* A step of a transfer keeps it in step with the chip.
LEMMA TransferKeepsXfer ==
  ASSUME XferInv, NEW u \in User, Transfer(u)
  PROVE  XferInv'
<1> USE UserAssumption DEF XferInv, OneTransfer, Handshake, Where, Goto
<1>1. CASE Lock(u)
  BY <1>1 DEF Lock, InStep, Waiting
<1>2. CASE ResetFlag(u)
  BY <1>2 DEF ResetFlag, InStep, Waiting
<1>3. CASE Sync(u)
  BY <1>3 DEF Sync, InStep, Waiting, Answering
<1>4. CASE WaitFlag(u)
  BY <1>4 DEF WaitFlag, InStep, Waiting, Answering
<1>5. CASE Unlock(u)
  BY <1>5 DEF Unlock, InStep, Waiting
<1>6. CASE SdioClaim(u)
  BY <1>6 DEF SdioClaim, InStep, Waiting
<1>7. CASE SdioRead(u)
  BY <1>7 DEF SdioRead, InStep, Waiting
<1>8. CASE SdioWrite(u)
  BY <1>8 DEF SdioWrite, InStep, Waiting
<1> QED BY <1>1, <1>2, <1>3, <1>4, <1>5, <1>6, <1>7, <1>8 DEF Transfer

\* Every step keeps the transfers in step with the chip.
LEMMA XferStep == XferInv /\ [Next]_vars => XferInv'
BY OutsideKeepsXfer, ChipKeepsXfer, TransferKeepsXfer DEF Next

\* On SPI the chip is never sent a command or a payload it does not wait for, unless one
\* of its edges has come later than the driver waits: reset, send and wait under one mutex
\* keep k_spi_wait_state_change from taking one answer for another.
THEOREM PayloadsWhenReady == Spec => []PayloadWhenReady
<1>1. Init => XferInv
  BY XferInit
<1>2. XferInv => PayloadWhenReady
  BY DEF XferInv, Handshake, PayloadWhenReady
<1> QED BY <1>1, <1>2, XferStep, PTL DEF Spec
-----------------------------------------------------------------------------
(* Probe and remove.  Each part of the invariant says, of one thing that a *)
(* probe acquires, at which steps it is there.                             *)

NetStep == {"net_new", "net_ask", "net_register", "net_setup"}

\* The device has its interface from the allocation to the detachment, and the
\* interface lives until it is freed.
Attached == bound \/ step \in {"init", "download", "enable", "up", "bind", "down", "claim", "detach"} \cup NetStep
Detached == step \in {"release_irqs", "release_gpios", "clear", "free"}
Absent   == ~bound /\ step \in {"idle", "alloc", "free_if_cb"}

StepTypes ==
  /\ bus \in {"spi", "sdio"} /\ mod \in BOOLEAN /\ if_cb \in {"none", "live"}
  /\ step \in Step /\ nth \in 0..Len(DeinitOrder)
  /\ bound \in BOOLEAN /\ probes \in 0..MaxProbe

DeviceTypes ==
  /\ c_if \in 0..MaxProbe /\ heap \subseteq 1..MaxProbe /\ attached \in 0..MaxProbe
  /\ dev \in BOOLEAN /\ held \in [Resource -> 0..MaxProbe] /\ noted \in BOOLEAN
  /\ core \subseteq AllParts /\ booted \in BOOLEAN
  /\ isr \in 0..MaxProbe /\ claimed \in BOOLEAN /\ rescan \in BOOLEAN /\ leaked \in BOOLEAN
  /\ wiphy \in {"none", "new", "registered", "dangling"}

Types == StepTypes /\ DeviceTypes

\* The steps belong to the module: nothing is probed, or bound, without it.
ModuleInv ==
  /\ bound => step = "idle" /\ mod
  /\ step \in {"alloc", "init", "download", "enable", "up", "bind"} \cup NetStep => mod
  /\ step = "alloc" => probes # 0
  /\ step = "up" => nth \in 1..8
  /\ step = "down" => nth \in 1..9
  /\ step = "claim" => bus = "sdio"

InterfaceInv ==
  /\ Attached => attached = c_if /\ c_if # 0 /\ c_if \in heap
  /\ Detached => attached = 0 /\ c_if # 0 /\ c_if \in heap
  /\ Absent   => attached = 0 /\ ~dev
  /\ step \in {"free", "release_gpios"} => ~dev
  /\ step = "release_irqs" /\ bus = "spi" => ~dev
  /\ step = "release_gpios" => bus = "spi"
  /\ claimed => bus = "sdio" /\ step \in {"detach", "release_irqs", "clear", "free"}

HeapInv ==
  ~leaked =>
    /\ Attached \/ Detached => heap = {c_if}
    /\ Absent => heap = {}

\* The parts of the core are there in the order they come up and go down.
CoreInv ==
  /\ Absent \/ Detached \/ step \in {"init", "download", "enable", "claim", "detach"} => core = {}
  /\ step = "up" => core = {Parts[i] : i \in 1..(nth - 1)}
  /\ step \in NetStep => core = ToSet(Parts)
  /\ bound \/ step = "bind" => core = AllParts
  /\ step = "down" => core \subseteq {DeinitOrder[i] : i \in nth..9}
  /\ core # {} => attached # 0 /\ attached \in heap

WiphyInv ==
  ~leaked =>
    /\ step \in {"net_ask", "net_register"} => wiphy = "new"
    /\ bound \/ step \in {"net_setup", "bind"} => wiphy = "registered"
    /\ step = "down" => wiphy = IF "net" \in core THEN "registered" ELSE "none"
    /\ ~bound /\ step \notin {"net_ask", "net_register", "net_setup", "bind", "down", "oops"} => wiphy = "none"

\* The pins and interrupts are those of the interface, all of them on SPI, and are
\* gone before it is.
HeldInv ==
  ~leaked =>
    /\ Absent \/ step \in {"init", "free"} => \A r \in Resource : held[r] = 0
    /\ bus = "spi" /\ (Attached \/ Detached) /\ step \notin {"init", "free"} =>
         noted /\ \A r \in Resource : held[r] = IF step = "release_gpios" /\ r \in {"irq", "state_irq"} THEN 0 ELSE c_if
    /\ bus = "sdio" =>
         /\ \A r \in Resource \ {"irq"} : held[r] = 0
         /\ Attached \/ Detached => held["irq"] \in {0, c_if}
         /\ step = "clear" => held["irq"] = 0
    /\ \A r \in Resource : held[r] \in heap \cup {0}
    /\ isr \in {0, held["irq"]}

CallbacksInv ==
  /\ bus = "spi" /\ step \in {"alloc", "init"} => if_cb = "live"
  /\ step \in {"up", "bind"} \cup NetStep => if_cb = "live"
  /\ bound \/ core # {} \/ (~leaked /\ held["irq"] # 0) => if_cb = "live"

\* Only a chip that has answered gets past the first request.
AnswerInv ==
  bound \/ step \in {"net_register", "net_setup", "bind"} => booted /\ held["irq"] = c_if

BusInv ==
  /\ Types /\ ModuleInv /\ InterfaceInv /\ HeapInv /\ CoreInv
  /\ WiphyInv /\ HeldInv /\ CallbacksInv /\ AnswerInv

\* The parts of the core, of which the network comes up last and goes down first.
LEMMA PartsOfCore ==
  /\ Len(Parts) = 8 /\ Len(DeinitOrder) = 9
  /\ ToSet(Parts) = {Parts[i] : i \in 1..8}
  /\ AllParts = {DeinitOrder[i] : i \in 1..9}
  /\ AllParts = ToSet(Parts) \cup {"net"} /\ "net" \notin ToSet(Parts)
  /\ \A i \in 1..9 : DeinitOrder[i] = "net" <=> i = 1
<1>1. Len(Parts) = 8 /\ Len(DeinitOrder) = 9 /\ DOMAIN Parts = 1..8 /\ DOMAIN DeinitOrder = 1..9
  BY DEF Parts, DeinitOrder
<1>2. ToSet(Parts) = {Parts[i] : i \in 1..8} /\ AllParts = {DeinitOrder[i] : i \in 1..9}
  BY <1>1 DEF ToSet, AllParts
<1>3. ToSet(Parts) = {"wq", "ctrl", "recovery", "indi", "rx_data", "rx", "tx", "status"}
  BY <1>2 DEF Parts
<1>4. AllParts = {"net", "wq", "tx", "rx", "rx_data", "indi", "recovery", "ctrl", "status"}
  BY <1>2 DEF DeinitOrder
<1>5. \A i \in 1..9 : DeinitOrder[i] = "net" <=> i = 1
  BY DEF DeinitOrder
<1> QED BY <1>1, <1>2, <1>3, <1>4, <1>5

\* With the n-th part of the core the first n are up.
LEMMA OneMoreUp ==
  ASSUME NEW n \in 1..8
  PROVE  {Parts[i] : i \in 1..(n - 1)} \cup {Parts[n]} = {Parts[i] : i \in 1..n}
OBVIOUS

\* Without the n-th part in the order of core_deinit those behind it are up, after the last none.
LEMMA OneMoreDown ==
  ASSUME NEW n \in 1..9, NEW C, C \subseteq {DeinitOrder[i] : i \in n..9}
  PROVE  /\ C \ {DeinitOrder[n]} \subseteq {DeinitOrder[i] : i \in (n + 1)..9}
         /\ n = 9 => C \ {DeinitOrder[n]} = {}
<1>1. ASSUME NEW p \in C \ {DeinitOrder[n]}
      PROVE  n # 9 /\ p \in {DeinitOrder[i] : i \in (n + 1)..9}
  <2>1. PICK i \in n..9 : p = DeinitOrder[i]
    BY <1>1
  <2>2. i # n
    BY <1>1, <2>1
  <2>3. n # 9 /\ i \in (n + 1)..9
    BY <2>2
  <2> QED BY <2>1, <2>3
<1> QED BY <1>1

\* What each group of actions does to each part of the invariant.

\* Every step of the module, of probe and remove and of an interrupt leads to a known step.
LEMMA StepTypesKept ==
  ASSUME BusInv, Module \/ Probing \/ Removing \/ Interrupt \/ InterruptDone
  PROVE  StepTypes'
<1>a. /\ StepTypes /\ MaxProbe \in Nat /\ Len(DeinitOrder) = 9 /\ Len(Parts) = 8
      /\ step = "up" => nth \in 1..8
      /\ step = "down" => nth \in 1..9
  BY BoundAssumption, PartsOfCore DEF BusInv, Types, ModuleInv
<1> USE <1>a DEF StepTypes, Step, GoTo, BeginRemove
<1>1. CASE ModInit
  BY <1>1 DEF ModInit
<1>2. CASE ModExit
  <2>1. step' \in Step /\ nth' \in 0..9
    BY <1>2 DEF ModExit
  <2> QED BY <1>2, <2>1 DEF ModExit
<1>3. CASE FreeIfCb
  BY <1>3 DEF FreeIfCb
<1>4. CASE Probe \/ Alloc
  BY <1>4 DEF Probe, Alloc
<1>5. CASE SpiInit \/ SdioInit \/ SpiDownload \/ SdioDownload
  BY <1>5 DEF SpiInit, SdioInit, SpiDownload, SdioDownload
<1>6. CASE Enable
  BY <1>6 DEF Enable
<1>7. CASE InitPart
  BY <1>7 DEF InitPart, NextUp
<1>8. CASE NetNew \/ NetAsk \/ NetRegister
  BY <1>8 DEF NetNew, NetAsk, NetRegister
<1>9. CASE NetSetup
  BY <1>9 DEF NetSetup
<1>10. CASE Bind
  BY <1>10 DEF Bind
<1>11. CASE Unbind
  <2>1. step' \in Step /\ nth' \in 0..9
    BY <1>11 DEF Unbind
  <2> QED BY <1>11, <2>1 DEF Unbind
<1>12. CASE Reload
  BY <1>12 DEF Reload
<1>13. CASE DeinitNet
  BY <1>13 DEF DeinitNet, NextDown
<1>14. CASE DeinitPart
  BY <1>14 DEF DeinitPart, NextDown
<1>15. CASE Claim \/ Detach \/ Clear
  BY <1>15 DEF Claim, Detach, Clear
<1>16. CASE ReleaseIrqs \/ ReleaseGpios
  BY <1>16 DEF ReleaseIrqs, ReleaseGpios
<1>17. CASE Free
  BY <1>17 DEF Free
<1>18. CASE Interrupt \/ InterruptDone
  BY <1>18 DEF Interrupt, InterruptDone
<1> QED BY <1>1, <1>2, <1>3, <1>4, <1>5, <1>6, <1>7, <1>8, <1>9, <1>10, <1>11, <1>12, <1>13, <1>14, <1>15, <1>16, <1>17, <1>18 DEF Module, Probing, Removing

\* So does the device stay within its types.
LEMMA DeviceTypesKept ==
  ASSUME BusInv, Module \/ Probing \/ Removing \/ Interrupt \/ InterruptDone
  PROVE  DeviceTypes'
<1>a. /\ DeviceTypes /\ MaxProbe \in Nat /\ "irq" \in Resource
      /\ step = "alloc" => probes \in 1..MaxProbe
      /\ step = "up" => nth \in 1..8
  BY BoundAssumption DEF BusInv, Types, StepTypes, ModuleInv, Resource
<1> USE <1>a DEF DeviceTypes, deviceVars
<1>1. CASE ModInit \/ ModExit \/ FreeIfCb \/ Probe
  BY <1>1 DEF ModInit, ModExit, FreeIfCb, Probe
<1>2. CASE Alloc
  <2>1. c_if' \in {0, probes} /\ heap' \subseteq heap \cup {probes} /\ attached' \in {attached, probes}
    BY <1>2 DEF Alloc
  <2>2. c_if' \in 0..MaxProbe /\ heap' \subseteq 1..MaxProbe /\ attached' \in 0..MaxProbe
    BY <1>2, <2>1 DEF Alloc
  <2>3. dev' \in BOOLEAN /\ noted' \in BOOLEAN /\ leaked' \in BOOLEAN
    BY <1>2 DEF Alloc
  <2> QED BY <1>2, <2>2, <2>3 DEF Alloc
<1>3. CASE SpiInit
  BY <1>3 DEF SpiInit
<1>4. CASE SdioInit \/ SpiDownload \/ SdioDownload
  BY <1>4 DEF SdioInit, SpiDownload, SdioDownload
<1>5. CASE Enable
  BY <1>5 DEF Enable
<1>6. CASE InitPart
  BY <1>6, PartsOfCore DEF InitPart
<1>7. CASE NetNew \/ NetAsk
  BY <1>7 DEF NetNew, NetAsk
<1>8. CASE NetRegister
  BY <1>8 DEF NetRegister
<1>9. CASE NetSetup
  BY <1>9, PartsOfCore DEF NetSetup
<1>10. CASE Bind \/ Unbind \/ Reload
  BY <1>10 DEF Bind, Unbind, Reload
<1>11. CASE DeinitNet
  BY <1>11 DEF DeinitNet
<1>12. CASE DeinitPart
  BY <1>12 DEF DeinitPart
<1>13. CASE Claim
  BY <1>13 DEF Claim
<1>14. CASE Detach
  BY <1>14 DEF Detach
<1>15. CASE Clear
  BY <1>15 DEF Clear
<1>16. CASE ReleaseIrqs
  <2>1. held' = held \/ held' = [held EXCEPT !["irq"] = 0, !["state_irq"] = 0]
    BY <1>16 DEF ReleaseIrqs
  <2>2. held' \in [Resource -> 0..MaxProbe]
    BY <2>1
  <2> QED BY <1>16, <2>2 DEF ReleaseIrqs
<1>17. CASE ReleaseGpios
  <2>1. held' = held \/ held' = [held EXCEPT !["irq_gpio"] = 0, !["state_gpio"] = 0, !["reset_gpio"] = 0]
    BY <1>17 DEF ReleaseGpios
  <2>2. held' \in [Resource -> 0..MaxProbe]
    BY <2>1
  <2> QED BY <1>17, <2>2 DEF ReleaseGpios
<1>18. CASE Free
  <2>1. heap' \subseteq 1..MaxProbe /\ c_if' \in 0..MaxProbe
    BY <1>18 DEF Free
  <2>2. booted' \in BOOLEAN /\ claimed' \in BOOLEAN
    BY <1>18 DEF Free
  <2> QED BY <1>18, <2>1, <2>2 DEF Free
<1>19. CASE Interrupt
  BY <1>19 DEF Interrupt
<1>20. CASE InterruptDone
  BY <1>20 DEF InterruptDone
<1> QED BY <1>1, <1>2, <1>3, <1>4, <1>5, <1>6, <1>7, <1>8, <1>9, <1>10, <1>11, <1>12, <1>13, <1>14, <1>15, <1>16, <1>17, <1>18, <1>19, <1>20 DEF Module, Probing, Removing

\* What the module holds stays what its step says.
LEMMA ModuleInvKept ==
  ASSUME BusInv, Module \/ Probing \/ Removing \/ Interrupt \/ InterruptDone
  PROVE  ModuleInv'
<1> USE PartsOfCore DEF BusInv, ModuleInv, Types, StepTypes, NetStep, GoTo, BeginRemove
<1>1. CASE ModInit \/ ModExit \/ FreeIfCb
  BY <1>1 DEF ModInit, ModExit, FreeIfCb
<1>2. CASE Probe \/ Alloc
  BY <1>2 DEF Probe, Alloc
<1>3. CASE SpiInit
  BY <1>3 DEF SpiInit
<1>4. CASE SdioInit \/ SpiDownload \/ SdioDownload
  BY <1>4 DEF SdioInit, SpiDownload, SdioDownload
<1>5. CASE Enable
  BY <1>5 DEF Enable
<1>6. CASE InitPart
  BY <1>6 DEF InitPart, NextUp
<1>7. CASE NetNew \/ NetAsk \/ NetRegister \/ NetSetup \/ Bind
  BY <1>7 DEF NetNew, NetAsk, NetRegister, NetSetup, Bind, ChipAnswers
<1>8. CASE Unbind \/ Reload
  BY <1>8 DEF Unbind, Reload
<1>9. CASE DeinitNet
  BY <1>9 DEF DeinitNet, NextDown
<1>10. CASE DeinitPart
  BY <1>10 DEF DeinitPart, NextDown
<1>11. CASE Claim \/ Detach \/ Clear
  BY <1>11 DEF Claim, Detach, Clear
<1>12. CASE ReleaseIrqs \/ ReleaseGpios
  BY <1>12 DEF ReleaseIrqs, ReleaseGpios
<1>13. CASE Free
  BY <1>13 DEF Free
<1>14. CASE Interrupt \/ InterruptDone
  BY <1>14 DEF Interrupt, InterruptDone
<1> QED BY <1>1, <1>2, <1>3, <1>4, <1>5, <1>6, <1>7, <1>8, <1>9, <1>10, <1>11, <1>12, <1>13, <1>14 DEF Module, Probing, Removing

\* What the interface holds stays what its step says.
LEMMA InterfaceInvKept ==
  ASSUME BusInv, Module \/ Probing \/ Removing \/ Interrupt \/ InterruptDone
  PROVE  InterfaceInv'
<1> USE DEF BusInv, InterfaceInv, ModuleInv, Types, StepTypes, DeviceTypes, Attached, Detached, Absent, NetStep, GoTo, BeginRemove, deviceVars
<1>1. CASE ModInit \/ ModExit \/ FreeIfCb
  BY <1>1 DEF ModInit, ModExit, FreeIfCb
<1>2. CASE Probe \/ Alloc
  BY <1>2 DEF Probe, Alloc
<1>3. CASE SpiInit
  BY <1>3 DEF SpiInit
<1>4. CASE SdioInit \/ SpiDownload \/ SdioDownload
  BY <1>4 DEF SdioInit, SpiDownload, SdioDownload
<1>5. CASE Enable
  BY <1>5 DEF Enable
<1>6. CASE InitPart
  BY <1>6 DEF InitPart, NextUp
<1>7. CASE NetNew \/ NetAsk \/ NetRegister \/ NetSetup \/ Bind
  BY <1>7 DEF NetNew, NetAsk, NetRegister, NetSetup, Bind, ChipAnswers
<1>8. CASE Unbind \/ Reload
  BY <1>8 DEF Unbind, Reload
<1>9. CASE DeinitNet
  BY <1>9 DEF DeinitNet, NextDown
<1>10. CASE DeinitPart
  BY <1>10 DEF DeinitPart, NextDown
<1>11. CASE Claim \/ Detach \/ Clear
  BY <1>11 DEF Claim, Detach, Clear
<1>12. CASE ReleaseIrqs \/ ReleaseGpios
  BY <1>12 DEF ReleaseIrqs, ReleaseGpios
<1>13. CASE Free
  BY <1>13 DEF Free
<1>14. CASE Interrupt \/ InterruptDone
  BY <1>14 DEF Interrupt, InterruptDone
<1> QED BY <1>1, <1>2, <1>3, <1>4, <1>5, <1>6, <1>7, <1>8, <1>9, <1>10, <1>11, <1>12, <1>13, <1>14 DEF Module, Probing, Removing

\* Only the interface in use stays allocated.
LEMMA HeapInvKept ==
  ASSUME BusInv, Module \/ Probing \/ Removing \/ Interrupt \/ InterruptDone
  PROVE  HeapInv'
<1> USE DEF BusInv, HeapInv, ModuleInv, InterfaceInv, Types, StepTypes, DeviceTypes, Attached, Detached, Absent, NetStep, GoTo, BeginRemove, deviceVars
<1>1. CASE ModInit \/ ModExit \/ FreeIfCb
  BY <1>1 DEF ModInit, ModExit, FreeIfCb
<1>2. CASE Probe \/ Alloc
  BY <1>2 DEF Probe, Alloc
<1>3. CASE SpiInit
  BY <1>3 DEF SpiInit
<1>4. CASE SdioInit \/ SpiDownload \/ SdioDownload
  BY <1>4 DEF SdioInit, SpiDownload, SdioDownload
<1>5. CASE Enable
  BY <1>5 DEF Enable
<1>6. CASE InitPart
  BY <1>6 DEF InitPart, NextUp
<1>7. CASE NetNew \/ NetAsk \/ NetRegister \/ NetSetup \/ Bind
  BY <1>7 DEF NetNew, NetAsk, NetRegister, NetSetup, Bind, ChipAnswers
<1>8. CASE Unbind \/ Reload
  BY <1>8 DEF Unbind, Reload
<1>9. CASE DeinitNet
  BY <1>9 DEF DeinitNet, NextDown
<1>10. CASE DeinitPart
  BY <1>10 DEF DeinitPart, NextDown
<1>11. CASE Claim \/ Detach \/ Clear
  BY <1>11 DEF Claim, Detach, Clear
<1>12. CASE ReleaseIrqs \/ ReleaseGpios
  BY <1>12 DEF ReleaseIrqs, ReleaseGpios
<1>13. CASE Free
  BY <1>13 DEF Free
<1>14. CASE Interrupt \/ InterruptDone
  BY <1>14 DEF Interrupt, InterruptDone
<1> QED BY <1>1, <1>2, <1>3, <1>4, <1>5, <1>6, <1>7, <1>8, <1>9, <1>10, <1>11, <1>12, <1>13, <1>14 DEF Module, Probing, Removing

\* The core has the parts that its step says.
LEMMA CoreInvKept ==
  ASSUME BusInv, Module \/ Probing \/ Removing \/ Interrupt \/ InterruptDone
  PROVE  CoreInv'
<1> USE PartsOfCore DEF BusInv, CoreInv, ModuleInv, InterfaceInv, Types, StepTypes, DeviceTypes, Attached, Detached, Absent, NetStep, GoTo, BeginRemove, deviceVars
<1>1. CASE ModInit \/ ModExit \/ FreeIfCb
  BY <1>1 DEF ModInit, ModExit, FreeIfCb
<1>2. CASE Probe \/ Alloc
  BY <1>2 DEF Probe, Alloc
<1>3. CASE SpiInit
  BY <1>3 DEF SpiInit
<1>4. CASE SdioInit \/ SpiDownload \/ SdioDownload
  BY <1>4 DEF SdioInit, SpiDownload, SdioDownload
<1>5. CASE Enable
  BY <1>5 DEF Enable
<1>6. CASE InitPart
  BY <1>6, OneMoreUp DEF InitPart, NextUp
<1>7. CASE NetNew
  BY <1>7 DEF NetNew
<1>8. CASE NetAsk
  BY <1>8 DEF NetAsk, ChipAnswers
<1>9. CASE NetRegister
  BY <1>9 DEF NetRegister
<1>10. CASE NetSetup
  BY <1>10 DEF NetSetup
<1>11. CASE Bind
  BY <1>11 DEF Bind
<1>12. CASE Unbind \/ Reload
  BY <1>12 DEF Unbind, Reload
<1>13. CASE DeinitNet
  BY <1>13, OneMoreDown DEF DeinitNet, NextDown
<1>14. CASE DeinitPart
  BY <1>14, OneMoreDown DEF DeinitPart, NextDown
<1>15. CASE Claim \/ Detach \/ Clear
  BY <1>15 DEF Claim, Detach, Clear
<1>16. CASE ReleaseIrqs \/ ReleaseGpios
  BY <1>16 DEF ReleaseIrqs, ReleaseGpios
<1>17. CASE Free
  BY <1>17 DEF Free
<1>18. CASE Interrupt \/ InterruptDone
  BY <1>18 DEF Interrupt, InterruptDone
<1> QED BY <1>1, <1>2, <1>3, <1>4, <1>5, <1>6, <1>7, <1>8, <1>9, <1>10, <1>11, <1>12, <1>13, <1>14, <1>15, <1>16, <1>17, <1>18 DEF Module, Probing, Removing

\* The wiphy is registered exactly where the steps of rs_net_cfg80211_init say.
LEMMA WiphyInvKept ==
  ASSUME BusInv, Module \/ Probing \/ Removing \/ Interrupt \/ InterruptDone
  PROVE  WiphyInv'
<1> USE PartsOfCore DEF BusInv, WiphyInv, CoreInv, ModuleInv, Types, StepTypes, DeviceTypes, Attached, Detached, Absent, NetStep, GoTo, BeginRemove, deviceVars
<1>1. CASE ModInit \/ ModExit \/ FreeIfCb
  BY <1>1 DEF ModInit, ModExit, FreeIfCb
<1>2. CASE Probe \/ Alloc
  BY <1>2 DEF Probe, Alloc
<1>3. CASE SpiInit
  BY <1>3 DEF SpiInit
<1>4. CASE SdioInit \/ SpiDownload \/ SdioDownload
  BY <1>4 DEF SdioInit, SpiDownload, SdioDownload
<1>5. CASE Enable
  BY <1>5 DEF Enable
<1>6. CASE InitPart
  BY <1>6 DEF InitPart, NextUp
<1>7. CASE NetNew \/ NetAsk \/ NetRegister \/ NetSetup \/ Bind
  BY <1>7 DEF NetNew, NetAsk, NetRegister, NetSetup, Bind, ChipAnswers
<1>8. CASE Unbind \/ Reload
  BY <1>8 DEF Unbind, Reload
<1>9. CASE DeinitNet
  BY <1>9 DEF DeinitNet, NextDown
<1>10. CASE DeinitPart
  BY <1>10 DEF DeinitPart, NextDown
<1>11. CASE Claim \/ Detach \/ Clear
  BY <1>11 DEF Claim, Detach, Clear
<1>12. CASE ReleaseIrqs \/ ReleaseGpios
  BY <1>12 DEF ReleaseIrqs, ReleaseGpios
<1>13. CASE Free
  BY <1>13 DEF Free
<1>14. CASE Interrupt \/ InterruptDone
  BY <1>14 DEF Interrupt, InterruptDone
<1> QED BY <1>1, <1>2, <1>3, <1>4, <1>5, <1>6, <1>7, <1>8, <1>9, <1>10, <1>11, <1>12, <1>13, <1>14 DEF Module, Probing, Removing

\* What a probe has acquired is held until its step of the way down gives it back.
LEMMA HeldInvKept ==
  ASSUME BusInv, Module \/ Probing \/ Removing \/ Interrupt \/ InterruptDone
  PROVE  HeldInv'
<1> USE DEF BusInv, HeldInv, HeapInv, ModuleInv, InterfaceInv, Types, StepTypes, DeviceTypes, Resource, Attached, Detached, Absent, NetStep, GoTo, BeginRemove, deviceVars
<1>1. CASE ModInit \/ ModExit \/ FreeIfCb
  BY <1>1 DEF ModInit, ModExit, FreeIfCb
<1>2. CASE Probe \/ Alloc
  BY <1>2 DEF Probe, Alloc
<1>3. CASE SpiInit
  <2>1. SUFFICES ASSUME ~leaked'
                  PROVE  HeldInv'
    BY DEF HeldInv
  <2>2. Len(Lines) = 5 /\ {Lines[i] : i \in 1..5} = Resource
    BY <1>3 DEF SpiInit, Lines
  <2>3. ~leaked /\ noted' /\ held' = [r \in Resource |-> c_if]
    <3>1. PICK k \in 0..Len(Lines) :
            /\ held' = [r \in Resource |-> IF r \in {Lines[i] : i \in 1..k} THEN c_if ELSE held[r]]
            /\ noted' = (k = Len(Lines)) /\ leaked' = (leaked \/ ~(k = Len(Lines)))
      BY <1>3, <2>2 DEF SpiInit
    <3>2. k = 5 /\ ~leaked
      BY <2>1, <2>2, <3>1
    <3> QED BY <2>2, <3>1, <3>2
  <2>4. isr = 0
    BY <1>3, <2>3 DEF SpiInit
  <2> QED BY <1>3, <2>3, <2>4 DEF SpiInit
<1>4. CASE SdioInit \/ SpiDownload \/ SdioDownload
  BY <1>4 DEF SdioInit, SpiDownload, SdioDownload
<1>5. CASE Enable
  BY <1>5 DEF Enable
<1>6. CASE InitPart
  BY <1>6 DEF InitPart, NextUp
<1>7. CASE NetNew \/ NetAsk \/ NetRegister \/ NetSetup \/ Bind
  BY <1>7 DEF NetNew, NetAsk, NetRegister, NetSetup, Bind, ChipAnswers
<1>8. CASE Unbind \/ Reload
  BY <1>8 DEF Unbind, Reload
<1>9. CASE DeinitNet
  BY <1>9 DEF DeinitNet, NextDown
<1>10. CASE DeinitPart
  BY <1>10 DEF DeinitPart, NextDown
<1>11. CASE Claim \/ Detach \/ Clear
  BY <1>11 DEF Claim, Detach, Clear
<1>12. CASE ReleaseIrqs \/ ReleaseGpios
  BY <1>12 DEF ReleaseIrqs, ReleaseGpios
<1>13. CASE Free
  BY <1>13 DEF Free
<1>14. CASE Interrupt \/ InterruptDone
  BY <1>14 DEF Interrupt, InterruptDone
<1> QED BY <1>1, <1>2, <1>3, <1>4, <1>5, <1>6, <1>7, <1>8, <1>9, <1>10, <1>11, <1>12, <1>13, <1>14 DEF Module, Probing, Removing

\* The callbacks of the bus outlive the core and its interrupts.
LEMMA CallbacksInvKept ==
  ASSUME BusInv, Module \/ Probing \/ Removing \/ Interrupt \/ InterruptDone
  PROVE  CallbacksInv'
<1> USE DEF BusInv, CallbacksInv, CoreInv, HeldInv, ModuleInv, Types, StepTypes, DeviceTypes, Resource, Attached, Detached, Absent, NetStep, GoTo, BeginRemove, deviceVars
<1>1. CASE ModInit \/ ModExit \/ FreeIfCb
  BY <1>1 DEF ModInit, ModExit, FreeIfCb
<1>2. CASE Probe \/ Alloc
  BY <1>2 DEF Probe, Alloc
<1>3. CASE SpiInit
  BY <1>3 DEF SpiInit
<1>4. CASE SdioInit \/ SpiDownload \/ SdioDownload
  BY <1>4 DEF SdioInit, SpiDownload, SdioDownload
<1>5. CASE Enable
  BY <1>5 DEF Enable
<1>6. CASE InitPart
  BY <1>6 DEF InitPart, NextUp
<1>7. CASE NetNew \/ NetAsk \/ NetRegister \/ NetSetup \/ Bind
  BY <1>7 DEF NetNew, NetAsk, NetRegister, NetSetup, Bind, ChipAnswers
<1>8. CASE Unbind \/ Reload
  BY <1>8 DEF Unbind, Reload
<1>9. CASE DeinitNet
  BY <1>9 DEF DeinitNet, NextDown
<1>10. CASE DeinitPart
  BY <1>10 DEF DeinitPart, NextDown
<1>11. CASE Claim \/ Detach \/ Clear
  BY <1>11 DEF Claim, Detach, Clear
<1>12. CASE ReleaseIrqs \/ ReleaseGpios
  BY <1>12 DEF ReleaseIrqs, ReleaseGpios
<1>13. CASE Free
  BY <1>13 DEF Free
<1>14. CASE Interrupt \/ InterruptDone
  BY <1>14 DEF Interrupt, InterruptDone
<1> QED BY <1>1, <1>2, <1>3, <1>4, <1>5, <1>6, <1>7, <1>8, <1>9, <1>10, <1>11, <1>12, <1>13, <1>14 DEF Module, Probing, Removing

\* The device is bound only behind the chip's answer.
LEMMA AnswerInvKept ==
  ASSUME BusInv, Module \/ Probing \/ Removing \/ Interrupt \/ InterruptDone
  PROVE  AnswerInv'
<1> USE DEF BusInv, AnswerInv, ModuleInv, InterfaceInv, Types, StepTypes, DeviceTypes, Resource, Attached, Detached, Absent, NetStep, GoTo, BeginRemove, deviceVars
<1>1. CASE ModInit \/ ModExit \/ FreeIfCb
  BY <1>1 DEF ModInit, ModExit, FreeIfCb
<1>2. CASE Probe \/ Alloc
  BY <1>2 DEF Probe, Alloc
<1>3. CASE SpiInit
  BY <1>3 DEF SpiInit
<1>4. CASE SdioInit \/ SpiDownload \/ SdioDownload
  BY <1>4 DEF SdioInit, SpiDownload, SdioDownload
<1>5. CASE Enable
  BY <1>5 DEF Enable
<1>6. CASE InitPart
  BY <1>6 DEF InitPart, NextUp
<1>7. CASE NetNew \/ NetAsk \/ NetRegister \/ NetSetup \/ Bind
  BY <1>7 DEF NetNew, NetAsk, NetRegister, NetSetup, Bind, ChipAnswers
<1>8. CASE Unbind \/ Reload
  BY <1>8 DEF Unbind, Reload
<1>9. CASE DeinitNet
  BY <1>9 DEF DeinitNet, NextDown
<1>10. CASE DeinitPart
  BY <1>10 DEF DeinitPart, NextDown
<1>11. CASE Claim \/ Detach \/ Clear
  BY <1>11 DEF Claim, Detach, Clear
<1>12. CASE ReleaseIrqs \/ ReleaseGpios
  BY <1>12 DEF ReleaseIrqs, ReleaseGpios
<1>13. CASE Free
  BY <1>13 DEF Free
<1>14. CASE Interrupt \/ InterruptDone
  BY <1>14 DEF Interrupt, InterruptDone
<1> QED BY <1>1, <1>2, <1>3, <1>4, <1>5, <1>6, <1>7, <1>8, <1>9, <1>10, <1>11, <1>12, <1>13, <1>14 DEF Module, Probing, Removing

\* The invariant of the bus holds at the start.
LEMMA BusInitial == Init => BusInv
<1> SUFFICES ASSUME Init
             PROVE  BusInv
  OBVIOUS
<1>1. StepTypes
  <2>1. Len(DeinitOrder) = 9
    BY PartsOfCore
  <2>2. bus \in {"spi", "sdio"} /\ probes \in 0..MaxProbe
    BY BusAssumption, BoundAssumption DEF Init
  <2>3. step \in Step /\ nth \in 0..9
    BY DEF Init, Step
  <2> QED BY <2>1, <2>2, <2>3 DEF Init, StepTypes
<1>2. DeviceTypes
  <2>1. 0 \in 0..MaxProbe /\ held \in [Resource -> {0}]
    BY BoundAssumption DEF Init
  <2> QED BY <2>1 DEF Init, DeviceTypes
<1>3. ModuleInv /\ InterfaceInv /\ HeapInv
  BY DEF Init, ModuleInv, InterfaceInv, HeapInv, Attached, Detached, Absent, NetStep
<1>4. CoreInv /\ WiphyInv
  BY DEF Init, CoreInv, WiphyInv, Attached, Detached, Absent, NetStep
<1>5. HeldInv /\ CallbacksInv /\ AnswerInv
  BY DEF Init, HeldInv, CallbacksInv, AnswerInv, Attached, Detached, Absent, NetStep, Resource
<1> QED BY <1>1, <1>2, <1>3, <1>4, <1>5 DEF BusInv, Types

\* Transfers and the chip leave the probe alone.
LEMMA TransfersKeepBus ==
  ASSUME BusInv, UNCHANGED outside
  PROVE  BusInv'
<1>1. Types'
  BY DEF outside, deviceVars, BusInv, Types, StepTypes, DeviceTypes
<1>2. ModuleInv' /\ InterfaceInv' /\ HeapInv'
  BY DEF outside, deviceVars, BusInv, ModuleInv, InterfaceInv, HeapInv, Attached, Detached, Absent, NetStep
<1>3. CoreInv' /\ WiphyInv'
  BY DEF outside, deviceVars, BusInv, CoreInv, WiphyInv, Attached, Detached, Absent, NetStep
<1>4. HeldInv' /\ CallbacksInv' /\ AnswerInv'
  BY DEF outside, deviceVars, BusInv, HeldInv, CallbacksInv, AnswerInv, Attached, Detached, Absent, NetStep
<1> QED BY <1>1, <1>2, <1>3, <1>4 DEF BusInv

\* Every step keeps the invariant of the bus.
LEMMA BusStep == BusInv /\ [Next]_vars => BusInv'
<1> SUFFICES ASSUME BusInv, [Next]_vars
             PROVE  BusInv'
  OBVIOUS
<1>1. CASE Module \/ Probing \/ Removing \/ Interrupt \/ InterruptDone
  BY <1>1, StepTypesKept, DeviceTypesKept, ModuleInvKept, InterfaceInvKept, HeapInvKept,
     CoreInvKept, WiphyInvKept, HeldInvKept, CallbacksInvKept, AnswerInvKept DEF BusInv, Types
<1>2. CASE Edge \/ StateInterrupt
  BY <1>2, TransfersKeepBus DEF Edge, StateInterrupt
<1>3. ASSUME NEW u \in User, Transfer(u)
      PROVE  BusInv'
  <2>1. UNCHANGED outside
    BY <1>3 DEF Transfer, Lock, ResetFlag, Sync, WaitFlag, Unlock, SdioClaim, SdioRead, SdioWrite
  <2> QED BY <2>1, TransfersKeepBus
<1>4. CASE UNCHANGED vars
  BY <1>4, TransfersKeepBus DEF vars, outside
<1> QED BY <1>1, <1>2, <1>3, <1>4 DEF Next

\* Both invariants hold in every state.
LEMMA BusInvariant == Spec => [](BusInv /\ XferInv)
<1>1. Init => BusInv /\ XferInv
  BY BusInitial, XferInit
<1>2. BusInv /\ XferInv /\ [Next]_vars => (BusInv /\ XferInv)'
  BY BusStep, XferStep
<1> QED BY <1>1, <1>2, PTL DEF Spec

\* For any number of probes and threads, the variables stay of their kinds, one thread at
\* a time is inside a transfer and the core is there only with its interface.
THEOREM BusTypeCorrect == Spec => []BusTypeOK
<1>1. BusInv /\ XferInv => BusTypeOK
  BY DEF BusInv, Types, StepTypes, DeviceTypes, CoreInv, XferInv, OneTransfer, BusTypeOK
<1> QED BY <1>1, BusInvariant, PTL

\* k_spi_rrq61000_remove and k_sdio_rrq61000_remove give back what a probe acquired,
\* however far the probe came.
THEOREM RemovesUndoProbes == Spec => []RemoveUndoesProbe
<1>1. BusInv => RemoveUndoesProbe
  <2> SUFFICES ASSUME BusInv, step = "idle", ~bound, ~leaked
               PROVE  heap = {} /\ core = {} /\ wiphy = "none" /\ attached = 0 /\ ~dev /\ ~claimed
                      /\ \A r \in Resource : held[r] = 0
    BY DEF RemoveUndoesProbe
  <2>1. Absent
    BY DEF Absent
  <2> QED BY <2>1 DEF BusInv, InterfaceInv, HeapInv, CoreInv, WiphyInv, HeldInv
<1> QED BY <1>1, BusInvariant, PTL

\* Neither an interrupt's handler nor an interrupt that may come refers to an interface that
\* was freed, and neither outlives the callbacks.
THEOREM NoInterruptDangles == Spec => []NothingDangles
<1>1. BusInv => NothingDangles
  BY DEF BusInv, HeldInv, CallbacksInv, NothingDangles, Resource
<1> QED BY <1>1, BusInvariant, PTL

\* A device whose probe succeeded has all of its core, its interrupt and a chip that has
\* answered.
THEOREM BoundDevicesAnswer == Spec => []BoundDeviceAnswers
<1>1. BusInv => BoundDeviceAnswers
  BY DEF BusInv, InterfaceInv, CoreInv, AnswerInv, Attached, BoundDeviceAnswers
<1> QED BY <1>1, BusInvariant, PTL
=============================================================================
