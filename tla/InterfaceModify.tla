--------------------------- MODULE InterfaceModify ---------------------------
(***************************************************************************)
(* One "dabba interface <kind> modify" command, the dabbad handler that    *)
(* serves it (dabbad/interface-*.c), the kernel's settings of the          *)
(* interface, and another program that changes them meanwhile.             *)
(*                                                                         *)
(* Every kernel call is a step of its own and may fail.  The settings are  *)
(* a function from fields to numbers; the port of struct ethtool_cmd is    *)
(* the set of the bits that are set in it.                                 *)
(***************************************************************************)
EXTENDS InterfaceCli, FiniteSets

CONSTANTS
    Used,         \* for each kind, the options that commands give
    Values,       \* the numbers that options give
    Speeds,       \* the speeds that "capabilities --speed" gives
    MaxArgs,      \* bound: options of a command
    MaxTouches    \* bound: settings changed by another program

ASSUME UsedAssumption == \A k \in Kinds : Used[k] \subseteq Options(k)
ASSUME ValuesAssumption == 0 \in Values /\ Values \subseteq Nat
ASSUME SpeedsAssumption == Speeds \subseteq Nat /\ Speeds \cap EthernetSpeeds # {}
ASSUME BoundsAssumption == MaxArgs \in Nat /\ MaxTouches \in Nat

ENOMEM == 12
ENODEV == 19
EOPNOTSUPP == 95
NlError == -7     \* what rtnl_link_change() returns when it fails
Codes == {0, Usage, EINVAL, ENOMEM, ENODEV, EOPNOTSUPP, NlError}

Port == <<"cmd", "port">>
PortBits == 0..2

(* PORT_AUI is 1, PORT_MII 2, PORT_FIBRE 3, PORT_BNC 4 and PORT_TP 0. *)
PortCode == [aui |-> {0}, mii |-> {1}, fibre |-> {0, 1}, bnc |-> {2}, tp |-> {}]
OffloadOrder == <<"rx_csum", "tx_csum", "sg", "tso", "ufo", "gso", "gro">>
Features == 1..7
Feature(n) == <<"offload", OffloadOrder[n]>>

MessageFields ==
    UNION {{FieldOf(k, o, s) : o \in Used[k] \ (IF k = "capabilities" THEN {"speed"} ELSE {}),
                               s \in Speeds \cap EthernetSpeeds} : k \in Kinds}

(* 10Gbps cannot advertise half duplex. *)
DevFields ==
    {Port} \cup {f \in MessageFields : f[1] # "port" /\ f # <<"half", 10000>>}

(* The structure that a handler reads and writes back with one ioctl. *)
Struct(kind) ==
    {f \in DevFields :
        \/ kind \in {"pause", "coalesce"} /\ f[1] = kind
        \/ kind \in {"settings", "capabilities"} /\ f[1] \in {"cmd", "adv", "half", "full"}}

IsSettings(d) ==
    /\ DOMAIN d = DevFields
    /\ \A f \in DevFields : d[f] \in IF f = Port THEN SUBSET PortBits ELSE Values

VARIABLES
    dev,       \* the settings of the interface
    present,   \* whether the interface is there
    cmd,       \* where the dabba process is
    exit,      \* its exit code
    printed,   \* the error code it prints
    call,      \* the request and the handler's local variables
    others,    \* (history) the settings without what the handler did to them
    touched,   \* (history) fields that the other program changed
    racy       \* (history) those it changed between the handler's read and write

vars == <<dev, present, cmd, exit, printed, call, others, touched, racy>>

LinkPart(req) == {f \in DOMAIN req : f[1] = "link"}

(* The flags of a link, which rtnl_link_change() writes all at once. *)
Flags == {<<"link", o>> : o \in Checked["status"]} \cap DevFields

(***************************************************************************)
(* What rtnl_link_change(link, change) makes the kernel write: the         *)
(* attributes of the change and, when one of them is a flag, every flag,   *)
(* those that are not in the change from the cached link.  Only status     *)
(* changes flags.                                                          *)
(***************************************************************************)
LinkWrite(kind, req) ==
    LinkPart(req) \cup (IF kind = "status" /\ LinkPart(req) # {} THEN Flags ELSE {})

StructPart(kind, req) == {f \in DOMAIN req : f \in Struct(kind) \/ f[1] = "port"}

------------------------------------------------------------------------------
NoCall == [kind |-> "none", req |-> << >>, pc |-> "idle", rc |-> 0,
           link |-> << >>, copy |-> << >>, fetched |-> FALSE, left |-> {}]

Init ==
    /\ \E v \in Values, o \in Ports :
          dev = [f \in DevFields |-> IF f = Port THEN PortCode[o] ELSE v]
    /\ present = TRUE
    /\ cmd = "shell"
    /\ exit = 0
    /\ printed = 0
    /\ call = NoCall
    /\ others = dev
    /\ touched = {}
    /\ racy = {}

(***************************************************************************)
(* dabba: parse the options, connect, print the reply.                     *)
(***************************************************************************)
ArgValues(kind, opt) ==
    {Bad} \cup IF kind = "capabilities" /\ opt = "speed" THEN Speeds ELSE Values

Args(kind) ==
    UNION {[opt : {o}, val : ArgValues(kind, o)] : o \in Used[kind] \cup {"help"}}

Exits(code) == cmd' = "done" /\ exit' = code

(* The first error ends the command before anything is sent. *)
Rejects(kind, args) ==
    /\ cmd = "shell"
    /\ \E n \in DOMAIN args :
          /\ ErrorOf(kind, args[n]) # 0
          /\ \A m \in 1..(n - 1) : ErrorOf(kind, args[m]) = 0
          /\ Exits(ErrorOf(kind, args[n]))
    /\ UNCHANGED <<dev, present, printed, call, others, touched, racy>>

Accepts(kind, args) ==
    /\ cmd = "shell"
    /\ \A n \in DOMAIN args : ErrorOf(kind, args[n]) = 0
    /\ cmd' = "connect"
    /\ call' = [NoCall EXCEPT !.kind = kind, !.req = Message(kind, Given(args))]
    /\ UNCHANGED <<dev, present, exit, printed, others, touched, racy>>

ConnectFails ==
    /\ cmd = "connect"
    /\ Exits(EINVAL)
    /\ UNCHANGED <<dev, present, printed, call, others, touched, racy>>

(* The request reaches the handler of its kind: pause and coalesce start   *)
(* with the ioctl, the others look the interface up in a netlink cache.    *)
Connect ==
    /\ cmd = "connect"
    /\ cmd' = "waiting"
    /\ call' = [call EXCEPT !.pc = IF call.kind \in {"pause", "coalesce"}
                                   THEN "fetch" ELSE "lookup"]
    /\ UNCHANGED <<dev, present, exit, printed, others, touched, racy>>

(* The connection breaks because dabbad is ended: the command prints       *)
(* EINVAL.                                                                 *)
Killed ==
    /\ cmd = "waiting"
    /\ call' = [call EXCEPT !.pc = "dead"]
    /\ printed' = EINVAL
    /\ Exits(0)
    /\ UNCHANGED <<dev, present, others, touched, racy>>

Reply ==
    /\ call.pc = "reply"
    /\ cmd = "waiting"
    /\ call' = [call EXCEPT !.pc = "idle"]
    /\ printed' = call.rc
    /\ Exits(0)
    /\ UNCHANGED <<dev, present, others, touched, racy>>

(***************************************************************************)
(* dabbad                                                                  *)
(***************************************************************************)
HandlerOnly == UNCHANGED <<present, cmd, exit, printed, others, touched, racy>>

(* No memory for the cache, or no such interface in it. *)
LookupFails ==
    /\ call.pc = "lookup"
    /\ \E code \in {ENOMEM} \cup (IF present THEN {} ELSE {ENODEV}) :
          call' = [call EXCEPT !.pc = "reply", !.rc = code]
    /\ UNCHANGED dev
    /\ HandlerOnly

(* The cached link keeps the flags as they are now. *)
Lookup ==
    /\ call.pc = "lookup"
    /\ present
    /\ call' = [call EXCEPT
                  !.pc = IF call.kind = "status" THEN "change"
                         ELSE IF call.kind = "offload" THEN "offload" ELSE "fetch",
                  !.link = [f \in Flags |-> dev[f]],
                  !.left = {n \in Features : Feature(n) \in DOMAIN call.req}]
    /\ UNCHANGED dev
    /\ HandlerOnly

(* After the ethtool part, settings goes on to the netlink part. *)
AfterStruct == IF call.kind = "settings" /\ LinkPart(call.req) # {}
               THEN "change" ELSE "reply"

(* Each requested port is or-ed into the port, or masked out of it. *)
Masked(req, o, port) ==
    IF <<"port", o>> \notin DOMAIN req THEN port
    ELSE IF req[<<"port", o>>] # 0 THEN port \cup PortCode[o]
    ELSE port \ PortCode[o]

PortAfter(req, port) ==
    LET aui == Masked(req, "aui", port)
        bnc == Masked(req, "bnc", aui)
        fibre == Masked(req, "fibre", bnc)
        mii == Masked(req, "mii", fibre)
    IN  Masked(req, "tp", mii)

(* Mutant: the structure that is modified is not the one that was read. *)
ModifiedFromZero(kind, req) ==
    [f \in Struct(kind) |->
        IF f = Port THEN PortAfter(req, {})
        ELSE IF f \in DOMAIN req THEN req[f] ELSE 0]

(* The structure that was read, with the requested fields replaced. *)
Modified(kind, req) ==
    [f \in Struct(kind) |->
        IF f = Port THEN PortAfter(req, dev[Port])
        ELSE IF f \in DOMAIN req THEN req[f] ELSE dev[f]]

(* pause writes the structure back even if no field is requested. *)
Fetch ==
    /\ call.pc = "fetch"
    /\ present
    /\ call' = [call EXCEPT
                  !.pc = IF call.kind = "pause" \/ StructPart(call.kind, call.req) # {}
                         THEN "set" ELSE AfterStruct,
                  !.fetched = TRUE,
                  !.copy = Modified(call.kind, call.req)]
    /\ UNCHANGED dev
    /\ HandlerOnly

(* An ethtool call fails because the driver does not support it or the     *)
(* interface is gone.                                                      *)
EthtoolError == IF present THEN EOPNOTSUPP ELSE ENODEV

(* Mutant: the result of the get is not checked before the set. *)
FetchFailsGoesOn ==
    /\ call.pc = "fetch"
    /\ call' = [call EXCEPT !.pc = "set", !.rc = EthtoolError,
                            !.copy = Modified(call.kind, call.req)]
    /\ UNCHANGED dev
    /\ HandlerOnly

FetchFails ==
    /\ call.pc = "fetch"
    /\ call' = [call EXCEPT !.pc = AfterStruct, !.rc = EthtoolError]
    /\ UNCHANGED dev
    /\ HandlerOnly

(* capabilities ends with an rtnl_link_change() that changes nothing and   *)
(* whose result is not looked at.                                          *)
Set ==
    /\ call.pc = "set"
    /\ present
    /\ dev' = [f \in DevFields |-> IF f \in Struct(call.kind) THEN call.copy[f] ELSE dev[f]]
    /\ call' = [call EXCEPT !.pc = AfterStruct]
    /\ HandlerOnly

(* Mutant: the result of the set is dropped. *)
SetFailsQuietly ==
    /\ call.pc = "set"
    /\ call' = [call EXCEPT !.pc = AfterStruct]
    /\ UNCHANGED dev
    /\ HandlerOnly

SetFails ==
    /\ call.pc = "set"
    /\ call' = [call EXCEPT !.pc = AfterStruct, !.rc = EthtoolError]
    /\ UNCHANGED dev
    /\ HandlerOnly

LinkValue(f) == IF f \in DOMAIN call.req THEN call.req[f] ELSE call.link[f]

(* rtnl_link_change(): its result replaces the one of the ethtool part. *)
Change ==
    /\ call.pc = "change"
    /\ present
    /\ dev' = [f \in DevFields |-> IF f \in LinkWrite(call.kind, call.req)
                                  THEN LinkValue(f) ELSE dev[f]]
    /\ call' = [call EXCEPT !.pc = "reply", !.rc = 0]
    /\ HandlerOnly

(* The kernel applies the attributes one by one and stops at an error. *)
ChangeFails ==
    /\ call.pc = "change"
    /\ \E done \in SUBSET (IF present THEN LinkWrite(call.kind, call.req) ELSE {}) :
          dev' = [f \in DevFields |-> IF f \in done THEN LinkValue(f) ELSE dev[f]]
    /\ call' = [call EXCEPT !.pc = "reply", !.rc = NlError]
    /\ HandlerOnly

(* One ioctl per requested feature, in a fixed order, until one fails. *)
Offload ==
    /\ call.pc = "offload"
    /\ present
    /\ \E n \in call.left :
          /\ \A m \in call.left : n <= m
          /\ dev' = [dev EXCEPT ![Feature(n)] = call.req[Feature(n)]]
          /\ call' = [call EXCEPT !.left = @ \ {n}]
    /\ HandlerOnly

(* Mutant: the next feature is set although this one failed. *)
OffloadFailsGoesOn ==
    /\ call.pc = "offload"
    /\ \E n \in call.left :
          /\ \A m \in call.left : n <= m
          /\ call' = [call EXCEPT !.left = @ \ {n}, !.rc = EthtoolError]
    /\ UNCHANGED dev
    /\ HandlerOnly

OffloadFails ==
    /\ call.pc = "offload"
    /\ call.left # {}
    /\ call' = [call EXCEPT !.pc = "reply", !.rc = EthtoolError]
    /\ UNCHANGED dev
    /\ HandlerOnly

OffloadDone ==
    /\ call.pc = "offload"
    /\ call.left = {}
    /\ call' = [call EXCEPT !.pc = "reply"]
    /\ UNCHANGED dev
    /\ HandlerOnly

(***************************************************************************)
(* Another program, and the hardware.                                      *)
(***************************************************************************)
(* What the handler has read and is about to write back. *)
Pending ==
    IF call.pc = "set" THEN Struct(call.kind)
    ELSE IF call.pc = "change" THEN LinkWrite(call.kind, call.req) ELSE {}

Touch(f) ==
    /\ cmd = "waiting"
    /\ present
    /\ f \notin touched
    /\ Cardinality(touched) < MaxTouches
    /\ \E v \in (IF f = Port THEN {PortCode[o] : o \in Ports} ELSE Values)
                 \ {dev[f]} :
          /\ dev' = [dev EXCEPT ![f] = v]
          /\ others' = [others EXCEPT ![f] = v]
    /\ touched' = touched \cup {f}
    /\ racy' = racy \cup ({f} \cap Pending)
    /\ UNCHANGED <<present, cmd, exit, printed, call>>

Unplug ==
    /\ cmd = "waiting"
    /\ present
    /\ present' = FALSE
    /\ UNCHANGED <<dev, cmd, exit, printed, call, others, touched, racy>>

Environment == Unplug \/ \E f \in DevFields : Touch(f)

Handler ==
    \/ Lookup \/ LookupFails \/ Fetch \/ FetchFails \/ Set \/ SetFails
    \/ Change \/ ChangeFails \/ Offload \/ OffloadFails \/ OffloadDone

Command ==
    \/ \E kind \in Kinds : \E args \in SeqOf(Args(kind), MaxArgs) :
          Rejects(kind, args) \/ Accepts(kind, args)
    \/ Connect \/ ConnectFails \/ Reply \/ Killed

Next == Command \/ Handler \/ Environment

Spec == Init /\ [][Next]_vars

------------------------------------------------------------------------------
TypeOK ==
    /\ IsSettings(dev) /\ IsSettings(others)
    /\ present \in BOOLEAN
    /\ cmd \in {"shell", "connect", "waiting", "done"}
    /\ exit \in Codes /\ printed \in Codes /\ call.rc \in Codes
    /\ call.pc \in {"idle", "lookup", "fetch", "set", "change", "offload", "reply", "dead"}
    /\ call.kind \in Kinds \cup {"none"}
    /\ DOMAIN call.req \subseteq MessageFields
    /\ call.pc = "set" => DOMAIN call.copy = Struct(call.kind)
    /\ racy \subseteq touched /\ touched \subseteq DevFields

Requested == DOMAIN call.req
RequestedBits == UNION {PortCode[o] : o \in {p \in Ports : <<"port", p>> \in Requested}}

(* "This RPC only modifies the requested settings" (the modify handlers of *)
(* dabbad/interface-*.c): what is not requested keeps the value that it    *)
(* had or that another program gave it, and of the port no bits change     *)
(* other than those of the requested ports.  The exception is what that    *)
(* program changes while the handler holds what it has read: between its   *)
(* get and its set, and in status between the link cache and the change,   *)
(* which writes every flag.                                                *)
OnlyRequested ==
    \A f \in DevFields \ (Requested \cup racy) :
        IF f = Port
        THEN \A b \in PortBits \ RequestedBits : b \in dev[f] <=> b \in others[f]
        ELSE dev[f] = others[f]

Unchanged(fields) == \A f \in fields \ touched : dev[f] = others[f]
Applied(fields) == \A f \in fields \ touched : dev[f] = call.req[f]

Mixed == call.kind = "settings" /\ LinkPart(call.req) # {} /\ StructPart(call.kind, call.req) # {}

(* If the settings cannot be fetched nothing of that structure is          *)
(* modified, in settings not even when the netlink part goes ahead; and a  *)
(* command of one part that prints an error has modified nothing, as the   *)
(* structure is written as a whole.                                        *)
AllOrNothing ==
    /\ ~call.fetched => Unchanged(Struct(call.kind))
    /\ call.pc = "idle" /\ printed # 0 /\ ~Mixed => Unchanged(Struct(call.kind))

FlagFeatures == {<<"offload", "lro">>, <<"offload", "rxhash">>}

(* A command that prints 0 has applied every setting it was asked for,     *)
(* unless it asked for hardware and netlink settings at once, for the      *)
(* features behind ethtool's flags, or for 10Gbps half duplex.             *)
ZeroMeansApplied ==
    cmd = "done" /\ exit = 0 /\ printed = 0 /\ ~Mixed =>
        Applied((Requested \cap DevFields) \ FlagFeatures)

(* "if a modification fails no further modifications are applied"          *)
(* (dabbad/interface-offload.c): at any time, even if dabbad is ended, the *)
(* requested features that are applied come before the ones that are not.  *)
OffloadsInOrder ==
    call.kind = "offload" =>
        \E n \in 0..7 :
            /\ Applied({Feature(m) : m \in 1..n} \cap Requested)
            /\ Unchanged({Feature(m) : m \in (n + 1)..7} \cap Requested)
=============================================================================
