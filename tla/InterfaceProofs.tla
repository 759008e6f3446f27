--------------------------- MODULE InterfaceProofs ---------------------------
(***************************************************************************)
(* What a modify command leaves alone and what its result says, for every  *)
(* set of options, values and speeds, any number of options in a command   *)
(* and of changes by other programs; and that what a get command prints is *)
(* true and complete, for all names, devices and changes.                  *)
(***************************************************************************)
EXTENDS InterfaceModify, InterfaceGet, FiniteSetTheorems, WellFoundedInduction, TLAPS

StructKinds == {"settings", "capabilities", "pause", "coalesce"}

(* Which fields a request of each kind has. *)
Wellformed(kind, asked) ==
    \A f \in DOMAIN asked :
        /\ f # Port
        /\ kind = "status" => f[1] = "link"
        /\ kind = "settings" => f[1] \in {"link", "cmd"}
        /\ kind \in {"pause", "coalesce"} => f[1] = kind
        /\ kind = "capabilities" => f[1] \in {"port", "half", "full", "adv"}
        /\ kind = "offload" => /\ f \in DevFields
                               /\ f \in FlagFeatures \/ \E n \in Features : f = Feature(n)

-----------------------------------------------------------------------------
(* An option of a kind fills a field of that kind. *)
LEMMA FieldsByKind ==
    ASSUME NEW kind \in Kinds, NEW o \in Options(kind), NEW s
    PROVE  LET f == FieldOf(kind, o, s)
           IN  /\ f # Port
               /\ kind = "status" => f[1] = "link"
               /\ kind = "settings" => f[1] \in {"link", "cmd"}
               /\ kind \in {"pause", "coalesce"} => f[1] = kind
               /\ kind = "capabilities" => f[1] \in {"port", "half", "full", "adv"}
               /\ kind = "offload" => f = <<"offload", o>>
  BY DEF FieldOf, GroupOf, Port, Options, Checked, Numbers, LinkOptions, Duplexes, Ports, Kinds,
         CoalesceNumbers

(* The offload options are the features dabbad sets and the flags. *)
LEMMA OffloadOptions ==
    ASSUME NEW o \in Options("offload")
    PROVE  <<"offload", o>> \in FlagFeatures \/ \E n \in Features : <<"offload", o>> = Feature(n)
  <1>1. o \in {"rx_csum", "tx_csum", "sg", "tso", "ufo", "gso", "gro", "lro", "rxhash"}
    BY DEF Options, Checked, Numbers
  <1>2. CASE o \in {"lro", "rxhash"}
    BY <1>2 DEF FlagFeatures
  <1>3. CASE o = OffloadOrder[1] BY <1>3 DEF Feature, Features
  <1>4. CASE o = OffloadOrder[2] BY <1>4 DEF Feature, Features
  <1>5. CASE o = OffloadOrder[3] BY <1>5 DEF Feature, Features
  <1>6. CASE o = OffloadOrder[4] BY <1>6 DEF Feature, Features
  <1>7. CASE o = OffloadOrder[5] BY <1>7 DEF Feature, Features
  <1>8. CASE o = OffloadOrder[6] BY <1>8 DEF Feature, Features
  <1>9. CASE o = OffloadOrder[7] BY <1>9 DEF Feature, Features
  <1> QED BY <1>1, <1>2, <1>3, <1>4, <1>5, <1>6, <1>7, <1>8, <1>9 DEF OffloadOrder

(* No feature is set twice. *)
LEMMA FeaturesDiffer ==
    ASSUME NEW m \in Features, NEW n \in Features, Feature(m) = Feature(n)
    PROVE  m = n
  <1>1. OffloadOrder[m] = OffloadOrder[n]
    BY DEF Feature
  <1> QED BY <1>1 DEF Features, OffloadOrder

(* What an accepted command sends. *)
LEMMA RequestsWellformed ==
    ASSUME NEW kind \in Kinds, NEW args \in SeqOf(Args(kind), MaxArgs),
           \A n \in DOMAIN args : ErrorOf(kind, args[n]) = 0
    PROVE  Wellformed(kind, Message(kind, Given(args)))
  <1> DEFINE opts == Given(args)
  <1>1. ASSUME NEW n \in DOMAIN args
        PROVE  args[n].opt \in Options(kind) /\ args[n].opt \in Used[kind]
    <2>1. args[n].opt \in Options(kind)
      BY DEF ErrorOf, Usage
    <2>2. args[n] \in Args(kind)
      BY DEF SeqOf
    <2>3. PICK o \in Used[kind] \cup {"help"} :
             args[n] \in [opt : {o}, val : ArgValues(kind, o)]
      BY <2>2 DEF Args
    <2>4. "help" \notin Options(kind)
      BY DEF Options, Checked, Numbers, Kinds, Ports, Duplexes, LinkOptions, CoalesceNumbers
    <2> QED BY <2>1, <2>3, <2>4
  <1>2. \A o \in DOMAIN opts : o \in Options(kind) /\ o \in Used[kind]
    BY <1>1 DEF Given
  <1>3. ASSUME NEW f \in DOMAIN Message(kind, opts)
        PROVE  \E o \in DOMAIN opts : \E s : f = FieldOf(kind, o, s)
    BY DEF Message, CapabilitiesMessage
  <1>4. ASSUME NEW o \in DOMAIN opts, kind = "offload"
        PROVE  <<"offload", o>> \in DevFields
    <2>1. PICK s : s \in Speeds \cap EthernetSpeeds
      BY SpeedsAssumption
    <2>2. FieldOf("offload", o, s) = <<"offload", o>>
      BY <1>2, <1>4, FieldsByKind
    <2>3. <<"offload", o>> \in MessageFields
      BY <1>2, <1>4, <2>1, <2>2 DEF MessageFields
    <2> QED BY <2>3 DEF DevFields
  <1> HIDE DEF opts
  <1>5. ASSUME NEW f \in DOMAIN Message(kind, opts)
        PROVE  /\ f # Port
               /\ kind = "status" => f[1] = "link"
               /\ kind = "settings" => f[1] \in {"link", "cmd"}
               /\ kind \in {"pause", "coalesce"} => f[1] = kind
               /\ kind = "capabilities" => f[1] \in {"port", "half", "full", "adv"}
               /\ kind = "offload" => /\ f \in DevFields
                                      /\ f \in FlagFeatures \/ \E n \in Features : f = Feature(n)
    <2>1. PICK o \in DOMAIN opts : \E s : f = FieldOf(kind, o, s)
      BY <1>3
    <2>2. PICK s : f = FieldOf(kind, o, s)
      BY <2>1
    <2>3. o \in Options(kind)
      BY <1>2
    <2>4. kind = "offload" => f = <<"offload", o>>
      BY <2>2, <2>3, FieldsByKind
    <2>5. kind = "offload" => f \in FlagFeatures \/ \E n \in Features : f = Feature(n)
      BY <2>3, <2>4, OffloadOptions
    <2> QED BY <2>2, <2>3, <2>4, <2>5, <1>4, FieldsByKind
  <1> QED BY <1>5 DEF Wellformed, opts

-----------------------------------------------------------------------------
(* The inductive invariant.  Shape: where the command and the handler can  *)
(* be together, and with what.  Calm: nothing is written before the set.   *)
(* CopyGood and LinkGood: what the set and the netlink change are about to *)
(* write.  The others carry the four properties through the handler.       *)
Shape ==
    /\ DOMAIN dev = DevFields /\ DOMAIN others = DevFields
    /\ DOMAIN call = {"kind", "req", "pc", "rc", "link", "copy", "fetched", "left"}
    /\ call.kind \in Kinds \cup {"none"}
    /\ cmd \in {"shell", "connect", "waiting", "done"}
    /\ Wellformed(call.kind, call.req)
    /\ racy \subseteq touched
    /\ cmd \in {"shell", "connect"} =>
          call.pc = "idle" /\ printed = 0 /\ call.rc = 0 /\ ~call.fetched
    /\ cmd = "connect" => call.kind # "none"
    /\ cmd = "waiting" => /\ call.pc \notin {"idle", "dead"}
                          /\ call.kind # "none"
    /\ cmd = "done" => call.pc \in {"idle", "dead"}
    /\ call.pc \in {"fetch", "set"} => call.kind \in StructKinds
    /\ call.pc = "change" => \/ call.kind = "status"
                             \/ call.kind = "settings" /\ LinkPart(call.req) # {}
    /\ call.pc = "offload" => call.kind = "offload"
    /\ call.pc \in {"lookup", "fetch", "set", "offload"} => call.rc = 0
    /\ call.pc \in {"lookup", "fetch", "offload"} => ~call.fetched
    /\ call.pc = "set" => /\ call.fetched
                          /\ call.kind = "pause" \/ StructPart(call.kind, call.req) # {}

Calm ==
    cmd \in {"shell", "connect"} \/ call.pc \in {"lookup", "fetch", "set"} =>
        \A f \in DevFields : dev[f] = others[f]

SameBits(p, q) == \A b \in PortBits \ RequestedBits : b \in p <=> b \in q

CopyGood ==
    call.pc = "set" =>
        \A f \in Struct(call.kind) :
            /\ f \in Requested => call.copy[f] = call.req[f]
            /\ f \notin Requested \cup racy =>
                  IF f = Port THEN SameBits(call.copy[f], others[f])
                  ELSE call.copy[f] = others[f]

(* The flags that the change takes from the cached link are the current    *)
(* ones, unless another program has changed them since.                    *)
LinkGood ==
    call.pc = "change" =>
        \A f \in LinkWrite(call.kind, call.req) \ (Requested \cup racy) :
            f # Port /\ call.link[f] = others[f]

FailureKept ==
    /\ ~call.fetched => Unchanged(Struct(call.kind))
    /\ ~Mixed /\ call.pc = "change" => Unchanged(Struct(call.kind))
    /\ ~Mixed /\ call.pc = "reply" /\ call.rc # 0 => Unchanged(Struct(call.kind))
    /\ ~Mixed /\ call.pc = "idle" /\ printed # 0 => Unchanged(Struct(call.kind))

Promised == (Requested \cap DevFields) \ FlagFeatures

SuccessKept ==
    /\ ~Mixed /\ call.pc = "reply" /\ call.rc = 0 => Applied(Promised)
    /\ ~Mixed /\ call.pc = "idle" /\ cmd = "done" /\ exit = 0 /\ printed = 0 => Applied(Promised)
    /\ call.pc = "dead" => printed # 0

(* The features up to n are applied and those behind n are not. *)
UpTo(n) ==
    /\ Applied({Feature(m) : m \in 1..n} \cap Requested)
    /\ Unchanged({Feature(m) : m \in (n + 1)..7} \cap Requested)

OrderKept ==
    /\ call.kind = "offload" => \E n \in 0..7 : UpTo(n)
    /\ call.pc = "offload" =>
          \E n \in 0..7 :
             /\ UpTo(n)
             /\ call.left = {m \in (n + 1)..7 : Feature(m) \in Requested}

IInv ==
    /\ Shape /\ Calm /\ CopyGood /\ LinkGood
    /\ OnlyRequested /\ FailureKept /\ SuccessKept /\ OrderKept

(* Nothing of a structure that is read with an ioctl is set by netlink or  *)
(* by the offload calls, and what is asked of it is a part of it.          *)
LEMMA StructFields ==
    ASSUME NEW kind
    PROVE  /\ Struct(kind) \subseteq DevFields
           /\ \A f \in Struct(kind) : f[1] # "link" /\ f[1] # "offload"
           /\ kind \notin StructKinds => Struct(kind) = {}
  BY DEF Struct, StructKinds

(* What netlink writes are link attributes and, but for status, only those *)
(* that are requested.                                                     *)
LEMMA LinkFields ==
    ASSUME NEW kind, NEW asked
    PROVE  /\ Flags \subseteq DevFields
           /\ \A f \in LinkWrite(kind, asked) : f[1] = "link" /\ f # Port
           /\ \A f \in LinkWrite(kind, asked) : f \in DOMAIN asked \/ f \in Flags
           /\ kind # "status" => LinkWrite(kind, asked) \subseteq DOMAIN asked
  <1>1. \A f \in Flags : f[1] = "link"
    BY DEF Flags
  <1>2. \A f \in LinkPart(asked) : f \in DOMAIN asked /\ f[1] = "link"
    BY DEF LinkPart
  <1>3. Port[1] # "link"
    BY DEF Port
  <1>4. Flags \subseteq DevFields
    BY DEF Flags
  <1> QED BY <1>1, <1>2, <1>3, <1>4 DEF LinkWrite

LEMMA AskedOfStruct ==
    ASSUME NEW kind \in StructKinds, NEW asked, Wellformed(kind, asked),
           NEW f \in DOMAIN asked, f \in DevFields, f \notin LinkPart(asked)
    PROVE  f \in Struct(kind) /\ f \in StructPart(kind, asked)
  <1>1. f[1] # "port"
    BY DEF DevFields, Port
  <1>2. f[1] # "link"
    BY DEF LinkPart
  <1>3. f \in Struct(kind)
    BY <1>1, <1>2 DEF Wellformed, Struct, StructKinds
  <1> QED BY <1>3 DEF StructPart

(* What does not depend on where the handler is. *)
LEMMA Frame ==
    ASSUME dev' = dev, others' = others, touched' = touched, racy' = racy,
           call'.kind = call.kind, call'.req = call.req
    PROVE  /\ OnlyRequested' <=> OnlyRequested
           /\ Unchanged(Struct(call.kind))' <=> Unchanged(Struct(call.kind))
           /\ Applied(Promised)' <=> Applied(Promised)
           /\ Mixed' <=> Mixed
           /\ \A n : UpTo(n)' <=> UpTo(n)
           /\ Requested' = Requested
           /\ RequestedBits' = RequestedBits
  <1>1. Requested' = Requested
    BY DEF Requested
  <1>2. RequestedBits' = RequestedBits
    BY <1>1 DEF RequestedBits
  <1>3. OnlyRequested' <=> OnlyRequested
    BY <1>1, <1>2 DEF OnlyRequested
  <1>4. Unchanged(Struct(call.kind))' <=> Unchanged(Struct(call.kind))
    BY DEF Unchanged
  <1>5. Applied(Promised)' <=> Applied(Promised)
    BY <1>1 DEF Applied, Promised
  <1>6. Mixed' <=> Mixed
    BY DEF Mixed
  <1>7. \A n : UpTo(n)' <=> UpTo(n)
    BY <1>1 DEF UpTo, Applied, Unchanged
  <1> QED BY <1>1, <1>2, <1>3, <1>4, <1>5, <1>6, <1>7

(* Before anything is written every property holds of what is there. *)
LEMMA CalmHolds ==
    ASSUME \A f \in DevFields : dev[f] = others[f], Wellformed(call.kind, call.req)
    PROVE  /\ OnlyRequested
           /\ Unchanged(Struct(call.kind))
           /\ call.kind = "offload" => UpTo(0)
  <1>1. OnlyRequested
    BY DEF OnlyRequested
  <1>2. Unchanged(Struct(call.kind))
    BY StructFields DEF Unchanged
  <1>3. ASSUME call.kind = "offload" PROVE UpTo(0)
    <2>1. Requested \subseteq DevFields
      BY <1>3 DEF Requested, Wellformed
    <2>2. Applied({Feature(m) : m \in 1..0} \cap Requested)
      BY DEF Applied
    <2> QED BY <2>1, <2>2 DEF UpTo, Unchanged
  <1> QED BY <1>1, <1>2, <1>3

(* The invariant holds before a command is given. *)
THEOREM Initially == Init => IInv
  <1> SUFFICES ASSUME Init PROVE IInv
    OBVIOUS
  <1>1. Shape
    BY DEF Init, Shape, NoCall, Wellformed, StructKinds
  <1>2. Calm /\ CopyGood /\ LinkGood
    BY DEF Init, Calm, CopyGood, LinkGood, NoCall
  <1>3. OnlyRequested /\ Unchanged(Struct(call.kind))
    BY <1>1, CalmHolds DEF Init, Shape
  <1>4. FailureKept
    BY <1>3 DEF FailureKept
  <1>5. SuccessKept /\ OrderKept
    BY DEF SuccessKept, OrderKept, Init, NoCall
  <1> QED BY <1>1, <1>2, <1>3, <1>4, <1>5 DEF IInv

-----------------------------------------------------------------------------
(* A step that only moves the handler or the command along. *)
LEMMA QuietStep ==
    ASSUME IInv,
           \/ \E kind \in Kinds : \E args \in SeqOf(Args(kind), MaxArgs) : Rejects(kind, args)
           \/ Connect \/ ConnectFails \/ Killed \/ Reply
           \/ LookupFails \/ FetchFails \/ SetFails \/ OffloadFails \/ OffloadDone \/ Unplug
    PROVE  IInv'
  <1> USE DEF IInv
  <1>1. /\ dev' = dev /\ others' = others /\ touched' = touched /\ racy' = racy
        /\ call'.kind = call.kind /\ call'.req = call.req
        /\ call'.copy = call.copy /\ call'.left = call.left /\ call'.fetched = call.fetched
        /\ call'.link = call.link
        /\ DOMAIN call' = DOMAIN call
    <2>1. CASE \/ \E kind \in Kinds : \E args \in SeqOf(Args(kind), MaxArgs) : Rejects(kind, args)
               \/ ConnectFails \/ Unplug
      BY <2>1 DEF Rejects, ConnectFails, Unplug
    <2>2. CASE Connect \/ Killed \/ Reply
      BY <2>2 DEF Connect, Killed, Reply, Shape
    <2>3. CASE LookupFails
      BY <2>3 DEF LookupFails, HandlerOnly, Shape
    <2>4. CASE FetchFails \/ SetFails
      BY <2>4 DEF FetchFails, SetFails, HandlerOnly, Shape
    <2>5. CASE OffloadFails \/ OffloadDone
      BY <2>5 DEF OffloadFails, OffloadDone, HandlerOnly, Shape
    <2> QED BY <2>1, <2>2, <2>3, <2>4, <2>5
  <1>2. /\ OnlyRequested' <=> OnlyRequested
        /\ Unchanged(Struct(call.kind))' <=> Unchanged(Struct(call.kind))
        /\ Applied(Promised)' <=> Applied(Promised)
        /\ Mixed' <=> Mixed
        /\ \A n : UpTo(n)' <=> UpTo(n)
        /\ Requested' = Requested
        /\ RequestedBits' = RequestedBits
    BY <1>1, Frame
  <1>3. Wellformed(call.kind, call.req)'
    BY <1>1 DEF Wellformed, Shape
  <1>4. Shape'
    <2>1. CASE \E kind \in Kinds : \E args \in SeqOf(Args(kind), MaxArgs) : Rejects(kind, args)
      BY <2>1, <1>1, <1>3 DEF Shape, Rejects, Exits
    <2>2. CASE Connect
      BY <2>2, <1>1, <1>3 DEF Shape, Connect, StructKinds
    <2>3. CASE ConnectFails \/ Killed \/ Reply
      BY <2>3, <1>1, <1>3 DEF Shape, ConnectFails, Killed, Reply, Exits
    <2>4. CASE LookupFails \/ OffloadFails \/ OffloadDone \/ Unplug
      BY <2>4, <1>1, <1>3 DEF Shape, LookupFails, OffloadFails, OffloadDone, Unplug, HandlerOnly
    <2>5. CASE FetchFails \/ SetFails
      BY <2>5, <1>1, <1>3 DEF Shape, FetchFails, SetFails, HandlerOnly, AfterStruct
    <2> QED BY <2>1, <2>2, <2>3, <2>4, <2>5
  <1>5. Calm'
    BY <1>1 DEF Calm, Shape, Rejects, Connect, ConnectFails, Killed, Reply, LookupFails,
                FetchFails, SetFails, OffloadFails, OffloadDone, Unplug, HandlerOnly, Exits, AfterStruct
  <1>6. call'.pc = "set" => call.pc = "set"
    BY DEF Shape, Rejects, Connect, ConnectFails, Killed, Reply, LookupFails,
           FetchFails, SetFails, OffloadFails, OffloadDone, Unplug, HandlerOnly, AfterStruct
  <1>7. CopyGood'
    BY <1>1, <1>2, <1>6 DEF CopyGood, SameBits
  <1>8. FailureKept'
    <2>1. CASE \/ \E kind \in Kinds : \E args \in SeqOf(Args(kind), MaxArgs) : Rejects(kind, args)
               \/ Connect \/ ConnectFails \/ Killed \/ Reply \/ Unplug
      BY <2>1, <1>1, <1>2 DEF FailureKept, Shape, Rejects, Connect, ConnectFails, Killed, Reply, Unplug
    <2>2. CASE LookupFails \/ FetchFails \/ OffloadFails \/ OffloadDone
      BY <2>2, <1>1, <1>2 DEF FailureKept, Shape, LookupFails, FetchFails, OffloadFails,
                              OffloadDone, HandlerOnly, AfterStruct
    <2>3. CASE SetFails
      <3>1. Unchanged(Struct(call.kind))
        BY <2>3, CalmHolds DEF SetFails, Calm, Shape
      <3> QED BY <2>3, <3>1, <1>1, <1>2 DEF FailureKept
    <2> QED BY <2>1, <2>2, <2>3
  <1>9. SuccessKept'
    <2>1. CASE \E kind \in Kinds : \E args \in SeqOf(Args(kind), MaxArgs) : Rejects(kind, args)
      BY <2>1, <1>1, <1>2 DEF SuccessKept, Shape, Rejects, Exits
    <2>2. CASE Connect \/ ConnectFails \/ Killed \/ Reply \/ Unplug
      BY <2>2, <1>1, <1>2 DEF SuccessKept, Shape, Connect, ConnectFails, Killed, Reply, Unplug,
                              Exits, EINVAL
    <2>3. CASE LookupFails \/ FetchFails \/ SetFails \/ OffloadFails
      <3>1. EthtoolError # 0
        BY DEF EthtoolError, ENODEV, EOPNOTSUPP
      <3>2. call'.rc # 0
        <4>1. CASE LookupFails
          <5>1. PICK code \in {ENOMEM, ENODEV} : call' = [call EXCEPT !.pc = "reply", !.rc = code]
            BY <4>1 DEF LookupFails
          <5>2. code # 0
            BY DEF ENOMEM, ENODEV
          <5> QED BY <5>1, <5>2 DEF Shape
        <4>2. CASE FetchFails \/ SetFails \/ OffloadFails
          <5>1. call'.rc = EthtoolError
            BY <4>2 DEF Shape, FetchFails, SetFails, OffloadFails
          <5> QED BY <5>1, <3>1
        <4> QED BY <2>3, <4>1, <4>2
      <3>3. call'.pc \in {"reply", "change"}
        BY <2>3 DEF Shape, LookupFails, FetchFails, SetFails, OffloadFails, AfterStruct
      <3> QED BY <3>2, <3>3 DEF SuccessKept
    <2>4. CASE OffloadDone
      <3>1. PICK n \in 0..7 : UpTo(n) /\ call.left = {m \in (n + 1)..7 : Feature(m) \in Requested}
        BY <2>4 DEF OrderKept, OffloadDone
      <3>2. ASSUME NEW f \in Promised PROVE f \in touched \/ dev[f] = call.req[f]
        <4>1. PICK m \in Features : f = Feature(m)
          BY <2>4 DEF OffloadDone, Shape, Wellformed, Promised, Requested
        <4>2. m \in 1..n
          BY <2>4, <3>1, <4>1 DEF OffloadDone, Promised, Features
        <4> QED BY <3>1, <4>1, <4>2 DEF UpTo, Applied, Promised
      <3>3. Applied(Promised)
        BY <3>2 DEF Applied
      <3> QED BY <2>4, <3>3, <1>1, <1>2 DEF SuccessKept, OffloadDone, HandlerOnly, Shape
    <2> QED BY <2>1, <2>2, <2>3, <2>4
  <1>10. OrderKept'
    <2>1. call'.pc = "offload" => call.pc = "offload"
      BY DEF Shape, Rejects, Connect, ConnectFails, Killed, Reply, LookupFails,
             FetchFails, SetFails, OffloadFails, OffloadDone, Unplug, HandlerOnly, AfterStruct
    <2> QED BY <2>1, <1>1, <1>2 DEF OrderKept
  <1>11. LinkGood'
    <2>1. call'.pc = "change" => call.pc = "change" \/ call.kind # "status"
      BY DEF Shape, Rejects, Connect, ConnectFails, Killed, Reply, LookupFails,
             FetchFails, SetFails, OffloadFails, OffloadDone, Unplug, HandlerOnly, AfterStruct
    <2> QED BY <2>1, <1>1, <1>2, LinkFields DEF LinkGood, Requested
  <1> QED BY <1>2, <1>4, <1>5, <1>7, <1>8, <1>9, <1>10, <1>11

(* The command has parsed its options. *)
LEMMA AcceptsStep ==
    ASSUME IInv, NEW kind \in Kinds, NEW args \in SeqOf(Args(kind), MaxArgs), Accepts(kind, args)
    PROVE  IInv'
  <1> DEFINE asked == Message(kind, Given(args))
  <1>1. Wellformed(kind, asked)
    BY RequestsWellformed DEF Accepts
  <1> HIDE DEF asked
  <1>2. call' = [kind |-> kind, req |-> asked, pc |-> "idle", rc |-> 0,
                 link |-> << >>, copy |-> << >>, fetched |-> FALSE, left |-> {}]
    BY DEF Accepts, NoCall, asked
  <1>3. /\ dev' = dev /\ others' = others /\ touched' = touched /\ racy' = racy
        /\ cmd = "shell" /\ cmd' = "connect" /\ printed' = printed
    BY DEF Accepts
  <1>4. Shape'
    BY <1>1, <1>2, <1>3 DEF IInv, Shape, Wellformed, Kinds
  <1>5. Calm'
    BY <1>3 DEF IInv, Calm
  <1>6. (\A f \in DevFields : dev[f] = others[f])' /\ Wellformed(call.kind, call.req)'
    BY <1>3, <1>4, <1>5 DEF Calm, Shape
  <1>7. /\ OnlyRequested'
        /\ Unchanged(Struct(call.kind))'
        /\ (call.kind = "offload" => UpTo(0))'
    BY <1>6, CalmHolds, PTL
  <1>8. CopyGood' /\ LinkGood' /\ FailureKept' /\ SuccessKept' /\ OrderKept'
    BY <1>2, <1>3, <1>7 DEF CopyGood, LinkGood, FailureKept, SuccessKept, OrderKept
  <1> QED BY <1>4, <1>5, <1>7, <1>8 DEF IInv

(* The interface is in the cache. *)
LEMMA LookupStep ==
    ASSUME IInv, Lookup
    PROVE  IInv'
  <1> USE DEF IInv
  <1>1. /\ dev' = dev /\ others' = others /\ touched' = touched /\ racy' = racy
        /\ cmd' = cmd /\ printed' = printed /\ exit' = exit
        /\ call'.kind = call.kind /\ call'.req = call.req /\ call'.fetched = call.fetched
        /\ call'.rc = call.rc /\ DOMAIN call' = DOMAIN call
        /\ call.pc = "lookup"
        /\ call'.pc = IF call.kind = "status" THEN "change"
                      ELSE IF call.kind = "offload" THEN "offload" ELSE "fetch"
        /\ call'.link = [f \in Flags |-> dev[f]]
        /\ call'.left = {n \in Features : Feature(n) \in DOMAIN call.req}
    BY DEF Lookup, HandlerOnly, Shape
  <1>2. /\ OnlyRequested' <=> OnlyRequested
        /\ Unchanged(Struct(call.kind))' <=> Unchanged(Struct(call.kind))
        /\ \A n : UpTo(n)' <=> UpTo(n)
        /\ Requested' = Requested
    BY <1>1, Frame
  <1>3. Shape'
    <2>1. Wellformed(call.kind, call.req)'
      BY <1>1 DEF Wellformed, Shape
    <2>2. cmd = "waiting" /\ call.kind \in Kinds
      BY <1>1 DEF Shape
    <2> QED BY <1>1, <2>1, <2>2 DEF Shape, StructKinds, Kinds
  <1>4. Calm' /\ CopyGood'
    BY <1>1 DEF Calm, CopyGood
  <1>5. Unchanged(Struct(call.kind)) /\ (call.kind = "offload" => UpTo(0))
    BY <1>1, CalmHolds DEF Calm, Shape
  <1>6. FailureKept' /\ SuccessKept'
    BY <1>1, <1>2, <1>5 DEF FailureKept, SuccessKept
  <1>7. OrderKept'
    <2>1. ASSUME call.kind = "offload"
          PROVE  /\ UpTo(0)'
                 /\ call'.left = {m \in (0 + 1)..7 : Feature(m) \in Requested'}
      BY <2>1, <1>1, <1>2, <1>5 DEF Features, Requested
    <2> QED BY <1>1, <2>1 DEF OrderKept
  <1>8. LinkGood'
    <2>1. ASSUME NEW f \in LinkWrite(call.kind, call.req), f \notin Requested
          PROVE  f # Port /\ call'.link[f] = others[f]
      <3>1. f \in Flags /\ f \in DevFields /\ f # Port
        BY <2>1, LinkFields DEF Requested
      <3> QED BY <1>1, <3>1 DEF Calm
    <2> QED BY <1>1, <1>2, <2>1 DEF LinkGood
  <1> QED BY <1>2, <1>3, <1>4, <1>6, <1>7, <1>8

(* The bits of ports that are not requested are left in the port. *)
LEMMA PortAfterBits ==
    ASSUME NEW p, NEW b \in PortBits \ RequestedBits
    PROVE  b \in PortAfter(call.req, p) <=> b \in p
  <1>1. ASSUME NEW o \in Ports, NEW q
        PROVE  b \in Masked(call.req, o, q) <=> b \in q
    <2>1. CASE <<"port", o>> \in DOMAIN call.req
      <3>1. b \notin PortCode[o]
        BY <2>1 DEF RequestedBits, Requested
      <3> QED BY <2>1, <3>1 DEF Masked
    <2>2. CASE <<"port", o>> \notin DOMAIN call.req
      BY <2>2 DEF Masked
    <2> QED BY <2>1, <2>2
  <1> QED BY <1>1 DEF PortAfter, Ports

(* The structure has been read and modified. *)
LEMMA FetchStep ==
    ASSUME IInv, Fetch
    PROVE  IInv'
  <1> USE DEF IInv
  <1>1. /\ dev' = dev /\ others' = others /\ touched' = touched /\ racy' = racy
        /\ cmd' = cmd /\ printed' = printed /\ exit' = exit
        /\ call'.kind = call.kind /\ call'.req = call.req /\ call'.fetched = TRUE
        /\ call'.rc = call.rc /\ DOMAIN call' = DOMAIN call
        /\ call.pc = "fetch"
        /\ call'.pc = IF call.kind = "pause" \/ StructPart(call.kind, call.req) # {}
                      THEN "set" ELSE AfterStruct
        /\ call'.copy = Modified(call.kind, call.req)
    BY DEF Fetch, HandlerOnly, Shape
  <1>2. /\ OnlyRequested' <=> OnlyRequested
        /\ Unchanged(Struct(call.kind))' <=> Unchanged(Struct(call.kind))
        /\ \A n : UpTo(n)' <=> UpTo(n)
        /\ Applied(Promised)' <=> Applied(Promised)
        /\ Requested' = Requested
        /\ RequestedBits' = RequestedBits
    BY <1>1, Frame
  <1>3. cmd = "waiting" /\ call.kind \in StructKinds /\ call.rc = 0
    BY <1>1 DEF Shape
  <1>4. Shape'
    <2>1. Wellformed(call.kind, call.req)'
      BY <1>1 DEF Wellformed, Shape
    <2> QED BY <1>1, <1>3, <2>1 DEF Shape, AfterStruct, StructKinds
  <1>5. Calm'
    BY <1>1 DEF Calm
  <1>6. CopyGood'
    <2>1. ASSUME NEW f \in Struct(call.kind)
          PROVE  /\ f \in Requested => call'.copy[f] = call.req[f]
                 /\ f \notin Requested \cup racy =>
                       IF f = Port THEN SameBits(call'.copy[f], others[f])
                       ELSE call'.copy[f] = others[f]
      <3>1. f \in DevFields /\ dev[f] = others[f]
        BY <1>1, StructFields DEF Calm
      <3>2. Port \notin Requested
        BY DEF Requested, Shape, Wellformed
      <3>3. call'.copy[f] = IF f = Port THEN PortAfter(call.req, dev[Port])
                            ELSE IF f \in DOMAIN call.req THEN call.req[f] ELSE dev[f]
        BY <1>1 DEF Modified
      <3>4. SameBits(PortAfter(call.req, dev[Port]), dev[Port])
        BY PortAfterBits DEF SameBits
      <3> QED BY <3>1, <3>2, <3>3, <3>4 DEF Requested
    <2> QED BY <2>1, <1>1, <1>2 DEF CopyGood, SameBits
  <1>7. Unchanged(Struct(call.kind))
    BY <1>1, CalmHolds DEF Calm, Shape
  <1>8. FailureKept'
    BY <1>1, <1>2, <1>7 DEF FailureKept
  <1>9. SuccessKept'
    <2>1. ASSUME call'.pc = "reply" PROVE Promised = {}
      <3>1. LinkPart(call.req) = {} /\ StructPart(call.kind, call.req) = {}
        <4>1. StructPart(call.kind, call.req) = {}
          BY <2>1, <1>1
        <4>2. call.kind = "settings" => LinkPart(call.req) = {}
          BY <2>1, <1>1 DEF AfterStruct
        <4>3. call.kind # "settings" => LinkPart(call.req) = {}
          BY <1>3 DEF LinkPart, Shape, Wellformed, StructKinds
        <4> QED BY <4>1, <4>2, <4>3
      <3> QED BY <3>1, <1>3, AskedOfStruct DEF Promised, Requested, Shape
    <2>2. call'.pc = "reply" => Applied(Promised)
      BY <2>1 DEF Applied
    <2>3. call'.pc \in {"set", "reply", "change"}
      BY <1>1 DEF AfterStruct
    <2> QED BY <2>2, <2>3, <1>1, <1>2 DEF SuccessKept
  <1>10. OrderKept'
    BY <1>1, <1>2, <1>3 DEF OrderKept, StructKinds, AfterStruct
  <1>11. LinkGood'
    <2>1. call.kind # "status"
      BY <1>3 DEF StructKinds
    <2> QED BY <1>1, <1>2, <2>1, LinkFields DEF LinkGood, Requested
  <1> QED BY <1>2, <1>4, <1>5, <1>6, <1>8, <1>9, <1>10, <1>11

(* The structure is written. *)
LEMMA SetStep ==
    ASSUME IInv, Set
    PROVE  IInv'
  <1> USE DEF IInv
  <1>1. /\ dev' = [f \in DevFields |-> IF f \in Struct(call.kind) THEN call.copy[f] ELSE dev[f]]
        /\ others' = others /\ touched' = touched /\ racy' = racy
        /\ cmd' = cmd /\ printed' = printed /\ exit' = exit
        /\ call'.kind = call.kind /\ call'.req = call.req /\ call'.fetched = call.fetched
        /\ call'.rc = call.rc /\ DOMAIN call' = DOMAIN call
        /\ call.pc = "set" /\ call'.pc = AfterStruct
    BY DEF Set, HandlerOnly, Shape
  <1>2. Requested' = Requested /\ RequestedBits' = RequestedBits /\ (Mixed' <=> Mixed)
        /\ Promised' = Promised
    BY <1>1 DEF Requested, RequestedBits, Mixed, Promised
  <1>3. /\ cmd = "waiting" /\ call.kind \in StructKinds /\ call.rc = 0 /\ call.fetched
        /\ call.kind = "pause" \/ StructPart(call.kind, call.req) # {}
    BY <1>1 DEF Shape
  <1>4. Shape'
    <2>1. Wellformed(call.kind, call.req)'
      BY <1>1 DEF Wellformed, Shape
    <2> QED BY <1>1, <1>3, <2>1 DEF Shape, AfterStruct
  <1>5. Calm' /\ CopyGood' /\ OrderKept'
    BY <1>1, <1>3 DEF Calm, CopyGood, OrderKept, AfterStruct, StructKinds
  <1>6. OnlyRequested'
    <2>1. ASSUME NEW f \in DevFields, f \notin Requested, f \notin racy
          PROVE  IF f = Port THEN SameBits(dev'[f], others[f]) ELSE dev'[f] = others[f]
      <3>1. CASE f \in Struct(call.kind)
        BY <3>1, <2>1, <1>1 DEF CopyGood
      <3>2. CASE f \notin Struct(call.kind)
        BY <3>2, <2>1, <1>1 DEF OnlyRequested, SameBits
      <3> QED BY <3>1, <3>2
    <2> QED BY <2>1, <1>1, <1>2 DEF OnlyRequested, SameBits
  <1>7. FailureKept'
    <2>1. call'.pc = "change" => Mixed
      BY <1>1, <1>3 DEF AfterStruct, Mixed
    <2> QED BY <2>1, <1>1, <1>2, <1>3 DEF FailureKept, AfterStruct
  <1>8. SuccessKept'
    <2>1. ASSUME NEW f \in Promised, call'.pc = "reply" PROVE dev'[f] = call.req[f]
      <3>1. f \in DOMAIN call.req /\ f \in DevFields
        BY DEF Promised, Requested
      <3>2. f \notin LinkPart(call.req)
        <4>1. CASE call.kind = "settings"
          BY <4>1, <2>1, <1>1 DEF AfterStruct
        <4>2. CASE call.kind # "settings"
          BY <4>2, <3>1, <1>3 DEF LinkPart, Shape, Wellformed, StructKinds
        <4> QED BY <4>1, <4>2
      <3>3. f \in Struct(call.kind)
        BY <3>1, <3>2, <1>3, AskedOfStruct DEF Shape
      <3> QED BY <3>1, <3>3, <1>1 DEF CopyGood, Requested
    <2> QED BY <2>1, <1>1, <1>2 DEF SuccessKept, Applied, AfterStruct
  <1>9. LinkGood'
    <2>1. call.kind # "status"
      BY <1>3 DEF StructKinds
    <2> QED BY <1>1, <1>2, <2>1, LinkFields DEF LinkGood, Requested
  <1> QED BY <1>4, <1>5, <1>6, <1>7, <1>8, <1>9

(* Netlink has set some of the link attributes. *)
LEMMA ChangeStep ==
    ASSUME IInv, Change \/ ChangeFails
    PROVE  IInv'
  <1> USE DEF IInv
  <1>1. /\ others' = others /\ touched' = touched /\ racy' = racy
        /\ cmd' = cmd /\ printed' = printed /\ exit' = exit
        /\ call'.kind = call.kind /\ call'.req = call.req /\ call'.fetched = call.fetched
        /\ DOMAIN call' = DOMAIN call
        /\ call.pc = "change" /\ call'.pc = "reply"
    BY DEF Change, ChangeFails, HandlerOnly, Shape
  <1>2. PICK done \in SUBSET LinkWrite(call.kind, call.req) :
           dev' = [f \in DevFields |-> IF f \in done THEN LinkValue(f) ELSE dev[f]]
    BY DEF Change, ChangeFails
  <1>3. Requested' = Requested /\ RequestedBits' = RequestedBits /\ (Mixed' <=> Mixed)
        /\ Promised' = Promised
    BY <1>1 DEF Requested, RequestedBits, Mixed, Promised
  <1>4. cmd = "waiting" /\ call.kind \in {"status", "settings"}
    BY <1>1 DEF Shape
  <1>5. Shape'
    <2>1. Wellformed(call.kind, call.req)'
      BY <1>1 DEF Wellformed, Shape
    <2> QED BY <1>1, <1>2, <1>4, <2>1 DEF Shape
  <1>6. Calm' /\ CopyGood' /\ LinkGood' /\ OrderKept'
    BY <1>1, <1>4 DEF Calm, CopyGood, LinkGood, OrderKept
  <1>7. \A f \in DevFields : f \notin LinkWrite(call.kind, call.req) => dev'[f] = dev[f]
    BY <1>2
  <1>8. OnlyRequested'
    <2>1. ASSUME NEW f \in DevFields, f \notin Requested, f \notin racy
          PROVE  IF f = Port THEN SameBits(dev'[f], others[f]) ELSE dev'[f] = others[f]
      <3>1. CASE f \in done
        <4>1. dev'[f] = call.link[f]
          BY <1>2, <2>1, <3>1 DEF LinkValue, Requested
        <4>2. f # Port /\ call.link[f] = others[f]
          BY <1>1, <1>2, <2>1, <3>1 DEF LinkGood
        <4> QED BY <4>1, <4>2
      <3>2. CASE f \notin done
        BY <1>2, <2>1, <3>2 DEF OnlyRequested, SameBits
      <3> QED BY <3>1, <3>2
    <2> QED BY <1>1, <1>3, <2>1 DEF OnlyRequested, SameBits
  <1>9. FailureKept'
    <2>1. ASSUME NEW f \in Struct(call.kind) PROVE dev'[f] = dev[f]
      <3>1. f \in DevFields /\ f \notin LinkWrite(call.kind, call.req)
        BY StructFields, LinkFields
      <3> QED BY <3>1, <1>7
    <2>2. Unchanged(Struct(call.kind)) => Unchanged(Struct(call.kind))'
      BY <1>1, <2>1 DEF Unchanged
    <2> QED BY <1>1, <1>3, <2>2 DEF FailureKept
  <1>10. SuccessKept'
    <2>1. ASSUME ~Mixed, call'.rc = 0, NEW f \in Promised PROVE dev'[f] = call.req[f]
      <3>1. f \in DOMAIN call.req /\ f \in DevFields
        BY DEF Promised, Requested
      <3>2. Change
        <4>1. ASSUME ChangeFails PROVE call'.rc = NlError
          BY <4>1 DEF ChangeFails, Shape
        <4>2. NlError # 0
          BY DEF NlError
        <4> QED BY <2>1, <4>1, <4>2
      <3>3. f \in LinkPart(call.req)
        <4>1. CASE call.kind = "status"
          BY <4>1, <3>1 DEF Shape, Wellformed, LinkPart
        <4>2. CASE call.kind = "settings"
          <5>1. StructPart(call.kind, call.req) = {}
            BY <4>2, <2>1, <1>1 DEF Shape, Mixed
          <5>2. call.kind \in StructKinds
            BY <4>2 DEF StructKinds
          <5> QED BY <5>1, <5>2, <3>1, AskedOfStruct DEF Shape
        <4> QED BY <4>1, <4>2, <1>4
      <3> QED BY <3>1, <3>2, <3>3 DEF Change, LinkWrite, LinkValue
    <2> QED BY <2>1, <1>1, <1>3 DEF SuccessKept, Applied
  <1> QED BY <1>5, <1>6, <1>8, <1>9, <1>10

(* One feature is set. *)
LEMMA OffloadStep ==
    ASSUME IInv, Offload
    PROVE  IInv'
  <1> USE DEF IInv
  <1>1. PICK k \in call.left :
           /\ \A m \in call.left : k <= m
           /\ dev' = [dev EXCEPT ![Feature(k)] = call.req[Feature(k)]]
           /\ call' = [call EXCEPT !.left = @ \ {k}]
    BY DEF Offload
  <1>2. /\ others' = others /\ touched' = touched /\ racy' = racy
        /\ cmd' = cmd /\ printed' = printed /\ exit' = exit
        /\ call'.kind = call.kind /\ call'.req = call.req /\ call'.fetched = call.fetched
        /\ call'.rc = call.rc /\ DOMAIN call' = DOMAIN call
        /\ call.pc = "offload" /\ call'.pc = "offload"
        /\ call'.left = call.left \ {k}
    BY <1>1 DEF Offload, HandlerOnly, Shape
  <1>3. Requested' = Requested /\ RequestedBits' = RequestedBits
    BY <1>2 DEF Requested, RequestedBits
  <1>4. cmd = "waiting" /\ call.kind = "offload" /\ Struct(call.kind) = {}
    BY <1>2, StructFields DEF Shape, StructKinds
  <1>5. PICK n \in 0..7 : UpTo(n) /\ call.left = {m \in (n + 1)..7 : Feature(m) \in Requested}
    BY <1>2 DEF OrderKept
  <1>6. k \in (n + 1)..7 /\ k \in Features /\ Feature(k) \in Requested /\ Feature(k) \in DevFields
    BY <1>4, <1>5 DEF Features, Shape, Wellformed, Requested
  <1>7. Shape'
    <2>1. Wellformed(call.kind, call.req)'
      BY <1>2 DEF Wellformed, Shape
    <2>2. DOMAIN dev' = DevFields
      BY <1>1 DEF Shape
    <2> QED BY <1>2, <1>4, <2>1, <2>2 DEF Shape
  <1>8. Calm' /\ CopyGood' /\ LinkGood' /\ SuccessKept'
    BY <1>2, <1>4 DEF Calm, CopyGood, LinkGood, SuccessKept
  <1>9. OnlyRequested'
    <2>1. ASSUME NEW f \in DevFields, f \notin Requested PROVE dev'[f] = dev[f]
      BY <2>1, <1>1, <1>6 DEF Shape
    <2> QED BY <1>2, <1>3, <2>1 DEF OnlyRequested
  <1>10. FailureKept'
    BY <1>2, <1>4 DEF FailureKept, Unchanged
  <1>11. OrderKept'
    <2>1. ASSUME NEW m \in Features, Feature(m) \in Requested
          PROVE  dev'[Feature(m)] = IF m = k THEN call.req[Feature(m)] ELSE dev[Feature(m)]
      <3>1. Feature(m) \in DOMAIN dev
        BY <2>1, <1>4 DEF Shape, Wellformed, Requested
      <3>2. Feature(m) = Feature(k) => m = k
        BY <1>6, FeaturesDiffer
      <3> QED BY <1>1, <3>1, <3>2
    <2>2. ASSUME NEW m \in 1..k, Feature(m) \in Requested, Feature(m) \notin touched
          PROVE  dev'[Feature(m)] = call.req[Feature(m)]
      <3>1. m \in Features
        BY <1>6 DEF Features
      <3>2. CASE m = k
        BY <3>1, <3>2, <2>1, <2>2
      <3>3. CASE m # k
        <4>1. m \in 1..n
          BY <3>3, <2>2, <1>1, <1>5, <1>6
        <4> QED BY <3>1, <3>3, <2>1, <2>2, <4>1, <1>5 DEF UpTo, Applied
      <3> QED BY <3>2, <3>3
    <2>3. ASSUME NEW m \in (k + 1)..7, Feature(m) \in Requested, Feature(m) \notin touched
          PROVE  dev'[Feature(m)] = others[Feature(m)]
      <3>1. m \in Features /\ m # k /\ m \in (n + 1)..7
        BY <1>6 DEF Features
      <3> QED BY <3>1, <2>1, <2>3, <1>5 DEF UpTo, Unchanged
    <2>4. UpTo(k)'
      BY <2>2, <2>3, <1>2, <1>3 DEF UpTo, Applied, Unchanged
    <2>5. call'.left = {m \in (k + 1)..7 : Feature(m) \in Requested'}
      BY <1>1, <1>2, <1>3, <1>5, <1>6
    <2>6. k \in 0..7
      BY <1>6
    <2> QED BY <2>4, <2>5, <2>6 DEF OrderKept
  <1> QED BY <1>7, <1>8, <1>9, <1>10, <1>11

(* Another program changes a field. *)
LEMMA TouchStep ==
    ASSUME IInv, NEW g \in DevFields, Touch(g)
    PROVE  IInv'
  <1> USE DEF IInv
  <1>1. PICK v : dev' = [dev EXCEPT ![g] = v] /\ others' = [others EXCEPT ![g] = v]
    BY DEF Touch
  <1>2. /\ cmd = "waiting" /\ cmd' = cmd /\ printed' = printed /\ exit' = exit /\ call' = call
        /\ touched' = touched \cup {g}
        /\ racy' = racy \cup ({g} \cap Pending)
    BY DEF Touch
  <1>3. Requested' = Requested /\ RequestedBits' = RequestedBits /\ (Mixed' <=> Mixed)
        /\ Promised' = Promised
    BY <1>2 DEF Requested, RequestedBits, Mixed, Promised
  <1>4. /\ DOMAIN dev' = DevFields /\ DOMAIN others' = DevFields
        /\ \A f \in DevFields : /\ dev'[f] = IF f = g THEN v ELSE dev[f]
                                /\ others'[f] = IF f = g THEN v ELSE others[f]
    BY <1>1 DEF Shape
  <1>5. Shape'
    BY <1>2, <1>4 DEF Shape, Wellformed
  <1>6. Calm'
    BY <1>2, <1>4 DEF Calm
  <1>7. CopyGood'
    <2>1. ASSUME call.pc = "set", NEW f \in Struct(call.kind), f \notin racy'
          PROVE  f \notin racy /\ others'[f] = others[f]
      BY <2>1, <1>2, <1>4, StructFields DEF Pending
    <2> QED BY <2>1, <1>2, <1>3 DEF CopyGood, SameBits
  <1>8. OnlyRequested'
    <2>1. racy \subseteq racy'
      BY <1>2
    <2>2. ASSUME NEW f \in DevFields, f \notin Requested, f \notin racy'
          PROVE  IF f = Port THEN SameBits(dev'[f], others'[f]) ELSE dev'[f] = others'[f]
      BY <2>1, <2>2, <1>4 DEF OnlyRequested, SameBits
    <2> QED BY <2>2, <1>3 DEF OnlyRequested, SameBits
  <1>9. /\ Unchanged(Struct(call.kind)) => Unchanged(Struct(call.kind))'
        /\ Applied(Promised) => Applied(Promised)'
    BY <1>2, <1>3, <1>4, StructFields DEF Unchanged, Applied, Promised
  <1>10. FailureKept' /\ SuccessKept'
    BY <1>2, <1>3, <1>9 DEF FailureKept, SuccessKept
  <1>11. OrderKept'
    <2>1. ASSUME call.kind = "offload", NEW n \in 0..7, UpTo(n) PROVE UpTo(n)'
      <3>1. Requested \subseteq DevFields
        BY <2>1 DEF Shape, Wellformed, Requested
      <3> QED BY <3>1, <2>1, <1>2, <1>3, <1>4 DEF UpTo, Applied, Unchanged
    <2> QED BY <2>1, <1>2, <1>3 DEF OrderKept, Shape
  <1>12. LinkGood'
    <2>1. ASSUME call.pc = "change", NEW f \in LinkWrite(call.kind, call.req), f \notin Requested,
                 f \notin racy'
          PROVE  f # Port /\ call.link[f] = others'[f]
      <3>1. f \notin racy /\ f # g
        BY <2>1, <1>2 DEF Pending
      <3>2. f \in DevFields
        BY <2>1, LinkFields DEF Requested
      <3> QED BY <2>1, <1>4, <3>1, <3>2 DEF LinkGood
    <2> QED BY <2>1, <1>2, <1>3 DEF LinkGood
  <1> QED BY <1>5, <1>6, <1>7, <1>8, <1>10, <1>11, <1>12

-----------------------------------------------------------------------------
(* No step of the command, the handler, another program or the hardware    *)
(* leaves the invariant.                                                   *)
THEOREM Inductive == IInv /\ [Next]_vars => IInv'
  <1> SUFFICES ASSUME IInv, [Next]_vars PROVE IInv'
    OBVIOUS
  <1>1. CASE Command
    BY <1>1, QuietStep, AcceptsStep DEF Command
  <1>2. CASE Handler
    BY <1>2, QuietStep, LookupStep, FetchStep, SetStep, ChangeStep, OffloadStep DEF Handler
  <1>3. CASE Environment
    BY <1>3, QuietStep, TouchStep DEF Environment
  <1>4. CASE UNCHANGED vars
    <2>1. /\ dev' = dev /\ others' = others /\ touched' = touched /\ racy' = racy
          /\ call' = call /\ cmd' = cmd /\ printed' = printed /\ exit' = exit
      BY <1>4 DEF vars
    <2>2. /\ OnlyRequested' <=> OnlyRequested
          /\ Unchanged(Struct(call.kind))' <=> Unchanged(Struct(call.kind))
          /\ Applied(Promised)' <=> Applied(Promised)
          /\ Mixed' <=> Mixed
          /\ \A n : UpTo(n)' <=> UpTo(n)
          /\ Requested' = Requested
          /\ RequestedBits' = RequestedBits
      BY <2>1, Frame
    <2>3. Shape' /\ Calm'
      BY <2>1 DEF IInv, Shape, Calm, Wellformed
    <2> QED BY <2>1, <2>2, <2>3 DEF IInv, CopyGood, LinkGood, SameBits,
        FailureKept, SuccessKept, OrderKept
  <1> QED BY <1>1, <1>2, <1>3, <1>4 DEF Next

(* The invariant holds at every moment of every command. *)
THEOREM Invariance == Spec => []IInv
  BY Initially, Inductive, PTL DEF Spec

(* The modify handlers change only what is requested, and can undo what    *)
(* another program does only if it does it between their get and set, or   *)
(* to a flag of the link between the link cache and the change of status.  *)
THEOREM OnlyRequestedHolds == Spec => []OnlyRequested
  <1>1. IInv => OnlyRequested
    BY DEF IInv
  <1> QED BY <1>1, Invariance, PTL

(* Settings that cannot be fetched are not modified, and an error means    *)
(* that the structure was not written.                                     *)
THEOREM AllOrNothingHolds == Spec => []AllOrNothing
  <1>1. IInv => AllOrNothing
    BY DEF IInv, FailureKept, AllOrNothing
  <1> QED BY <1>1, Invariance, PTL

(* A printed 0 means that what was asked for is in the kernel, except for  *)
(* the cases that ZeroMeansApplied names.                                  *)
THEOREM ZeroMeansAppliedHolds == Spec => []ZeroMeansApplied
  <1>1. IInv => ZeroMeansApplied
    BY DEF IInv, SuccessKept, ZeroMeansApplied, Shape, Promised
  <1> QED BY <1>1, Invariance, PTL

(* The features are applied in order and none after one that failed. *)
THEOREM OffloadsInOrderHolds == Spec => []OffloadsInOrder
  <1>1. IInv => OffloadsInOrder
    BY DEF IInv, OrderKept, OffloadsInOrder, UpTo
  <1> QED BY <1>1, Invariance, PTL

-----------------------------------------------------------------------------
(* The types of the settings, the request and the handler's copy.          *)

(* The greatest of some positions of a list. *)
LEMMA LastPosition ==
    ASSUME NEW w \in Nat, NEW D, D \subseteq 1..w, D # {}
    PROVE  Max(D) \in D
  <1> DEFINE T == {x \in 0..w : w - x \in D}
             Less == {p \in Nat \X Nat : p[1] < p[2]}
  <1>1. T \subseteq Nat /\ T # {}
    <2>1. PICK d \in D : d \in 1..w
      OBVIOUS
    <2>2. w - d \in 0..w /\ w - (w - d) = d
      BY <2>1
    <2> QED BY <2>2
  <1>2. PICK x \in T : \A y \in T : ~(<<y, x>> \in Less)
    <2>1. IsWellFoundedOn(Less, Nat)
      BY NatLessThanWellFounded DEF OpToRel
    <2> HIDE DEF T, Less
    <2> QED BY <1>1, <2>1, WFMin
  <1>3. x \in Nat /\ x <= w /\ w - x \in D
    OBVIOUS
  <1>4. ASSUME NEW e \in D PROVE w - x >= e
    <2>1. e \in 1..w /\ w - e \in 0..w /\ w - (w - e) = e
      OBVIOUS
    <2>2. w - e \in T /\ w - e \in Nat
      BY <2>1
    <2>3. \A y, z \in Nat : y < z => <<y, z>> \in Less
      OBVIOUS
    <2>4. ~(w - e < x)
      <3> HIDE DEF T, Less
      <3> QED BY <1>2, <1>3, <2>2, <2>3
    <2> QED BY <1>3, <2>1, <2>4
  <1> HIDE DEF T, Less
  <1> QED BY <1>3, <1>4 DEF Max

(* What the options of an accepted command say: a text that is no number   *)
(* has become 0 where it was not refused.                                  *)
LEMMA GivenValues ==
    ASSUME NEW kind \in Kinds, NEW args \in SeqOf(Args(kind), MaxArgs),
           \A n \in DOMAIN args : ErrorOf(kind, args[n]) = 0,
           NEW o \in DOMAIN Given(args)
    PROVE  /\ o \in Options(kind) /\ o \in Used[kind]
           /\ Given(args)[o] \in IF kind = "capabilities" /\ o = "speed" THEN Speeds ELSE Values
  <1> DEFINE D == {n \in DOMAIN args : args[n].opt = o}
  <1>1. PICK m \in 0..MaxArgs : args \in [1..m -> Args(kind)]
    BY DEF SeqOf
  <1>2. m \in Nat /\ D \subseteq 1..m /\ D # {}
    BY <1>1, BoundsAssumption DEF Given
  <1>3. Max(D) \in D
    BY <1>2, LastPosition
  <1>4. PICK n \in D : n = Max(D)
    BY <1>3
  <1>5. n \in DOMAIN args /\ args[n].opt = o /\ args[n] \in Args(kind)
    BY <1>1, <1>4
  <1>6. Given(args)[o] = Number(args[n].val)
    BY <1>4 DEF Given
  <1>7. PICK p \in Used[kind] \cup {"help"} :
           args[n] \in [opt : {p}, val : ArgValues(kind, p)]
    BY <1>5 DEF Args
  <1>8. p = o /\ args[n].val \in ArgValues(kind, o)
    BY <1>5, <1>7
  <1>9. o \in Options(kind) /\ (o \in Checked[kind] => args[n].val # Bad)
    BY <1>5 DEF ErrorOf, Usage, EINVAL
  <1>10. "help" \notin Options(kind)
    BY DEF Options, Checked, Numbers, Kinds, Ports, Duplexes, LinkOptions, CoalesceNumbers
  <1>11. kind = "capabilities" => o \in Checked[kind]
    BY <1>9 DEF Options, Numbers
  <1> QED BY <1>6, <1>7, <1>8, <1>9, <1>10, <1>11, ValuesAssumption DEF Number, ArgValues

(* The fields of requests, for an option that goes into one. *)
LEMMA FieldExists ==
    ASSUME NEW kind \in Kinds, NEW o \in Used[kind], NEW s,
           kind = "capabilities" => o # "speed",
           kind = "capabilities" /\ o \in Duplexes => s \in Speeds \cap EthernetSpeeds
    PROVE  FieldOf(kind, o, s) \in MessageFields
  <1>1. CASE kind = "capabilities" /\ o \in Duplexes
    BY <1>1 DEF MessageFields
  <1>2. CASE ~(kind = "capabilities" /\ o \in Duplexes)
    <2>1. PICK t : t \in Speeds \cap EthernetSpeeds
      BY SpeedsAssumption
    <2>2. FieldOf(kind, o, s) = FieldOf(kind, o, t)
      BY <1>2 DEF FieldOf
    <2>3. FieldOf(kind, o, t) \in MessageFields
      BY <2>1 DEF MessageFields
    <2> QED BY <2>2, <2>3
  <1> QED BY <1>1, <1>2

(* An accepted command sends fields that there are, with values that its   *)
(* options gave; the half and full of capabilities only of a known speed.  *)
LEMMA RequestTypes ==
    ASSUME NEW kind \in Kinds, NEW args \in SeqOf(Args(kind), MaxArgs),
           \A n \in DOMAIN args : ErrorOf(kind, args[n]) = 0
    PROVE  LET asked == Message(kind, Given(args))
           IN  \A f \in DOMAIN asked : f \in MessageFields /\ asked[f] \in Values
  <1> DEFINE opts == Given(args)
  <1>1. \A o \in DOMAIN opts :
           /\ o \in Used[kind]
           /\ opts[o] \in IF kind = "capabilities" /\ o = "speed" THEN Speeds ELSE Values
    BY GivenValues
  <1> HIDE DEF opts
  <1>2. CASE kind = "capabilities"
    <2> DEFINE speed == IF "speed" \in DOMAIN opts THEN opts["speed"] ELSE 0
               kept == DOMAIN opts \ ({"speed"} \cup
                           IF speed \in EthernetSpeeds THEN {} ELSE Duplexes)
               asked == Message(kind, opts)
    <2>1. asked = [f \in {FieldOf("capabilities", o, speed) : o \in kept} |->
                      opts[IF f[1] \in Duplexes THEN f[1] ELSE f[2]]]
      BY <1>2 DEF Message, CapabilitiesMessage
    <2>2. speed \in EthernetSpeeds => speed \in Speeds
      BY <1>1, <1>2 DEF EthernetSpeeds
    <2>3. ASSUME NEW o \in kept
          PROVE  LET f == FieldOf("capabilities", o, speed)
                 IN  f \in MessageFields /\ opts[IF f[1] \in Duplexes THEN f[1] ELSE f[2]] \in Values
      <3>1. o \in DOMAIN opts /\ o # "speed" /\ (o \in Duplexes => speed \in EthernetSpeeds)
        OBVIOUS
      <3>2. FieldOf(kind, o, speed) \in MessageFields
        <4> HIDE DEF speed, kept
        <4> QED BY <1>1, <2>2, <3>1, FieldExists
      <3>3. opts[o] \in Values
        BY <1>1, <3>1
      <3> HIDE DEF speed, kept
      <3>4. CASE o \in Duplexes
        <4>1. FieldOf("capabilities", o, speed) = <<o, speed>>
          BY <3>4 DEF FieldOf
        <4> QED BY <1>2, <3>2, <3>3, <3>4, <4>1
      <3>5. CASE o \notin Duplexes
        <4>1. FieldOf("capabilities", o, speed) = <<GroupOf("capabilities", o), o>>
          BY <3>5 DEF FieldOf
        <4>2. GroupOf("capabilities", o) \notin Duplexes
          BY DEF GroupOf, Duplexes
        <4> QED BY <1>2, <3>2, <3>3, <4>1, <4>2
      <3> QED BY <3>4, <3>5
    <2> HIDE DEF speed, kept
    <2> QED BY <2>1, <2>3 DEF opts
  <1>3. CASE kind # "capabilities"
    <2>1. Message(kind, opts) = [f \in {FieldOf(kind, o, 0) : o \in DOMAIN opts} |-> opts[f[2]]]
      BY <1>3 DEF Message
    <2>2. ASSUME NEW o \in DOMAIN opts
          PROVE  /\ FieldOf(kind, o, 0) \in MessageFields
                 /\ opts[FieldOf(kind, o, 0)[2]] \in Values
      <3>1. FieldOf(kind, o, 0) = <<GroupOf(kind, o), o>>
        BY <1>3 DEF FieldOf
      <3>2. FieldOf(kind, o, 0) \in MessageFields
        BY <1>1, <1>3, FieldExists
      <3> QED BY <1>1, <1>3, <3>1, <3>2
    <2> QED BY <2>1, <2>2 DEF opts
  <1> QED BY <1>2, <1>3

(* The ports that are or-ed in and masked out are bits of the port. *)
LEMMA PortAfterType ==
    ASSUME NEW asked, NEW p \in SUBSET PortBits
    PROVE  PortAfter(asked, p) \in SUBSET PortBits
  <1>1. ASSUME NEW o \in Ports, NEW q \in SUBSET PortBits
        PROVE  Masked(asked, o, q) \in SUBSET PortBits
    <2>1. PortCode[o] \subseteq PortBits
      BY DEF PortCode, Ports, PortBits
    <2> QED BY <2>1 DEF Masked
  <1> DEFINE aui == Masked(asked, "aui", p)
             bnc == Masked(asked, "bnc", aui)
             fibre == Masked(asked, "fibre", bnc)
             mii == Masked(asked, "mii", fibre)
  <1>2. PortAfter(asked, p) = Masked(asked, "tp", mii)
    BY DEF PortAfter
  <1>3. {"aui", "bnc", "fibre", "mii", "tp"} = Ports
    BY DEF Ports
  <1>4. aui \in SUBSET PortBits BY <1>1, <1>3
  <1> HIDE DEF aui
  <1>5. bnc \in SUBSET PortBits BY <1>1, <1>3, <1>4
  <1> HIDE DEF bnc
  <1>6. fibre \in SUBSET PortBits BY <1>1, <1>3, <1>5
  <1> HIDE DEF fibre
  <1>7. mii \in SUBSET PortBits BY <1>1, <1>3, <1>6
  <1> HIDE DEF mii
  <1> QED BY <1>1, <1>2, <1>3, <1>7

(* The types are inductive with those of the request, of the copy and of   *)
(* the cached flags, which are what the handler writes into the settings.  *)
FieldType(f) == IF f = Port THEN SUBSET PortBits ELSE Values

RequestTyped == \A f \in DOMAIN call.req : call.req[f] \in Values
CopyTyped == call.pc = "set" => \A f \in Struct(call.kind) : call.copy[f] \in FieldType(f)

LinkTyped == call.kind = "status" /\ call.pc = "change" =>
                \A f \in Flags : call.link[f] \in Values

Typed == TypeOK /\ RequestTyped /\ CopyTyped /\ LinkTyped

(* A request and a copy that are kept keep their types. *)
LEMMA HandlerTypes ==
    ASSUME Typed, call'.req = call.req, call'.kind = call.kind, call'.copy = call.copy,
           call'.pc = "set" => call.pc = "set"
    PROVE  /\ RequestTyped' /\ CopyTyped'
           /\ DOMAIN call'.req \subseteq MessageFields
           /\ call'.kind \in Kinds \cup {"none"}
           /\ call'.pc = "set" => DOMAIN call'.copy = Struct(call'.kind)
  BY DEF Typed, TypeOK, RequestTyped, CopyTyped

(* The steps of the command but the one that makes its request. *)
LEMMA CommandTypes ==
    ASSUME Shape, Typed,
           \/ \E kind \in Kinds : \E args \in SeqOf(Args(kind), MaxArgs) : Rejects(kind, args)
           \/ Connect \/ ConnectFails \/ Killed \/ Reply
    PROVE  Typed'
  <1>1. /\ dev' = dev /\ others' = others /\ touched' = touched /\ racy' = racy
        /\ present' = present
        /\ call'.req = call.req /\ call'.kind = call.kind /\ call'.copy = call.copy
        /\ call'.rc = call.rc /\ call'.link = call.link
        /\ call'.pc \in {call.pc, "fetch", "lookup", "dead", "idle"}
        /\ cmd' \in {"waiting", "done"}
    BY DEF Rejects, Connect, ConnectFails, Killed, Reply, Exits, Shape
  <1>2. exit' \in Codes /\ printed' \in Codes
    BY DEF Rejects, Connect, ConnectFails, Killed, Reply, Exits, Typed, TypeOK, ErrorOf, Codes
  <1>3. call'.pc = "set" => call.pc = "set"
    BY <1>1
  <1>4. /\ RequestTyped' /\ CopyTyped'
        /\ DOMAIN call'.req \subseteq MessageFields
        /\ call'.kind \in Kinds \cup {"none"}
        /\ call'.pc = "set" => DOMAIN call'.copy = Struct(call'.kind)
    BY <1>1, <1>3, HandlerTypes
  <1>5. LinkTyped'
    BY <1>1 DEF LinkTyped, Typed
  <1> QED BY <1>1, <1>2, <1>4, <1>5 DEF Typed, TypeOK, IsSettings

(* The request that an accepted command makes. *)
LEMMA AcceptsTypes ==
    ASSUME Shape, Typed, NEW kind \in Kinds, NEW args \in SeqOf(Args(kind), MaxArgs),
           Accepts(kind, args)
    PROVE  Typed'
  <1> DEFINE asked == Message(kind, Given(args))
  <1>1. \A f \in DOMAIN asked : f \in MessageFields /\ asked[f] \in Values
    BY RequestTypes DEF Accepts
  <1> HIDE DEF asked
  <1>2. /\ call'.kind = kind /\ call'.req = asked /\ call'.pc = "idle" /\ call'.rc = 0
        /\ cmd' = "connect"
        /\ UNCHANGED <<dev, present, exit, printed, others, touched, racy>>
    BY DEF Accepts, NoCall, asked
  <1>3. RequestTyped' /\ CopyTyped' /\ LinkTyped' /\ DOMAIN call'.req \subseteq MessageFields
    BY <1>1, <1>2 DEF RequestTyped, CopyTyped, LinkTyped
  <1> QED BY <1>2, <1>3 DEF Typed, TypeOK, IsSettings, Codes

(* The handler writes values of the request, of its copy or of the cache. *)
LEMMA WriteTypes ==
    ASSUME IInv, Typed, Set \/ Change \/ ChangeFails \/ Offload
    PROVE  IsSettings(dev)'
  <1>1. /\ DOMAIN dev = DevFields
        /\ \A f \in DevFields : dev[f] \in FieldType(f)
    BY DEF Typed, TypeOK, IsSettings, FieldType
  <1>2. \A f \in DOMAIN call.req : call.req[f] \in FieldType(f)
    BY DEF IInv, Shape, Wellformed, Typed, RequestTyped, FieldType
  <1>3. CASE Set
    <2>1. dev' = [f \in DevFields |-> IF f \in Struct(call.kind) THEN call.copy[f] ELSE dev[f]]
      BY <1>3 DEF Set
    <2>2. \A f \in Struct(call.kind) : call.copy[f] \in FieldType(f)
      BY <1>3 DEF Set, Typed, CopyTyped
    <2> QED BY <1>1, <2>1, <2>2 DEF IsSettings, FieldType
  <1>4. CASE Change \/ ChangeFails
    <2>1. PICK done \in SUBSET LinkWrite(call.kind, call.req) :
             dev' = [f \in DevFields |-> IF f \in done THEN LinkValue(f) ELSE dev[f]]
      BY <1>4 DEF Change, ChangeFails
    <2>2. call.pc = "change"
      BY <1>4 DEF Change, ChangeFails
    <2>3. ASSUME NEW f \in done PROVE LinkValue(f) \in FieldType(f)
      <3>1. CASE f \in DOMAIN call.req
        BY <1>2, <3>1 DEF LinkValue
      <3>2. CASE f \notin DOMAIN call.req
        <4>1. f \in Flags /\ f # Port /\ call.kind = "status"
          BY <3>2, LinkFields
        <4> QED BY <2>2, <3>2, <4>1 DEF LinkValue, FieldType, Typed, LinkTyped
      <3> QED BY <3>1, <3>2
    <2> QED BY <1>1, <2>1, <2>3 DEF IsSettings, FieldType
  <1>5. CASE Offload
    <2>1. PICK n \in call.left : dev' = [dev EXCEPT ![Feature(n)] = call.req[Feature(n)]]
      BY <1>5 DEF Offload
    <2>2. Feature(n) \in DOMAIN call.req
      BY <1>5 DEF Offload, IInv, OrderKept, Requested
    <2> QED BY <1>1, <1>2, <2>1, <2>2 DEF IsSettings, FieldType
  <1> QED BY <1>3, <1>4, <1>5

(* The structure that is read and modified. *)
LEMMA CopyTypes ==
    ASSUME Typed, NEW f \in Struct(call.kind)
    PROVE  Modified(call.kind, call.req)[f] \in FieldType(f)
  <1>1. f \in DevFields /\ Port \in DevFields
    BY StructFields DEF DevFields
  <1>2. dev[f] \in FieldType(f) /\ dev[Port] \in SUBSET PortBits
    BY <1>1 DEF Typed, TypeOK, IsSettings, FieldType
  <1>3. PortAfter(call.req, dev[Port]) \in SUBSET PortBits
    BY <1>2, PortAfterType
  <1> QED BY <1>2, <1>3 DEF Modified, FieldType, Typed, RequestTyped

(* The steps of the handler. *)
LEMMA HandlersTyped ==
    ASSUME IInv, Typed, Handler
    PROVE  Typed'
  <1>1. /\ present' = present /\ cmd' = cmd /\ exit' = exit /\ printed' = printed
        /\ others' = others /\ touched' = touched /\ racy' = racy
    BY DEF Handler, Lookup, LookupFails, Fetch, FetchFails, Set, SetFails, Change, ChangeFails,
           Offload, OffloadFails, OffloadDone, HandlerOnly
  <1>2. IsSettings(dev)'
    <2>1. CASE Set \/ Change \/ ChangeFails \/ Offload
      BY <2>1, WriteTypes
    <2>2. CASE ~(Set \/ Change \/ ChangeFails \/ Offload)
      <3>1. dev' = dev
        BY <2>2 DEF Handler, Lookup, LookupFails, Fetch, FetchFails, SetFails, OffloadFails, OffloadDone
      <3> QED BY <3>1 DEF Typed, TypeOK, IsSettings
    <2> QED BY <2>1, <2>2
  <1>3. call'.req = call.req /\ call'.kind = call.kind
    BY DEF Handler, Lookup, LookupFails, Fetch, FetchFails, Set, SetFails, Change, ChangeFails,
           Offload, OffloadFails, OffloadDone, IInv, Shape
  <1>4. call'.rc \in Codes
    BY DEF Handler, Lookup, LookupFails, Fetch, FetchFails, Set, SetFails, Change, ChangeFails,
           Offload, OffloadFails, OffloadDone, IInv, Shape, Typed, TypeOK, Codes, EthtoolError
  <1>5. call'.pc \in {"lookup", "fetch", "set", "change", "offload", "reply"}
    BY DEF Handler, Lookup, LookupFails, Fetch, FetchFails, Set, SetFails, Change, ChangeFails,
           Offload, OffloadFails, OffloadDone, IInv, Shape, AfterStruct
  <1>6. RequestTyped' /\ CopyTyped' /\ (call'.pc = "set" => DOMAIN call'.copy = Struct(call'.kind))
    <2>1. CASE Fetch
      <3>1. call'.copy = Modified(call.kind, call.req)
        BY <2>1 DEF Fetch, IInv, Shape
      <3>2. \A f \in Struct(call.kind) : call'.copy[f] \in FieldType(f)
        BY <3>1, CopyTypes
      <3>3. DOMAIN call'.copy = Struct(call'.kind)
        BY <1>3, <3>1 DEF Modified
      <3> QED BY <1>3, <3>2, <3>3 DEF RequestTyped, CopyTyped, Typed
    <2>2. CASE ~Fetch
      <3>1. call'.copy = call.copy /\ (call'.pc = "set" => call.pc = "set")
        BY <2>2 DEF Handler, Lookup, LookupFails, FetchFails, Set, SetFails, Change, ChangeFails,
                    Offload, OffloadFails, OffloadDone, IInv, Shape, AfterStruct
      <3> QED BY <1>3, <3>1, HandlerTypes
    <2> QED BY <2>1, <2>2
  <1>7. LinkTyped'
    <2>1. CASE Lookup
      <3>1. call'.link = [f \in Flags |-> dev[f]]
        BY <2>1 DEF Lookup, IInv, Shape
      <3>2. \A f \in Flags : f \in DevFields /\ f # Port
        BY DEF Flags, Port
      <3> QED BY <3>1, <3>2 DEF LinkTyped, Typed, TypeOK, IsSettings
    <2>2. CASE ~Lookup
      <3>1. call'.pc = "change" => call.kind # "status"
        BY <2>2 DEF Handler, LookupFails, Fetch, FetchFails, Set, SetFails, Change, ChangeFails,
                    Offload, OffloadFails, OffloadDone, IInv, Shape, AfterStruct
      <3> QED BY <1>3, <3>1 DEF LinkTyped
    <2> QED BY <2>1, <2>2
  <1> QED BY <1>1, <1>2, <1>3, <1>4, <1>5, <1>6, <1>7 DEF Typed, TypeOK, IsSettings

(* Another program sets what the kernel takes. *)
LEMMA EnvironmentTypes ==
    ASSUME Shape, Typed, Environment
    PROVE  Typed'
  <1>1. CASE Unplug
    BY <1>1 DEF Unplug, Typed, TypeOK, IsSettings, RequestTyped, CopyTyped, LinkTyped
  <1>2. ASSUME NEW f \in DevFields, Touch(f) PROVE Typed'
    <2>1. PICK v \in FieldType(f) :
             dev' = [dev EXCEPT ![f] = v] /\ others' = [others EXCEPT ![f] = v]
      <3>1. \A o \in Ports : PortCode[o] \in SUBSET PortBits
        BY DEF PortCode, Ports, PortBits
      <3> QED BY <1>2, <3>1 DEF Touch, FieldType
    <2>2. IsSettings(dev)' /\ IsSettings(others)'
      BY <2>1 DEF Typed, TypeOK, IsSettings, FieldType
    <2>3. racy' \subseteq touched' /\ touched' \subseteq DevFields
      BY <1>2 DEF Touch, Typed, TypeOK
    <2>4. UNCHANGED <<present, cmd, exit, printed, call>>
      BY <1>2 DEF Touch
    <2> QED BY <2>2, <2>3, <2>4 DEF Typed, TypeOK, RequestTyped, CopyTyped, LinkTyped
  <1> QED BY <1>1, <1>2 DEF Environment

(* The settings keep the types that the kernel gives them, whatever was    *)
(* typed: what str2bool(), str2speed() and strtoul() make of an option is  *)
(* what ends up in them; and every request has only fields that dabba has  *)
(* an option for.                                                          *)
THEOREM ModifyTypeCorrect == Spec => []TypeOK
  <1>1. Init => Typed
    <2> SUFFICES ASSUME Init PROVE Typed
      OBVIOUS
    <2>1. PICK v \in Values, o \in Ports :
             dev = [f \in DevFields |-> IF f = Port THEN PortCode[o] ELSE v]
      BY DEF Init
    <2>2. PortCode[o] \in SUBSET PortBits
      BY DEF PortCode, Ports, PortBits
    <2>3. IsSettings(dev) /\ IsSettings(others)
      BY <2>1, <2>2 DEF Init, IsSettings
    <2> QED BY <2>3 DEF Init, NoCall, Typed, TypeOK, RequestTyped, CopyTyped, LinkTyped, Codes
  <1>2. IInv /\ Typed /\ [Next]_vars => Typed'
    <2> SUFFICES ASSUME IInv, Typed, [Next]_vars PROVE Typed'
      OBVIOUS
    <2>1. Shape
      BY DEF IInv
    <2>2. CASE Command
      BY <2>1, <2>2, CommandTypes, AcceptsTypes DEF Command
    <2>3. CASE Handler
      BY <2>3, HandlersTyped
    <2>4. CASE Environment
      BY <2>1, <2>4, EnvironmentTypes
    <2>5. CASE UNCHANGED vars
      BY <2>5 DEF vars, Typed, TypeOK, IsSettings, RequestTyped, CopyTyped, LinkTyped
    <2> QED BY <2>2, <2>3, <2>4, <2>5 DEF Next
  <1>3. Typed => TypeOK
    BY DEF Typed
  <1> QED BY <1>1, <1>2, <1>3, Invariance, PTL DEF Spec

-----------------------------------------------------------------------------
(***************************************************************************)
(* The get commands.  The inductive invariant: Walk says where the request *)
(* and the handler's local variables can be together; Current and          *)
(* Witnessed that what can be read now, and what the snapshot holds, has   *)
(* been seen; Filling what the row holds between two calls; Listed that    *)
(* the finished rows tell the truth; Counted, Ordered and Named carry the  *)
(* parts of RowsComplete along the list of names.                          *)
(***************************************************************************)
Requests == [kind : DOMAIN RowOf, ids : IdLists]

Walk ==
    /\ pc # "idle" => req \in Requests
    /\ pc \in {"idle", "lost", "cache"} => rows = <<>>
    /\ pc \notin {"rows", "calls"} => todo = <<>>
    /\ pc # "idle" => steady \subseteq Present
    /\ pc \in {"rows", "calls"} /\ ~skipped => steady \subseteq DOMAIN links

Current == pc # "idle" => Readable(req.kind, device, value) \subseteq seen

Witnessed ==
    pc \in {"rows", "calls"} =>
        \A n \in DOMAIN links :
            /\ \E s \in seen : s[1] = n
            /\ \A f \in RowOf[req.kind].cached : <<n, f, links[n][f]>> \in seen

Shows(r, f, shown) == <<r.name, f, r.val[f]>> \in shown

FilledTo(kind, r, m, shown) ==
    LET calls == RowOf[kind].calls
    IN  /\ m \in 1..(Len(calls) + 1)
        /\ \A f \in RowOf[kind].cached : Shows(r, f, shown)
        /\ \A j \in 1..(m - 1) : Shows(r, calls[j], shown) \/ r.val[calls[j]] = 0
        /\ m > 1 => \/ Shows(r, calls[m - 1], shown)
                    \/ r.val[calls[m - 1]] = 0 /\ r.code = "error"

Filling ==
    pc = "calls" =>
        /\ todo # <<>>
        /\ row \in Row
        /\ row.name = Head(todo)
        /\ row.name \in DOMAIN links
        /\ DOMAIN row.val = Shown(req.kind)
        /\ FilledTo(req.kind, row, nextCall, seen)

Listed == pc # "idle" => RowsTrue

Wanted(ids, n) == IF ids = <<>> THEN 1 ELSE Times(ids, n)
Counted ==
    pc \in {"rows", "calls", "reply"} /\ ~skipped =>
        \A n \in steady : Times(RowNames, n) + Times(todo, n) = Wanted(req.ids, n)

Named == pc # "idle" => \A k \in DOMAIN rows : \E s \in seen : s[1] = rows[k].name

(* What is left of the names after the first of them. *)
LeftOf(ids, done, left) ==
    /\ Len(left) = Len(ids) - done
    /\ \A j \in 1..Len(left) : left[j] = ids[done + j]

(* The rows are those of the first names that are in the snapshot. *)
Matched(names, ids, done, known) ==
    \E at \in [DOMAIN names -> 1..done] :
        /\ \A k, l \in DOMAIN names : k < l => at[k] < at[l]
        /\ \A k \in DOMAIN names : names[k] = ids[at[k]] /\ names[k] \in known
        /\ \A j \in 1..done : ids[j] \in known => \E k \in DOMAIN names : at[k] = j

InOrder(names, ids, left, known) ==
    \E done \in 0..Len(ids) : LeftOf(ids, done, left) /\ Matched(names, ids, done, known)

Ordered ==
    pc # "idle" /\ ~skipped /\ req.ids # <<>> =>
        /\ pc \in {"rows", "calls"} => InOrder(RowNames, req.ids, todo, DOMAIN links)
        /\ pc = "reply" => InTurn(RowNames, req.ids)

GetInv ==
    /\ GetTypeOK
    /\ Walk
    /\ Current
    /\ Witnessed
    /\ Filling
    /\ Listed
    /\ Counted
    /\ Named
    /\ Ordered

-----------------------------------------------------------------------------
(* What the rows of the eight kinds have in common: no field is read       *)
(* twice, by two calls or by a call and in the snapshot, and there is one  *)
(* to read.                                                                *)
LEMMA RowKinds ==
    ASSUME NEW kind \in DOMAIN RowOf
    PROVE  /\ DOMAIN RowOf[kind].calls = 1..Len(RowOf[kind].calls)
           /\ Len(RowOf[kind].calls) \in 0..7
           /\ \A i, j \in 1..Len(RowOf[kind].calls) :
                 RowOf[kind].calls[i] = RowOf[kind].calls[j] => i = j
           /\ \A j \in 1..Len(RowOf[kind].calls) : RowOf[kind].calls[j] \notin RowOf[kind].cached
           /\ Read(kind) # {}
           /\ Read(kind) \subseteq Shown(kind)
           /\ Shown(kind) \subseteq Fields
           /\ RowOf[kind].cached \subseteq Read(kind)
           /\ \A j \in 1..Len(RowOf[kind].calls) : RowOf[kind].calls[j] \in Read(kind)
           /\ \A f \in Read(kind) : f \in RowOf[kind].cached
                 \/ \E j \in 1..Len(RowOf[kind].calls) : f = RowOf[kind].calls[j]
  <1> DEFINE R == RowOf[kind]
  <1>1. /\ DOMAIN R.calls = 1..Len(R.calls)
        /\ Len(R.calls) \in 0..7
        /\ \A i, j \in 1..Len(R.calls) : R.calls[i] = R.calls[j] => i = j
        /\ \A j \in 1..Len(R.calls) : R.calls[j] \notin R.cached
        /\ R.cached # {} \/ Len(R.calls) > 0
    <2>1. CASE kind = "status"
      <3>1. R = StatusRow
        BY <2>1 DEF RowOf
      <3> HIDE DEF R
      <3> QED BY <3>1 DEF StatusRow
    <2>2. CASE kind = "settings"
      <3>1. R = SettingsRow
        BY <2>2 DEF RowOf
      <3> HIDE DEF R
      <3> QED BY <3>1 DEF SettingsRow
    <2>3. CASE kind = "pause"
      <3>1. R = PauseRow
        BY <2>3 DEF RowOf
      <3> HIDE DEF R
      <3> QED BY <3>1 DEF PauseRow
    <2>4. CASE kind = "coalesce"
      <3>1. R = CoalesceRow
        BY <2>4 DEF RowOf
      <3> HIDE DEF R
      <3> QED BY <3>1 DEF CoalesceRow
    <2>5. CASE kind = "driver"
      <3>1. R = DriverRow
        BY <2>5 DEF RowOf
      <3> HIDE DEF R
      <3> QED BY <3>1 DEF DriverRow
    <2>6. CASE kind = "statistics"
      <3>1. R = StatisticsRow
        BY <2>6 DEF RowOf
      <3> HIDE DEF R
      <3> QED BY <3>1 DEF StatisticsRow
    <2>7. CASE kind = "capabilities"
      <3>1. R = CapabilitiesRow
        BY <2>7 DEF RowOf
      <3> HIDE DEF R
      <3> QED BY <3>1 DEF CapabilitiesRow
    <2>8. CASE kind = "offload"
      <3>1. R = OffloadRow
        BY <2>8 DEF RowOf
      <3> HIDE DEF R
      <3> QED BY <3>1 DEF OffloadRow
    <2> QED BY <2>1, <2>2, <2>3, <2>4, <2>5, <2>6, <2>7, <2>8 DEF RowOf
  <1>2. DOMAIN R.calls = 1..Len(R.calls)
    BY <1>1
  <1> HIDE DEF R
  <1>3. Read(kind) = R.cached \cup {R.calls[j] : j \in 1..Len(R.calls)}
    BY <1>2 DEF Read, ToSet, R
  <1>4. Read(kind) \subseteq Shown(kind) /\ Shown(kind) \subseteq Fields
    BY DEF Shown, Fields
  <1>5. Read(kind) # {}
    BY <1>1, <1>3
  <1> QED BY <1>1, <1>3, <1>4, <1>5 DEF R

(* Only the last call of a row is covered by its code. *)
LEMMA RowLast ==
    ASSUME NEW kind \in DOMAIN RowOf, NEW j \in 1..Len(RowOf[kind].calls),
           RowOf[kind].calls[j] \in Covered(kind)
    PROVE  j = Len(RowOf[kind].calls)
  <1>1. RowOf[kind].calls # <<>>
    BY RowKinds
  <1>2. RowOf[kind].calls[j] = Last(RowOf[kind].calls)
    BY <1>1, RowKinds DEF Covered
  <1> QED BY <1>1, <1>2, RowKinds DEF Last

(* What was seen is not forgotten during a request. *)
LEMMA SeenMore ==
    ASSUME NEW kind, NEW r, NEW m, NEW s, NEW t, s \subseteq t
    PROVE  /\ FilledTo(kind, r, m, s) => FilledTo(kind, r, m, t)
           /\ Truthful(kind, r, s) => Truthful(kind, r, t)
  <1>1. \A f : Shows(r, f, s) => Shows(r, f, t)
    BY DEF Shows
  <1>2. FilledTo(kind, r, m, s) => FilledTo(kind, r, m, t)
    BY <1>1 DEF FilledTo
  <1>3. Truthful(kind, r, s) => Truthful(kind, r, t)
    BY DEF Truthful
  <1> QED BY <1>2, <1>3

(* A row whose calls have all been made tells the truth. *)
LEMMA RowFinished ==
    ASSUME NEW kind \in DOMAIN RowOf, NEW r, NEW s,
           FilledTo(kind, r, Len(RowOf[kind].calls) + 1, s)
    PROVE  Truthful(kind, r, s)
  <1> DEFINE calls == RowOf[kind].calls
  <1> SUFFICES ASSUME NEW f \in Read(kind), ~ Shows(r, f, s)
               PROVE  \/ f \notin RowOf[kind].cached /\ r.code = "error" /\ r.val[f] = 0
                      \/ f \notin Covered(kind) /\ r.val[f] = 0
    BY DEF Truthful, Shows
  <1>1. f \notin RowOf[kind].cached
    BY DEF FilledTo
  <1>2. PICK j \in 1..Len(calls) : f = calls[j]
    BY <1>1, RowKinds
  <1>3. Len(calls) \in Nat
    BY RowKinds
  <1>4. r.val[f] = 0
    BY <1>2, <1>3 DEF FilledTo
  <1>5. CASE j = Len(calls)
    <2>1. r.code = "error"
      BY <1>2, <1>3, <1>5 DEF FilledTo
    <2> QED BY <1>1, <1>4, <2>1
  <1>6. CASE j # Len(calls)
    BY <1>2, <1>4, <1>6, RowLast
  <1> QED BY <1>5, <1>6

-----------------------------------------------------------------------------
(* How often a name is in a list. *)
(* It is a number. *)
LEMMA TimesType ==
    ASSUME NEW s, NEW m \in Nat, DOMAIN s = 1..m, NEW n
    PROVE  /\ IsFiniteSet({k \in DOMAIN s : s[k] = n})
           /\ Times(s, n) \in Nat
  <1>1. IsFiniteSet(1..m)
    BY FS_Interval
  <1>2. {k \in DOMAIN s : s[k] = n} \in SUBSET (1..m)
    OBVIOUS
  <1>3. IsFiniteSet({k \in DOMAIN s : s[k] = n})
    BY <1>1, <1>2, FS_Subset
  <1> QED BY <1>3, FS_CardinalityType DEF Times

(* A name that is added to a list is in it once more. *)
LEMMA TimesLonger ==
    ASSUME NEW s, NEW t, NEW m \in Nat, DOMAIN s = 1..m, DOMAIN t = 1..(m + 1),
           \A k \in 1..m : t[k] = s[k], NEW n
    PROVE  Times(t, n) = Times(s, n) + (IF t[m + 1] = n THEN 1 ELSE 0)
  <1> DEFINE S == {k \in DOMAIN s : s[k] = n}
             T == {k \in DOMAIN t : t[k] = n}
  <1>0. Times(s, n) = Cardinality(S) /\ Times(t, n) = Cardinality(T)
    BY DEF Times
  <1>1. IsFiniteSet(S) /\ Cardinality(S) \in Nat
    BY TimesType, FS_CardinalityType
  <1>2. CASE t[m + 1] = n
    <2>1. T = S \cup {m + 1} /\ m + 1 \notin S
      BY <1>2
    <2>2. Cardinality(T) = Cardinality(S) + 1
      BY <1>1, <2>1, FS_AddElement
    <2> HIDE DEF S, T
    <2> QED BY <1>0, <1>2, <2>2
  <1>3. CASE t[m + 1] # n
    <2>1. T = S
      BY <1>3
    <2> HIDE DEF S, T
    <2> QED BY <1>0, <1>1, <1>3, <2>1
  <1> QED BY <1>2, <1>3

(* The first name of a list counts once. *)
LEMMA TimesTail ==
    ASSUME NEW S, NEW s \in Seq(S), s # <<>>, NEW n
    PROVE  Times(s, n) = Times(Tail(s), n) + (IF Head(s) = n THEN 1 ELSE 0)
  <1> DEFINE A == {k \in DOMAIN s : s[k] = n}
             B == {k \in DOMAIN Tail(s) : Tail(s)[k] = n}
             f == [k \in A \ {1} |-> k - 1]
  <1>1. /\ Len(s) \in Nat \ {0} /\ DOMAIN s = 1..Len(s)
        /\ DOMAIN Tail(s) = 1..(Len(s) - 1)
        /\ \A k \in 1..(Len(s) - 1) : Tail(s)[k] = s[k + 1]
        /\ Head(s) = s[1]
    OBVIOUS
  <1>2. IsFiniteSet(A) /\ Cardinality(A) \in Nat
    <2>1. IsFiniteSet(A)
      BY <1>1, TimesType
    <2> HIDE DEF A
    <2> QED BY <2>1, FS_CardinalityType
  <1>3. IsFiniteSet(A \ {1}) /\ Cardinality(A \ {1}) = IF 1 \in A THEN Cardinality(A) - 1 ELSE Cardinality(A)
    BY <1>2, FS_RemoveElement
  <1>4. 1 \in A <=> Head(s) = n
    BY <1>1
  <1>5. A \ {1} \subseteq 2..Len(s) /\ \A k \in 2..Len(s) : k \in A <=> k - 1 \in B
    BY <1>1
  <1>6. B \subseteq 1..(Len(s) - 1)
    BY <1>1
  <1>7. f \in Bijection(A \ {1}, B)
    <2> HIDE DEF A, B
    <2>1. f \in [A \ {1} -> B]
      BY <1>1, <1>5, <1>6
    <2>2. \A i, j \in A \ {1} : f[i] = f[j] => i = j
      BY <1>5, <1>1
    <2>3. ASSUME NEW b \in B PROVE \E a \in A \ {1} : f[a] = b
      <3>1. b + 1 \in A \ {1}
        BY <1>1, <1>5, <1>6
      <3>2. f[b + 1] = b
        BY <1>6, <3>1
      <3> QED BY <3>1, <3>2
    <2> HIDE DEF f
    <2> QED BY <2>1, <2>2, <2>3 DEF Bijection, Injection, Surjection, IsInjective
  <1>8. Cardinality(B) = Cardinality(A \ {1})
    <2>1. ExistsBijection(A \ {1}, B)
      BY <1>7 DEF ExistsBijection
    <2> HIDE DEF A, B, f
    <2> QED BY <1>3, <2>1, FS_Bijection
  <1> HIDE DEF A, B
  <1>9. Cardinality(A) = Cardinality(B) + (IF Head(s) = n THEN 1 ELSE 0)
    BY <1>2, <1>3, <1>4, <1>8
  <1> QED BY <1>9 DEF Times, A, B

(* A listing of a finite set has each of its elements once. *)
LEMMA TimesListing ==
    ASSUME NEW S, IsFiniteSet(S), NEW s \in SetToSeqs(S), NEW n \in S
    PROVE  /\ s \in Seq(S)
           /\ Times(s, n) = 1
  <1> DEFINE D == 1..Cardinality(S)
  <1>1. /\ s \in [D -> S]
        /\ \A i, j \in D : i # j => s[i] # s[j]
    BY DEF SetToSeqs
  <1>2. Cardinality(S) \in Nat
    BY FS_CardinalityType
  <1>3. s \in Injection(D, S)
    BY <1>1 DEF Injection, IsInjective
  <1>4. Cardinality(D) = Cardinality(S)
    BY <1>2, FS_Interval
  <1>5. s \in Surjection(D, S)
    BY <1>3, <1>4, FS_Injection
  <1>6. PICK k \in D : s[k] = n
    BY <1>5 DEF Surjection
  <1>7. {j \in DOMAIN s : s[j] = n} = {k}
    BY <1>1, <1>6
  <1>8. Times(s, n) = 1
    BY <1>7, FS_Singleton DEF Times
  <1> QED BY <1>1, <1>2, <1>8

-----------------------------------------------------------------------------
(* The steps *)

(* What can be read are fields of names in use. *)
LEMMA ReadableType ==
    ASSUME NEW kind \in DOMAIN RowOf, NEW d \in [Names -> Devs \cup {None}],
           NEW v \in [Devs -> [Fields -> 0..1]]
    PROVE  Readable(kind, d, v) \in SUBSET (Names \X Fields \X (0..1))
  <1>1. Read(kind) \subseteq Fields
    BY RowKinds
  <1> QED BY <1>1 DEF Readable

(* A field of a name in use can be read. *)
LEMMA ReadableNow ==
    ASSUME NEW kind, NEW d, NEW v, NEW n \in Names, d[n] # None, NEW f \in Read(kind)
    PROVE  <<n, f, v[d[n]][f]>> \in Readable(kind, d, v)
  BY DEF Readable

(* The values of a row, once its kind is known. *)
LEMMA RowVal ==
    ASSUME NEW r \in Row, NEW kind \in DOMAIN RowOf, DOMAIN r.val = Shown(kind)
    PROVE  r.val \in [Shown(kind) -> 0..1]
  BY DEF Row

(* No snapshot is an empty one. *)
LEMMA NoLinks == <<>> \in UNION {[S -> Link] : S \in SUBSET Names}
  <1>1. <<>> \in [{} -> Link]
    OBVIOUS
  <1> QED BY <1>1

(* No row takes more calls than an offload row. *)
LEMMA OffloadCalls == Len(OffloadRow.calls) = 7
  BY DEF OffloadRow

(* No request has been made yet. *)
LEMMA GetStart == GetInit => GetInv
  <1> SUFFICES ASSUME GetInit PROVE GetInv
    OBVIOUS
  <1>1. GetTypeOK
    <2>1. <<>> \in UNION {[S -> Link] : S \in SUBSET Names}
      BY NoLinks
    <2>2. 0 \in 0..(Len(OffloadRow.calls) + 1)
      BY OffloadCalls
    <2>3. value \in [Devs -> [Fields -> 0..1]]
      BY DEF GetInit
    <2>4. links \in UNION {[S -> Link] : S \in SUBSET Names} /\ todo \in Seq(Names) /\ rows \in Seq(Row)
      BY <2>1 DEF GetInit
    <2>5. device \in [Names -> Devs \cup {None}] /\ changes \in 0..MaxChanges
      BY BoundAssumption DEF GetInit
    <2>6. seen \in SUBSET (Names \X Fields \X (0..1)) /\ steady \in SUBSET Names
      BY DEF GetInit
    <2> QED BY <2>2, <2>3, <2>4, <2>5, <2>6 DEF GetInit, GetTypeOK
  <1>2. Walk /\ Current /\ Witnessed /\ Filling /\ Listed /\ Counted /\ Named /\ Ordered
    BY DEF GetInit, Walk, Current, Witnessed, Filling, Listed, Counted, Named, Ordered
  <1> QED BY <1>1, <1>2 DEF GetInv

(* The kernel changes something: what could be seen stays seen, and a      *)
(* steady name keeps its device.                                           *)
LEMMA KernelStep ==
    ASSUME GetInv, Changed, device' \in [Names -> Devs \cup {None}],
           value' \in [Devs -> [Fields -> 0..1]]
    PROVE  GetInv'
  <1> USE DEF GetInv
  <1>0. /\ pc' = pc /\ req' = req /\ links' = links /\ todo' = todo /\ row' = row
        /\ nextCall' = nextCall /\ rows' = rows /\ skipped' = skipped
        /\ changes < MaxChanges /\ changes' = changes + 1
        /\ seen' = IF pc = "idle" THEN {} ELSE seen \cup Readable(req.kind, device', value')
        /\ steady' = {n \in steady : device'[n] = device[n]}
    BY DEF Changed, Observed, daemon
  <1>1. pc # "idle" => seen \subseteq seen'
    BY <1>0
  <1>2. steady' \subseteq steady
    BY <1>0
  <1>3. GetTypeOK'
    <2>1. seen' \in SUBSET (Names \X Fields \X (0..1))
      <3>1. CASE pc = "idle" BY <1>0, <3>1
      <3>2. CASE pc # "idle"
        <4>1. req.kind \in DOMAIN RowOf
          BY <3>2 DEF Walk, Requests
        <4>2. Readable(req.kind, device', value') \in SUBSET (Names \X Fields \X (0..1))
          BY <4>1, ReadableType
        <4>3. seen \in SUBSET (Names \X Fields \X (0..1))
          BY DEF GetTypeOK
        <4> QED BY <1>0, <3>2, <4>2, <4>3
      <3> QED BY <3>1, <3>2
    <2>2. changes' \in 0..MaxChanges
      BY <1>0, BoundAssumption DEF GetTypeOK
    <2>3. steady' \in SUBSET Names
      BY <1>2 DEF GetTypeOK
    <2> QED BY <1>0, <2>1, <2>2, <2>3 DEF GetTypeOK
  <1>4. Walk'
    <2>1. pc # "idle" => steady' \subseteq Present'
      BY <1>0 DEF Walk, Present, GetTypeOK
    <2> QED BY <1>0, <1>2, <2>1 DEF Walk
  <1>5. Current'
    BY <1>0 DEF Current
  <1>6. Witnessed'
    BY <1>0, <1>1 DEF Witnessed
  <1>7. Filling'
    BY <1>0, <1>1, SeenMore DEF Filling
  <1>8. Listed'
    <2> SUFFICES ASSUME pc # "idle", NEW k \in DOMAIN rows PROVE Truthful(req.kind, rows[k], seen')
      BY <1>0 DEF Listed, RowsTrue
    <2>1. Truthful(req.kind, rows[k], seen)
      BY DEF Listed, RowsTrue
    <2> QED BY <1>1, <2>1, SeenMore
  <1>9. RowNames' = RowNames
    BY <1>0 DEF RowNames
  <1>10. Counted'
    BY <1>0, <1>2, <1>9 DEF Counted
  <1>11. Named'
    BY <1>0, <1>1 DEF Named
  <1>12. Ordered'
    BY <1>0, <1>9 DEF Ordered
  <1> QED BY <1>3, <1>4, <1>5, <1>6, <1>7, <1>8, <1>10, <1>11, <1>12

(* An interface changes, appears, goes or is renamed. *)
LEMMA KernelSteps ==
    ASSUME GetInv, NEW n \in Names,
           \/ \E f \in Volatile : FieldChanges(n, f)
           \/ \E d \in Devs : LinkAppears(n, d)
           \/ LinkGoes(n)
           \/ \E m \in Names : LinkRenamed(m, n)
    PROVE  GetInv'
  <1>1. /\ device \in [Names -> Devs \cup {None}]
        /\ value \in [Devs -> [Fields -> 0..1]]
    BY DEF GetInv, GetTypeOK
  <1>2. ASSUME NEW f \in Volatile, FieldChanges(n, f) PROVE GetInv'
    <2>1. device[n] \in Devs
      BY <1>1, <1>2 DEF FieldChanges
    <2>2. value' \in [Devs -> [Fields -> 0..1]]
      <3>1. ASSUME NEW d \in Devs PROVE value'[d] \in [Fields -> 0..1]
        <4>1. CASE d = device[n]
          <5>1. value'[d] = [value[d] EXCEPT ![f] = 1 - @]
            BY <1>1, <1>2, <2>1, <4>1 DEF FieldChanges
          <5>2. value[d] \in [Fields -> 0..1]
            BY <1>1
          <5>3. f \in Fields => 1 - value[d][f] \in 0..1
            BY <5>2
          <5> QED BY <5>1, <5>2, <5>3
        <4>2. CASE d # device[n]
          BY <1>1, <1>2, <4>2 DEF FieldChanges
        <4> QED BY <4>1, <4>2
      <3>2. value' = [d \in Devs |-> value'[d]]
        BY <1>1, <1>2 DEF FieldChanges
      <3> QED BY <3>1, <3>2
    <2>3. device' \in [Names -> Devs \cup {None}] /\ Changed
      BY <1>1, <1>2 DEF FieldChanges
    <2> QED BY <2>2, <2>3, KernelStep
  <1>3. ASSUME NEW d \in Devs, LinkAppears(n, d) PROVE GetInv'
    <2>1. device' \in [Names -> Devs \cup {None}] /\ value' = value /\ Changed
      BY <1>1, <1>3 DEF LinkAppears
    <2> QED BY <1>1, <2>1, KernelStep
  <1>4. CASE LinkGoes(n)
    <2>1. device' \in [Names -> Devs \cup {None}] /\ value' = value /\ Changed
      BY <1>1, <1>4 DEF LinkGoes
    <2> QED BY <1>1, <2>1, KernelStep
  <1>5. ASSUME NEW m \in Names, LinkRenamed(m, n) PROVE GetInv'
    <2>1. device' \in [Names -> Devs \cup {None}] /\ value' = value /\ Changed
      BY <1>1, <1>5 DEF LinkRenamed
    <2> QED BY <1>1, <2>1, KernelStep
  <1> QED BY <1>2, <1>3, <1>4, <1>5

(* The user asks: from here on values and names are watched. *)
LEMMA TypeStep ==
    ASSUME GetInv, NEW kind \in DOMAIN RowOf, NEW ids \in IdLists, Type(kind, ids)
    PROVE  GetInv'
  <1> USE DEF GetInv
  <1>0. /\ pc = "idle" /\ pc' = "cache" /\ req' = [kind |-> kind, ids |-> ids]
        /\ seen' = Readable(kind, device, value) /\ steady' = Present
        /\ UNCHANGED <<device, value, changes, links, todo, row, nextCall, rows, skipped>>
    BY DEF Type, kernel, daemon
  <1>1. req' \in Requests /\ req'.kind = kind /\ req'.ids = ids
    BY <1>0 DEF Requests
  <1>2. seen' \in SUBSET (Names \X Fields \X (0..1))
    BY <1>0, ReadableType DEF GetTypeOK
  <1>3. GetTypeOK'
    <2>1. steady' \in SUBSET Names /\ req' \in Requests \cup {None}
      BY <1>0, <1>1 DEF Present
    <2> QED BY <1>0, <1>2, <2>1 DEF GetTypeOK, Requests
  <1>4. Walk'
    BY <1>0, <1>1 DEF Walk, Present
  <1>5. Current'
    BY <1>0, <1>1 DEF Current
  <1>6. Witnessed' /\ Filling' /\ Counted'
    BY <1>0 DEF Witnessed, Filling, Counted
  <1>7. rows' = <<>>
    BY <1>0 DEF Walk
  <1>8. Listed' /\ Named' /\ Ordered'
    BY <1>0, <1>7 DEF Listed, RowsTrue, Named, Ordered
  <1> QED BY <1>3, <1>4, <1>5, <1>6, <1>8

(* The snapshot holds what can be read now, of every steady name. *)
LEMMA SnapshotTaken ==
    ASSUME GetInv, pc = "cache", links' = Cached(RowOf[req.kind].cached),
           NEW table \in SetToSeqs(Present), todo' = Asked(req.ids, table),
           pc' = "rows", UNCHANGED <<kernel, req, row, nextCall, rows, skipped, history>>
    PROVE  GetInv'
  <1> USE DEF GetInv
  <1>0. UNCHANGED <<device, value, changes, req, row, nextCall, rows, skipped, seen, steady>>
    BY DEF kernel, history
  <1>1. /\ req.kind \in DOMAIN RowOf /\ req.ids \in Seq(Names) /\ req \in Requests
    BY IdListsAssumption DEF Walk, Requests
  <1>2. RowOf[req.kind].cached \subseteq Read(req.kind) /\ Read(req.kind) # {}
        /\ Read(req.kind) \subseteq Fields
    BY <1>1, RowKinds
  <1>3. /\ DOMAIN links' = Present
        /\ \A n \in Present : /\ links'[n] \in [RowOf[req.kind].cached -> 0..1]
                              /\ \A f \in RowOf[req.kind].cached : links'[n][f] = value[device[n]][f]
    <2>1. \A n \in Present : device[n] \in Devs
      BY DEF Present, GetTypeOK
    <2>2. \A n \in Present : \A f \in RowOf[req.kind].cached : value[device[n]][f] \in 0..1
      BY <1>2, <2>1 DEF GetTypeOK
    <2> QED BY <2>2 DEF Cached
  <1>4. IsFiniteSet(Present)
    BY NamesAssumption, FS_Subset DEF Present
  <1>5. table \in Seq(Present) /\ \A n \in Present : Times(table, n) = 1
    <2>1. \A n \in Present : Times(table, n) = 1
      BY <1>4, TimesListing
    <2>2. Cardinality(Present) \in Nat
      BY <1>4, FS_CardinalityType
    <2>3. table \in [1..Cardinality(Present) -> Present]
      BY DEF SetToSeqs
    <2> QED BY <2>1, <2>2, <2>3
  <1>6. todo' \in Seq(Names)
    BY <1>1, <1>5 DEF Asked, Present
  <1>7. GetTypeOK'
    <2>1. links' \in UNION {[S -> Link] : S \in SUBSET Names}
      <3>1. links' = [n \in Present |-> links'[n]]
        BY DEF Cached
      <3>2. \A n \in Present : links'[n] \in Link
        BY <1>1, <1>3 DEF Link
      <3>3. links' \in [Present -> Link]
        BY <3>1, <3>2
      <3> QED BY <3>3 DEF Present
    <2> QED BY <1>0, <1>6, <2>1 DEF GetTypeOK
  <1>8. rows = <<>> /\ todo = <<>> /\ steady \subseteq Present
    BY DEF Walk
  <1>9. Walk'
    BY <1>0, <1>1, <1>3, <1>8 DEF Walk, Present
  <1>10. Current'
    BY <1>0 DEF Current
  <1>11. Witnessed'
    <2>1. \A n \in Present : \A f \in Read(req.kind) : <<n, f, value[device[n]][f]>> \in seen
      BY DEF Current, Readable, Present
    <2>2. \A n \in Present : \E s \in seen : s[1] = n
      BY <1>2, <2>1
    <2> QED BY <1>0, <1>2, <1>3, <2>1, <2>2 DEF Witnessed
  <1>12. Filling' /\ Listed' /\ Named'
    BY <1>0, <1>8 DEF Filling, Listed, RowsTrue, Named
  <1>13. RowNames' = <<>>
    BY <1>0, <1>8 DEF RowNames
  <1>14. \A n : Times(<<>>, n) = 0
    BY FS_EmptySet DEF Times
  <1>15. Counted'
    <2>1. ASSUME NEW n \in steady PROVE Times(todo', n) = Wanted(req.ids, n)
      BY <1>5, <1>8 DEF Wanted, Asked
    <2>2. ASSUME NEW n PROVE Times(todo', n) \in Nat
      <3>1. Len(todo') \in Nat /\ DOMAIN todo' = 1..Len(todo')
        BY <1>6
      <3> QED BY <3>1, TimesType
    <2> QED BY <1>0, <1>13, <1>14, <2>1, <2>2 DEF Counted
  <1>16. Ordered'
    <2> SUFFICES ASSUME req.ids # <<>> PROVE InOrder(<<>>, req.ids, req.ids, Present)
      BY <1>0, <1>3, <1>13 DEF Ordered, Asked
    <2>1. LeftOf(req.ids, 0, req.ids) /\ 0 \in 0..Len(req.ids)
      BY <1>1 DEF LeftOf
    <2>2. Matched(<<>>, req.ids, 0, Present)
      <3>1. <<>> \in [DOMAIN <<>> -> 1..0] /\ DOMAIN <<>> = {} /\ \A j \in 1..0 : FALSE
        OBVIOUS
      <3> QED BY <3>1 DEF Matched
    <2> QED BY <2>1, <2>2 DEF InOrder
  <1> QED BY <1>7, <1>9, <1>10, <1>11, <1>12, <1>15, <1>16

(* Either all links are in the snapshot or there is none. *)
LEMMA SnapshotStep ==
    ASSUME GetInv, Snapshot
    PROVE  GetInv'
  <1>1. CASE /\ links' = Cached(RowOf[req.kind].cached)
             /\ \E table \in SetToSeqs(Present) : todo' = Asked(req.ids, table)
             /\ pc' = "rows"
             /\ UNCHANGED skipped
    BY <1>1, SnapshotTaken DEF Snapshot, kernel, history
  <1>2. CASE /\ skipped' = TRUE
             /\ pc' = "reply"
             /\ UNCHANGED <<links, todo>>
    <2> USE DEF GetInv
    <2>0. pc = "cache" /\ UNCHANGED <<device, value, changes, req, row, nextCall, rows, seen, steady>>
      BY DEF Snapshot, kernel, history
    <2>1. rows' = <<>> /\ todo' = <<>>
      BY <1>2, <2>0 DEF Walk
    <2>2. GetTypeOK'
      BY <1>2, <2>0 DEF GetTypeOK
    <2>3. Walk'
      BY <1>2, <2>0, <2>1 DEF Walk, Present
    <2>4. Current' /\ Witnessed' /\ Filling'
      BY <1>2, <2>0 DEF Current, Witnessed, Filling
    <2>5. Listed' /\ Named'
      BY <2>1 DEF Listed, RowsTrue, Named
    <2>6. Counted' /\ Ordered'
      BY <1>2 DEF Counted, Ordered
    <2> QED BY <2>2, <2>3, <2>4, <2>5, <2>6
  <1> QED BY <1>1, <1>2 DEF Snapshot

-----------------------------------------------------------------------------
(* Along the list of names *)

(* One more name is done. *)
LEMMA LeftOfTail ==
    ASSUME NEW ids \in Seq(Names), NEW done \in 0..Len(ids), NEW left \in Seq(Names),
           LeftOf(ids, done, left), left # <<>>
    PROVE  /\ done + 1 \in 0..Len(ids)
           /\ LeftOf(ids, done + 1, Tail(left))
           /\ Head(left) = ids[done + 1]
  <1>1. /\ Len(ids) \in Nat /\ Len(left) \in Nat \ {0} /\ Len(left) = Len(ids) - done
        /\ Len(Tail(left)) = Len(left) - 1 /\ Head(left) = left[1]
        /\ \A j \in 1..(Len(left) - 1) : Tail(left)[j] = left[j + 1]
    BY DEF LeftOf
  <1>2. done + 1 \in 0..Len(ids)
    BY <1>1
  <1>3. \A j \in 1..Len(left) : left[j] = ids[done + j]
    BY DEF LeftOf
  <1>4. Head(left) = ids[done + 1]
    BY <1>1, <1>3
  <1>5. ASSUME NEW j \in 1..Len(Tail(left)) PROVE Tail(left)[j] = ids[(done + 1) + j]
    <2>1. j \in 1..(Len(left) - 1) /\ j + 1 \in 1..Len(left) /\ done + (j + 1) = (done + 1) + j
      BY <1>1
    <2> QED BY <1>1, <1>3, <2>1
  <1>6. LeftOf(ids, done + 1, Tail(left))
    BY <1>1, <1>5 DEF LeftOf
  <1> QED BY <1>2, <1>4, <1>6

(* A name that is not in the snapshot adds no row. *)
LEMMA InOrderMissing ==
    ASSUME NEW names, NEW ids \in Seq(Names), NEW left \in Seq(Names), NEW known,
           InOrder(names, ids, left, known), left # <<>>, Head(left) \notin known
    PROVE  InOrder(names, ids, Tail(left), known)
  <1>1. PICK done \in 0..Len(ids) : LeftOf(ids, done, left) /\ Matched(names, ids, done, known)
    BY DEF InOrder
  <1>2. /\ done + 1 \in 0..Len(ids) /\ LeftOf(ids, done + 1, Tail(left)) /\ Head(left) = ids[done + 1]
    BY <1>1, LeftOfTail
  <1>3. Matched(names, ids, done + 1, known)
    <2>1. PICK at \in [DOMAIN names -> 1..done] :
              /\ \A k, l \in DOMAIN names : k < l => at[k] < at[l]
              /\ \A k \in DOMAIN names : names[k] = ids[at[k]] /\ names[k] \in known
              /\ \A j \in 1..done : ids[j] \in known => \E k \in DOMAIN names : at[k] = j
      BY <1>1 DEF Matched
    <2>2. at \in [DOMAIN names -> 1..(done + 1)]
      BY <2>1
    <2>3. \A j \in 1..(done + 1) : ids[j] \in known => j \in 1..done
      BY <1>2
    <2> QED BY <2>1, <2>2, <2>3 DEF Matched
  <1> QED BY <1>2, <1>3 DEF InOrder

(* A name that is in the snapshot adds a row behind all others. *)
LEMMA InOrderTaken ==
    ASSUME NEW names, NEW m \in Nat, DOMAIN names = 1..m,
           NEW more, DOMAIN more = 1..(m + 1), \A k \in 1..m : more[k] = names[k],
           NEW ids \in Seq(Names), NEW left \in Seq(Names), NEW known,
           InOrder(names, ids, left, known), left # <<>>, Head(left) \in known,
           more[m + 1] = Head(left)
    PROVE  InOrder(more, ids, Tail(left), known)
  <1>1. PICK done \in 0..Len(ids) : LeftOf(ids, done, left) /\ Matched(names, ids, done, known)
    BY DEF InOrder
  <1>2. /\ done + 1 \in 0..Len(ids) /\ LeftOf(ids, done + 1, Tail(left)) /\ Head(left) = ids[done + 1]
    BY <1>1, LeftOfTail
  <1>3. Matched(more, ids, done + 1, known)
    <2>0. PICK at \in [DOMAIN names -> 1..done] :
              /\ \A k, l \in DOMAIN names : k < l => at[k] < at[l]
              /\ \A k \in DOMAIN names : names[k] = ids[at[k]] /\ names[k] \in known
              /\ \A j \in 1..done : ids[j] \in known => \E k \in DOMAIN names : at[k] = j
      BY <1>1 DEF Matched
    <2>1. /\ at \in [1..m -> 1..done]
          /\ \A k, l \in 1..m : k < l => at[k] < at[l]
          /\ \A k \in 1..m : names[k] = ids[at[k]] /\ names[k] \in known
          /\ \A j \in 1..done : ids[j] \in known => \E k \in 1..m : at[k] = j
      BY <2>0
    <2> DEFINE to == [k \in 1..(m + 1) |-> IF k = m + 1 THEN done + 1 ELSE at[k]]
    <2>2. \A k \in 1..m : to[k] = at[k] /\ at[k] \in 1..done /\ k # m + 1
      BY <2>1
    <2>3. to[m + 1] = done + 1 /\ to \in [1..(m + 1) -> 1..(done + 1)]
      BY <2>2
    <2>4. \A k \in 1..(m + 1) : k \in 1..m \/ k = m + 1
      OBVIOUS
    <2> HIDE DEF to
    <2>5. \A k, l \in 1..(m + 1) : k < l => to[k] < to[l]
      <3> SUFFICES ASSUME NEW k \in 1..(m + 1), NEW l \in 1..(m + 1), k < l
                   PROVE  to[k] < to[l]
        OBVIOUS
      <3>1. k \in 1..m
        OBVIOUS
      <3>2. CASE l \in 1..m
        BY <2>1, <2>2, <3>1, <3>2
      <3>3. CASE l = m + 1
        BY <2>2, <2>3, <3>1, <3>3
      <3> QED BY <2>4, <3>2, <3>3
    <2>6. \A k \in 1..(m + 1) : more[k] = ids[to[k]] /\ more[k] \in known
      BY <1>2, <2>1, <2>2, <2>3, <2>4
    <2>7. ASSUME NEW j \in 1..(done + 1), ids[j] \in known
          PROVE  \E k \in 1..(m + 1) : to[k] = j
      <3>1. CASE j \in 1..done
        <4>1. PICK k \in 1..m : at[k] = j
          BY <2>1, <2>7, <3>1
        <4>2. k \in 1..(m + 1) /\ to[k] = j
          BY <2>2, <4>1
        <4> QED BY <4>2
      <3>2. CASE j = done + 1
        BY <2>3, <3>2
      <3> QED BY <3>1, <3>2
    <2>8. /\ to \in [DOMAIN more -> 1..(done + 1)]
          /\ \A k, l \in DOMAIN more : k < l => to[k] < to[l]
          /\ \A k \in DOMAIN more : more[k] = ids[to[k]] /\ more[k] \in known
          /\ \A j \in 1..(done + 1) : ids[j] \in known => \E k \in DOMAIN more : to[k] = j
      BY <2>3, <2>5, <2>6, <2>7
    <2> QED BY <2>8 DEF Matched
  <1> QED BY <1>2, <1>3 DEF InOrder

(* When no name is left the rows are in turn. *)
LEMMA InOrderEnds ==
    ASSUME NEW names, NEW ids \in Seq(Names), NEW known, InOrder(names, ids, <<>>, known)
    PROVE  InTurn(names, ids)
  <1>1. PICK done \in 0..Len(ids) : LeftOf(ids, done, <<>>) /\ Matched(names, ids, done, known)
    BY DEF InOrder
  <1>2. done = Len(ids) /\ DOMAIN ids = 1..Len(ids) /\ Len(ids) \in Nat
    BY <1>1 DEF LeftOf
  <1>3. PICK at \in [DOMAIN names -> DOMAIN ids] :
              /\ \A k, l \in DOMAIN names : k < l => at[k] < at[l]
              /\ \A k \in DOMAIN names : names[k] = ids[at[k]] /\ names[k] \in known
              /\ \A j \in DOMAIN ids : ids[j] \in known => \E k \in DOMAIN names : at[k] = j
    BY <1>1, <1>2 DEF Matched
  <1>4. \A n \in ToSet(names) : n \in known
    BY <1>3 DEF ToSet
  <1> QED BY <1>3, <1>4 DEF InTurn

(* No steady name is missing in the snapshot. *)
LEMMA MissingStep ==
    ASSUME GetInv, RowMissing
    PROVE  GetInv'
  <1> USE DEF GetInv
  <1>0. /\ pc = "rows" /\ todo # <<>> /\ Head(todo) \notin DOMAIN links /\ todo' = Tail(todo)
        /\ UNCHANGED <<device, value, changes, pc, req, links, row, nextCall, rows, skipped, seen, steady>>
    BY DEF RowMissing, kernel, history
  <1>1. todo \in Seq(Names) /\ Tail(todo) \in Seq(Names)
    BY <1>0 DEF GetTypeOK
  <1>2. GetTypeOK' /\ Walk' /\ Current' /\ Witnessed' /\ Filling' /\ Listed' /\ Named'
    <2>1. GetTypeOK' BY <1>0, <1>1 DEF GetTypeOK
    <2>2. Walk' BY <1>0 DEF Walk, Present
    <2>3. Current' /\ Witnessed' BY <1>0 DEF Current, Witnessed
    <2>4. Filling' BY <1>0 DEF Filling
    <2>5. Listed' /\ Named' BY <1>0 DEF Listed, RowsTrue, Named
    <2> QED BY <2>1, <2>2, <2>3, <2>4, <2>5
  <1>3. RowNames' = RowNames
    BY <1>0 DEF RowNames
  <1>4. Counted'
    <2> SUFFICES ASSUME ~skipped, NEW n \in steady
                 PROVE  Times(RowNames, n) + Times(Tail(todo), n) = Wanted(req.ids, n)
      BY <1>0, <1>3 DEF Counted
    <2>1. n # Head(todo)
      BY <1>0 DEF Walk
    <2>2. Times(todo, n) = Times(Tail(todo), n) + 0
      BY <1>0, <1>1, <2>1, TimesTail
    <2>3. Len(Tail(todo)) \in Nat /\ DOMAIN Tail(todo) = 1..Len(Tail(todo))
      BY <1>1
    <2>4. Times(Tail(todo), n) \in Nat
      BY <2>3, TimesType
    <2> QED BY <1>0, <2>2, <2>4 DEF Counted
  <1>5. Ordered'
    <2> SUFFICES ASSUME ~skipped, req.ids # <<>>
                 PROVE  InOrder(RowNames, req.ids, Tail(todo), DOMAIN links)
      BY <1>0, <1>3 DEF Ordered
    <2>1. InOrder(RowNames, req.ids, todo, DOMAIN links)
      BY <1>0 DEF Ordered
    <2>2. req.ids \in Seq(Names)
      BY <1>0, IdListsAssumption DEF Walk, Requests
    <2> QED BY <1>0, <1>1, <2>1, <2>2, InOrderMissing
  <1> QED BY <1>2, <1>4, <1>5

(* A row begins with what the snapshot holds. *)
LEMMA BeginsStep ==
    ASSUME GetInv, RowBegins
    PROVE  GetInv'
  <1> USE DEF GetInv
  <1> DEFINE c == RowOf[req.kind].cached
             v == [f \in Shown(req.kind) |-> IF f \in c THEN links[Head(todo)][f] ELSE 0]
  <1>0. /\ pc = "rows" /\ todo # <<>> /\ Head(todo) \in DOMAIN links
        /\ row' = [name |-> Head(todo), code |-> "OK", val |-> v]
        /\ nextCall' = 1 /\ pc' = "calls"
        /\ UNCHANGED <<device, value, changes, req, links, todo, rows, skipped, seen, steady>>
    BY DEF RowBegins, Found, kernel, history
  <1>1. req \in Requests /\ req.kind \in DOMAIN RowOf
    BY <1>0 DEF Walk, Requests
  <1>2. /\ c \subseteq Shown(req.kind)
        /\ Len(RowOf[req.kind].calls) \in Nat
    BY <1>1, RowKinds
  <1>3. \A f \in c : <<Head(todo), f, links[Head(todo)][f]>> \in seen
    BY <1>0 DEF Witnessed
  <1>4. \A f \in c : links[Head(todo)][f] \in 0..1
    BY <1>3 DEF GetTypeOK
  <1>5. v \in [Shown(req.kind) -> 0..1] /\ \A f \in c : v[f] = links[Head(todo)][f]
    BY <1>2, <1>4
  <1>6. Head(todo) \in Names
    BY <1>0 DEF GetTypeOK
  <1> HIDE DEF v
  <1>7. row' \in Row /\ row'.name = Head(todo) /\ row'.val = v
    BY <1>0, <1>1, <1>5, <1>6 DEF Row
  <1>8. GetTypeOK'
    <2>1. nextCall' \in 0..(Len(OffloadRow.calls) + 1)
      BY <1>0, OffloadCalls
    <2> QED BY <1>0, <1>7, <2>1 DEF GetTypeOK
  <1>9. Filling'
    <2>1. \A f \in c : Shows(row', f, seen)
      BY <1>3, <1>5, <1>7 DEF Shows
    <2>2. FilledTo(req.kind, row', 1, seen)
      BY <1>2, <2>1 DEF FilledTo
    <2>3. DOMAIN row'.val = Shown(req.kind)
      BY <1>5, <1>7
    <2> QED BY <1>0, <1>7, <2>2, <2>3 DEF Filling
  <1>10. Walk' BY <1>0 DEF Walk, Present
  <1>11. Current' /\ Witnessed' BY <1>0 DEF Current, Witnessed
  <1>12. Listed' /\ Named' BY <1>0 DEF Listed, RowsTrue, Named
  <1>13. RowNames' = RowNames BY <1>0 DEF RowNames
  <1>14. Counted' BY <1>0, <1>13 DEF Counted
  <1>15. Ordered' BY <1>0, <1>13 DEF Ordered
  <1> QED BY <1>8, <1>9, <1>10, <1>11, <1>12, <1>14, <1>15

(* Memory is short: nothing is promised about the list any more. *)
LEMMA SkippedStep ==
    ASSUME GetInv, RowSkipped
    PROVE  GetInv'
  <1> USE DEF GetInv
  <1>0. /\ pc = "rows" /\ todo # <<>> /\ todo' = Tail(todo) /\ skipped' = TRUE
        /\ UNCHANGED <<device, value, changes, pc, req, links, row, nextCall, rows, seen, steady>>
    BY DEF RowSkipped, Found, kernel, history
  <1>1. GetTypeOK' BY <1>0 DEF GetTypeOK
  <1>2. Walk' BY <1>0 DEF Walk, Present
  <1>3. Current' /\ Witnessed' /\ Filling' BY <1>0 DEF Current, Witnessed, Filling
  <1>4. Listed' /\ Named' BY <1>0 DEF Listed, RowsTrue, Named
  <1>5. Counted' /\ Ordered' BY <1>0 DEF Counted, Ordered
  <1> QED BY <1>1, <1>2, <1>3, <1>4, <1>5

(* dabbad ends, or dies: there is no list. *)
LEMMA LostStep ==
    ASSUME GetInv, Lost, pc # "idle"
    PROVE  GetInv'
  <1> USE DEF GetInv
  <1>0. /\ pc' = "lost" /\ links' = <<>> /\ todo' = <<>> /\ row' = None /\ nextCall' = 0 /\ rows' = <<>>
        /\ UNCHANGED <<device, value, changes, req, skipped, seen, steady>>
    BY DEF Lost, kernel, history
  <1>1. GetTypeOK'
    <2>1. nextCall' \in 0..(Len(OffloadRow.calls) + 1)
      BY <1>0, OffloadCalls
    <2>2. links' \in UNION {[S -> Link] : S \in SUBSET Names}
      BY <1>0, NoLinks
    <2>3. todo' \in Seq(Names) /\ rows' \in Seq(Row)
      BY <1>0
    <2> QED BY <1>0, <2>1, <2>2, <2>3 DEF GetTypeOK
  <1>2. Walk' BY <1>0 DEF Walk, Present
  <1>3. Current' /\ Witnessed' /\ Filling' BY <1>0 DEF Current, Witnessed, Filling
  <1>4. Listed' /\ Named' BY <1>0 DEF Listed, RowsTrue, Named
  <1>5. Counted' /\ Ordered' BY <1>0 DEF Counted, Ordered
  <1> QED BY <1>1, <1>2, <1>3, <1>4, <1>5

(* The list is printed and forgotten. *)
LEMMA DisplayStep ==
    ASSUME GetInv, Display
    PROVE  GetInv'
  <1> USE DEF GetInv
  <1>0. /\ pc \in {"reply", "lost"} /\ pc' = "idle" /\ req' = None /\ rows' = <<>> /\ skipped' = FALSE
        /\ seen' = {} /\ steady' = {}
        /\ UNCHANGED <<device, value, changes, links, todo, row, nextCall>>
    BY DEF Display, kernel
  <1>1. GetTypeOK'
    <2>1. rows' \in Seq(Row) /\ seen' \in SUBSET (Names \X Fields \X (0..1))
      BY <1>0
    <2> QED BY <1>0, <2>1 DEF GetTypeOK
  <1>2. Walk' BY <1>0 DEF Walk, Present
  <1>3. Current' /\ Witnessed' /\ Filling' /\ Listed' /\ Named' /\ Counted' /\ Ordered'
    BY <1>0 DEF Current, Witnessed, Filling, Listed, Named, Counted, Ordered
  <1> QED BY <1>1, <1>2, <1>3

(* A driver call: what it reads can be seen now under the name of the row, *)
(* and if it fails it leaves 0 and an error.                               *)
LEMMA CallStep ==
    ASSUME GetInv, Call
    PROVE  GetInv'
  <1> USE DEF GetInv
  <1> DEFINE calls == RowOf[req.kind].calls
             field == calls[nextCall]
  <1>0. /\ pc = "calls" /\ nextCall <= Len(calls) /\ nextCall' = nextCall + 1
        /\ UNCHANGED <<device, value, changes, pc, req, links, todo, rows, skipped, seen, steady>>
    BY DEF Call, kernel, history
  <1>1. req \in Requests /\ req.kind \in DOMAIN RowOf
    BY <1>0 DEF Walk, Requests
  <1>2. /\ row \in Row /\ row.name \in Names /\ DOMAIN row.val = Shown(req.kind)
        /\ nextCall \in 1..(Len(calls) + 1)
        /\ FilledTo(req.kind, row, nextCall, seen)
        /\ todo # <<>> /\ row.name = Head(todo) /\ row.name \in DOMAIN links
    BY <1>0 DEF Filling, FilledTo, Row
  <1>3. /\ Len(calls) \in 0..7 /\ nextCall \in 1..Len(calls)
        /\ field \in Read(req.kind) /\ field \in Shown(req.kind) /\ field \in Fields
        /\ field \notin RowOf[req.kind].cached
        /\ RowOf[req.kind].cached \subseteq Shown(req.kind)
        /\ \A j \in 1..Len(calls) : calls[j] \in Shown(req.kind) /\ (calls[j] = field => j = nextCall)
    <2>1. Len(calls) \in 0..7
      BY <1>1, RowKinds
    <2>2. nextCall \in 1..Len(calls)
      BY <1>0, <1>2, <2>1
    <2> QED BY <1>1, <2>1, <2>2, RowKinds
  <1>4. row.val \in [Shown(req.kind) -> 0..1] /\ row.code \in {"OK", "error"}
    BY <1>1, <1>2, RowVal DEF Row
  <1>5. PICK x \in 0..1, code \in {"OK", "error"} :
           /\ row' = [row EXCEPT !.val[field] = x, !.code = code]
           /\ \/ <<row.name, field, x>> \in seen
              \/ x = 0 /\ code = "error"
    <2>1. CASE device[row.name] # None /\ row' = CallAnswers(value[device[row.name]][field], "OK")
      <3>1. device[row.name] \in Devs
        BY <1>2, <2>1 DEF GetTypeOK
      <3>2. value[device[row.name]][field] \in 0..1
        BY <1>3, <3>1 DEF GetTypeOK
      <3>3. <<row.name, field, value[device[row.name]][field]>> \in Readable(req.kind, device, value)
        BY <1>2, <1>3, <2>1, ReadableNow
      <3>4. <<row.name, field, value[device[row.name]][field]>> \in seen
        BY <1>0, <3>3 DEF Current
      <3> QED BY <2>1, <3>2, <3>4 DEF CallAnswers
    <2>2. CASE row' = CallAnswers(0, "error")
      BY <2>2 DEF CallAnswers
    <2> QED BY <2>1, <2>2 DEF Call
  <1> HIDE DEF field
  <1>6. /\ row'.name = row.name /\ row'.code = code
        /\ row'.val = [row.val EXCEPT ![field] = x]
        /\ row' = [name |-> row'.name, code |-> row'.code, val |-> row'.val]
    BY <1>2, <1>5 DEF Row
  <1>7. /\ row'.val \in [Shown(req.kind) -> 0..1]
        /\ row'.val[field] = x
        /\ \A f \in Shown(req.kind) : f # field => row'.val[f] = row.val[f]
    BY <1>3, <1>4, <1>5, <1>6
  <1>8. row' \in Row /\ DOMAIN row'.val = Shown(req.kind)
    BY <1>1, <1>2, <1>5, <1>6, <1>7 DEF Row
  <1>9. FilledTo(req.kind, row', nextCall + 1, seen)
    <2>1. \A f \in RowOf[req.kind].cached : Shows(row', f, seen)
      BY <1>2, <1>3, <1>6, <1>7 DEF FilledTo, Shows
    <2>2. ASSUME NEW j \in 1..(nextCall - 1)
          PROVE  Shows(row', calls[j], seen) \/ row'.val[calls[j]] = 0
      <3>1. j \in 1..Len(calls) /\ j # nextCall
        BY <1>3
      <3>2. row'.val[calls[j]] = row.val[calls[j]]
        BY <1>3, <1>7, <3>1
      <3>3. Shows(row, calls[j], seen) \/ row.val[calls[j]] = 0
        BY <1>2 DEF FilledTo
      <3> QED BY <1>6, <3>2, <3>3 DEF Shows
    <2>3. \/ Shows(row', field, seen)
          \/ row'.val[field] = 0 /\ row'.code = "error"
      BY <1>5, <1>6, <1>7 DEF Shows
    <2>4. (nextCall + 1) - 1 = nextCall /\ nextCall + 1 \in 1..(Len(calls) + 1)
      BY <1>3
    <2>5. \A j \in 1..nextCall : j \in 1..(nextCall - 1) \/ j = nextCall
      BY <1>3
    <2>6. \A j \in 1..nextCall : Shows(row', calls[j], seen) \/ row'.val[calls[j]] = 0
      BY <2>2, <2>3, <2>5 DEF field
    <2>7. \/ Shows(row', calls[nextCall], seen)
          \/ row'.val[calls[nextCall]] = 0 /\ row'.code = "error"
      BY <2>3 DEF field
    <2> QED BY <2>1, <2>4, <2>6, <2>7 DEF FilledTo
  <1>10. Filling'
    BY <1>0, <1>2, <1>6, <1>8, <1>9 DEF Filling
  <1>11. GetTypeOK'
    <2>1. nextCall' \in 0..(Len(OffloadRow.calls) + 1)
      <3> HIDE DEF calls
      <3>1. nextCall + 1 \in 0..8
        BY <1>3
      <3> QED BY <1>0, <3>1, OffloadCalls
    <2> QED BY <1>0, <1>8, <2>1 DEF GetTypeOK
  <1>12. Walk' BY <1>0 DEF Walk, Present
  <1>13. Current' /\ Witnessed' BY <1>0 DEF Current, Witnessed
  <1>14. Listed' /\ Named' BY <1>0 DEF Listed, RowsTrue, Named
  <1>15. RowNames' = RowNames BY <1>0 DEF RowNames
  <1>16. Counted' /\ Ordered' BY <1>0, <1>15 DEF Counted, Ordered
  <1> QED BY <1>10, <1>11, <1>12, <1>13, <1>14, <1>16

(* The row is finished and joins the list. *)
LEMMA EndsStep ==
    ASSUME GetInv, RowEnds
    PROVE  GetInv'
  <1> USE DEF GetInv
  <1>0. /\ pc = "calls" /\ nextCall > Len(RowOf[req.kind].calls) /\ rows' = Append(rows, row)
        /\ row' = None /\ nextCall' = 0 /\ todo' = Tail(todo) /\ pc' = "rows"
        /\ UNCHANGED <<device, value, changes, req, links, skipped, seen, steady>>
    BY DEF RowEnds, kernel, history
  <1>1. req \in Requests /\ req.kind \in DOMAIN RowOf /\ req.ids \in Seq(Names)
    BY <1>0, IdListsAssumption DEF Walk, Requests
  <1>2. /\ row \in Row /\ todo # <<>> /\ row.name = Head(todo) /\ row.name \in DOMAIN links
        /\ FilledTo(req.kind, row, nextCall, seen)
        /\ nextCall \in 1..(Len(RowOf[req.kind].calls) + 1)
    BY <1>0 DEF Filling, FilledTo
  <1>3. /\ rows \in Seq(Row) /\ todo \in Seq(Names) /\ Tail(todo) \in Seq(Names)
        /\ Len(rows) \in Nat /\ DOMAIN rows = 1..Len(rows)
    BY <1>2 DEF GetTypeOK
  <1>4. /\ rows' \in Seq(Row) /\ DOMAIN rows' = 1..(Len(rows) + 1)
        /\ \A k \in 1..Len(rows) : rows'[k] = rows[k]
        /\ rows'[Len(rows) + 1] = row
        /\ \A k \in 1..(Len(rows) + 1) : k \in 1..Len(rows) \/ k = Len(rows) + 1
    BY <1>0, <1>2, <1>3
  <1>5. GetTypeOK'
    <2>1. nextCall' \in 0..(Len(OffloadRow.calls) + 1)
      BY <1>0, OffloadCalls
    <2> QED BY <1>0, <1>3, <1>4, <2>1 DEF GetTypeOK
  <1>6. Truthful(req.kind, row, seen)
    <2>1. nextCall = Len(RowOf[req.kind].calls) + 1
      <3>1. Len(RowOf[req.kind].calls) \in Nat
        BY <1>1, RowKinds
      <3> QED BY <1>0, <1>2, <3>1
    <2> QED BY <1>1, <1>2, <2>1, RowFinished
  <1>7. Listed'
    <2>1. \A k \in 1..Len(rows) : Truthful(req.kind, rows[k], seen)
      BY <1>0, <1>3 DEF Listed, RowsTrue
    <2> QED BY <1>0, <1>4, <1>6, <2>1 DEF Listed, RowsTrue
  <1>8. Named'
    <2>1. \E s \in seen : s[1] = row.name
      BY <1>0, <1>2 DEF Witnessed
    <2>2. \A k \in 1..Len(rows) : \E s \in seen : s[1] = rows[k].name
      BY <1>0, <1>3 DEF Named
    <2> QED BY <1>0, <1>4, <2>1, <2>2 DEF Named
  <1>9. /\ DOMAIN RowNames = 1..Len(rows) /\ DOMAIN RowNames' = 1..(Len(rows) + 1)
        /\ \A k \in 1..Len(rows) : RowNames'[k] = RowNames[k]
        /\ RowNames'[Len(rows) + 1] = Head(todo)
    BY <1>2, <1>3, <1>4 DEF RowNames
  <1>10. Counted'
    <2> SUFFICES ASSUME ~skipped, NEW n \in steady
                 PROVE  Times(RowNames', n) + Times(Tail(todo), n) = Wanted(req.ids, n)
      BY <1>0 DEF Counted
    <2>1. Times(RowNames', n) = Times(RowNames, n) + (IF Head(todo) = n THEN 1 ELSE 0)
      BY <1>3, <1>9, TimesLonger
    <2>2. Times(todo, n) = Times(Tail(todo), n) + (IF Head(todo) = n THEN 1 ELSE 0)
      BY <1>2, <1>3, TimesTail
    <2>3. Len(Tail(todo)) \in Nat /\ DOMAIN Tail(todo) = 1..Len(Tail(todo))
      BY <1>3
    <2>4. Times(Tail(todo), n) \in Nat
      BY <2>3, TimesType
    <2>5. Times(RowNames, n) \in Nat
      BY <1>3, <1>9, TimesType
    <2>6. Times(RowNames, n) + Times(todo, n) = Wanted(req.ids, n)
      BY <1>0 DEF Counted
    <2> QED BY <2>1, <2>2, <2>4, <2>5, <2>6
  <1>11. Ordered'
    <2> SUFFICES ASSUME ~skipped, req.ids # <<>>
                 PROVE  InOrder(RowNames', req.ids, Tail(todo), DOMAIN links)
      BY <1>0 DEF Ordered
    <2>1. InOrder(RowNames, req.ids, todo, DOMAIN links)
      BY <1>0 DEF Ordered
    <2> QED BY <1>1, <1>2, <1>3, <1>9, <2>1, InOrderTaken
  <1>12. Walk' BY <1>0 DEF Walk, Present
  <1>13. Current' /\ Witnessed' /\ Filling' BY <1>0 DEF Current, Witnessed, Filling
  <1> QED BY <1>5, <1>7, <1>8, <1>10, <1>11, <1>12, <1>13

(* The list is complete. *)
LEMMA ReplyStep ==
    ASSUME GetInv, ReplyRows
    PROVE  GetInv'
  <1> USE DEF GetInv
  <1>0. /\ pc = "rows" /\ todo = <<>> /\ pc' = "reply" /\ links' = <<>>
        /\ UNCHANGED <<device, value, changes, req, todo, row, nextCall, rows, skipped, seen, steady>>
    BY DEF ReplyRows, kernel, history
  <1>1. GetTypeOK' BY <1>0, NoLinks DEF GetTypeOK
  <1>2. Walk' BY <1>0 DEF Walk, Present
  <1>3. Current' /\ Witnessed' /\ Filling' BY <1>0 DEF Current, Witnessed, Filling
  <1>4. Listed' /\ Named' BY <1>0 DEF Listed, RowsTrue, Named
  <1>5. RowNames' = RowNames BY <1>0 DEF RowNames
  <1>6. Counted' BY <1>0, <1>5 DEF Counted
  <1>7. Ordered'
    <2> SUFFICES ASSUME ~skipped, req.ids # <<>> PROVE InTurn(RowNames, req.ids)
      BY <1>0, <1>5 DEF Ordered
    <2>1. InOrder(RowNames, req.ids, <<>>, DOMAIN links)
      BY <1>0 DEF Ordered
    <2>2. req.ids \in Seq(Names)
      BY <1>0, IdListsAssumption DEF Walk, Requests
    <2> QED BY <2>1, <2>2, InOrderEnds
  <1> QED BY <1>1, <1>2, <1>3, <1>4, <1>6, <1>7

-----------------------------------------------------------------------------
(* Every step of a get command, of dabbad and of the kernel. *)
LEMMA GetKept == GetInv /\ [GetNext]_getVars => GetInv'
  <1> SUFFICES ASSUME GetInv, [GetNext]_getVars PROVE GetInv'
    OBVIOUS
  <1>1. CASE UNCHANGED getVars
    <2>0. UNCHANGED <<device, value, changes, pc, req, links, todo, row, nextCall, rows, skipped,
                      seen, steady>>
      BY <1>1 DEF getVars, kernel, daemon, history
    <2> USE DEF GetInv
    <2>1. GetTypeOK' /\ Walk' BY <2>0 DEF GetTypeOK, Walk, Present
    <2>2. Current' /\ Witnessed' /\ Filling' BY <2>0 DEF Current, Witnessed, Filling
    <2>3. Listed' /\ Named' BY <2>0 DEF Listed, RowsTrue, Named
    <2>4. RowNames' = RowNames BY <2>0 DEF RowNames
    <2>5. Counted' /\ Ordered' BY <2>0, <2>4 DEF Counted, Ordered
    <2> QED BY <2>1, <2>2, <2>3, <2>5
  <1>2. CASE \E n \in Names :
                \/ \E f \in Volatile : FieldChanges(n, f)
                \/ \E d \in Devs : LinkAppears(n, d)
                \/ LinkGoes(n)
                \/ \E m \in Names : LinkRenamed(m, n)
    BY <1>2, KernelSteps
  <1>3. CASE \E kind \in DOMAIN RowOf, ids \in IdLists : Type(kind, ids)
    BY <1>3, TypeStep
  <1>4. CASE Snapshot \/ RowMissing \/ RowBegins \/ RowSkipped
    BY <1>4, SnapshotStep, MissingStep, BeginsStep, SkippedStep
  <1>5. CASE RowFreed \/ DaemonEnds
    <2>1. Lost /\ pc # "idle"
      BY <1>5 DEF RowFreed, Found, DaemonEnds
    <2> QED BY <2>1, LostStep
  <1>6. CASE Call \/ RowEnds \/ ReplyRows \/ Display
    BY <1>6, CallStep, EndsStep, ReplyStep, DisplayStep
  <1> QED BY <1>1, <1>2, <1>3, <1>4, <1>5, <1>6 DEF GetNext

(* What the invariant is for. *)
LEMMA GetInvGives == GetInv => GetTypeOK /\ RowsTrue /\ RowsComplete
  <1> SUFFICES ASSUME GetInv PROVE RowsTrue /\ RowsComplete
    BY DEF GetInv
  <1> USE DEF GetInv
  <1>1. RowsTrue
    <2>1. CASE pc = "idle"
      BY <2>1 DEF Walk, RowsTrue
    <2>2. CASE pc # "idle"
      BY <2>2 DEF Listed
    <2> QED BY <2>1, <2>2
  <1>2. RowsComplete
    <2> SUFFICES ASSUME pc = "reply", ~skipped
                 PROVE  /\ \A n \in steady :
                             Times(RowNames, n) = IF req.ids = <<>> THEN 1 ELSE Times(req.ids, n)
                        /\ ToSet(RowNames) \subseteq {s[1] : s \in seen}
                        /\ req.ids # <<>> => InTurn(RowNames, req.ids)
      BY DEF RowsComplete
    <2>1. ASSUME NEW n \in steady
          PROVE  Times(RowNames, n) = IF req.ids = <<>> THEN 1 ELSE Times(req.ids, n)
      <3>1. Times(RowNames, n) + Times(<<>>, n) = Wanted(req.ids, n)
        BY DEF Counted, Walk
      <3>2. Times(<<>>, n) = 0
        BY FS_EmptySet DEF Times
      <3>3. Len(rows) \in Nat /\ DOMAIN RowNames = 1..Len(rows)
        BY DEF GetTypeOK, RowNames
      <3>4. Times(RowNames, n) \in Nat
        BY <3>3, TimesType
      <3> QED BY <3>1, <3>2, <3>4 DEF Wanted
    <2>2. ToSet(RowNames) \subseteq {s[1] : s \in seen}
      BY DEF ToSet, RowNames, Named
    <2>3. req.ids # <<>> => InTurn(RowNames, req.ids)
      BY DEF Ordered
    <2> QED BY <2>1, <2>2, <2>3
  <1> QED BY <1>1, <1>2

(***************************************************************************)
(* The inductive invariant of the get commands, for any number of names,   *)
(* devices and changes, any lists of names that users ask for, and any     *)
(* fields that change or cannot be read.                                   *)
(***************************************************************************)
THEOREM GetInvariance == GetSpec => []GetInv
  BY GetStart, GetKept, PTL DEF GetSpec

(* The variables of the get commands keep their types. *)
THEOREM GetTypeCorrect == GetSpec => []GetTypeOK
  BY GetInvariance, GetInvGives, PTL

(***************************************************************************)
(* A row that the handlers of dabbad/interface-*.c put together from the   *)
(* snapshot and from calls made later, by name, shows only what was so     *)
(* under that name at some time during the request, whatever happens to    *)
(* the interfaces in between, with the exceptions that RowsTrue names.     *)
(***************************************************************************)
THEOREM RowsAlwaysTrue == GetSpec => []RowsTrue
  BY GetInvariance, GetInvGives, PTL

(***************************************************************************)
(* Unless memory was short, the loop of the handlers over the names of the *)
(* request lists every interface that kept its name as often as it was     *)
(* asked for, no other name, and in the order of the request.              *)
(***************************************************************************)
THEOREM RowsAlwaysComplete == GetSpec => []RowsComplete
  BY GetInvariance, GetInvGives, PTL
=============================================================================
