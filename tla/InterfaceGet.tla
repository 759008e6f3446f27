---------------------------- MODULE InterfaceGet ----------------------------
(***************************************************************************)
(* The get commands of interfaces: dabba sends the names its user gave     *)
(* (dabba/interface.c and interface-*.c), dabbad takes a snapshot of the   *)
(* links, walks it, asks the driver of each one for the rest by its name   *)
(* (dabbad/interface-*.c, libdabba/interface.c), and dabba prints the      *)
(* list.  Meanwhile interfaces change, are renamed, unplugged and plugged, *)
(* and dabbad may end.                                                     *)
(***************************************************************************)
EXTENDS Naturals, Sequences, FiniteSets, SequencesExt

CONSTANTS
    Names,       \* interface names
    Devs,        \* network devices
    None,        \* no device, no request, no row
    IdLists,     \* the names users ask for, <<>> for all interfaces
    Faults,      \* the rare failures of the environment this instance allows
    Volatile,    \* the fields of the kernel that change
    Fallible,    \* the fields whose driver call may fail
    MaxChanges   \* bound on the changes of interfaces in a behaviour

ASSUME NamesAssumption == IsFiniteSet(Names)
ASSUME IdListsAssumption == IdLists \subseteq Seq(Names)
ASSUME BoundAssumption == MaxChanges \in Nat

VARIABLES
    device,    \* the device each name stands for, or None
    value,     \* what the kernel knows of each device: 0 or 1 for each field
    changes,   \* the changes made so far
    pc,        \* where the request is
    req,       \* the request
    links,     \* the snapshot: of each link what it holds
    todo,      \* the names that are still to be looked for in it
    row,       \* the entry being filled in
    nextCall,  \* the next driver call for it
    rows,      \* the list so far
    skipped,   \* (history) memory was short
    seen,      \* (history) the values each name showed during the request
    steady     \* (history) the names that were in use all the time

kernel == <<device, value, changes>>
daemon == <<links, todo, row, nextCall, rows, skipped>>
history == <<seen, steady>>
getVars == <<kernel, pc, req, daemon, history>>

-----------------------------------------------------------------------------
(* What a row of each kind holds: the fields taken from the snapshot, the  *)
(* driver calls in their order with the field each one reads, and those    *)
(* that are shown but never read.                                          *)

StatusRow == [cached |-> {"flags"}, calls |-> <<"link">>, unread |-> {}]
SettingsRow == [cached |-> {"mtu_qlen"}, calls |-> <<"settings">>, unread |-> {"port"}]
PauseRow == [cached |-> {}, calls |-> <<"pause">>, unread |-> {}]
CoalesceRow == [cached |-> {}, calls |-> <<"coalesce">>, unread |-> {}]
DriverRow == [cached |-> {}, calls |-> <<"driver">>, unread |-> {}]
StatisticsRow == [cached |-> {"counters"}, calls |-> <<>>, unread |-> {}]
CapabilitiesRow == [cached |-> {}, calls |-> <<"capabilities">>, unread |-> {}]
OffloadRow ==
    [cached |-> {}, unread |-> {"rxhash"},
     calls |-> <<"rx_csum", "tx_csum", "sg", "tso", "ufo", "gso", "gro">>]

RowOf ==
    [status |-> StatusRow, settings |-> SettingsRow, pause |-> PauseRow,
     coalesce |-> CoalesceRow, driver |-> DriverRow, statistics |-> StatisticsRow,
     capabilities |-> CapabilitiesRow, offload |-> OffloadRow]

Read(kind) == RowOf[kind].cached \cup ToSet(RowOf[kind].calls)
Shown(kind) == Read(kind) \cup RowOf[kind].unread
Fields == UNION {Shown(kind) : kind \in DOMAIN RowOf}

Present == {n \in Names : device[n] # None}

(* What can be read of the names in use, for a request of that kind. *)
Readable(kind, d, v) ==
    {<<n, f, v[d[n]][f]>> : n \in {m \in Names : d[m] # None}, f \in Read(kind)}

Row == [name : Names, code : {"OK", "error"}, val : UNION {[Shown(k) -> 0..1] : k \in DOMAIN RowOf}]
Link == UNION {[RowOf[k].cached -> 0..1] : k \in DOMAIN RowOf}

GetTypeOK ==
    /\ device \in [Names -> Devs \cup {None}]
    /\ value \in [Devs -> [Fields -> 0..1]]
    /\ changes \in 0..MaxChanges
    /\ pc \in {"idle", "cache", "rows", "calls", "reply", "lost"}
    /\ req \in [kind : DOMAIN RowOf, ids : IdLists] \cup {None}
    /\ links \in UNION {[S -> Link] : S \in SUBSET Names}
    /\ todo \in Seq(Names)
    /\ row \in Row \cup {None}
    /\ nextCall \in 0..(Len(OffloadRow.calls) + 1)
    /\ rows \in Seq(Row)
    /\ skipped \in BOOLEAN
    /\ seen \in SUBSET (Names \X Fields \X (0..1))
    /\ steady \in SUBSET Names

GetInit ==
    /\ device \in {d \in [Names -> Devs \cup {None}] :
                   \A m, n \in Names : d[m] = d[n] /\ d[m] # None => m = n}
    /\ value = [d \in Devs |-> [f \in Fields |-> 1]]
    /\ changes = 0
    /\ pc = "idle"
    /\ req = None
    /\ links = <<>>
    /\ todo = <<>>
    /\ row = None
    /\ nextCall = 0
    /\ rows = <<>>
    /\ skipped = FALSE
    /\ seen = {}
    /\ steady = {}

-----------------------------------------------------------------------------
(* The kernel *)

Observed ==
    /\ seen' = IF pc = "idle" THEN {} ELSE seen \cup Readable(req.kind, device', value')
    /\ steady' = {n \in steady : device'[n] = device[n]}

Changed ==
    /\ changes < MaxChanges
    /\ changes' = changes + 1
    /\ Observed
    /\ UNCHANGED <<pc, req, daemon>>

FieldChanges(n, f) ==
    /\ device[n] # None
    /\ value' = [value EXCEPT ![device[n]][f] = 1 - @]
    /\ UNCHANGED device
    /\ Changed

LinkAppears(n, d) ==
    /\ device[n] = None
    /\ \A m \in Names : device[m] # d
    /\ device' = [device EXCEPT ![n] = d]
    /\ UNCHANGED value
    /\ Changed

LinkGoes(n) ==
    /\ device[n] # None
    /\ device' = [device EXCEPT ![n] = None]
    /\ UNCHANGED value
    /\ Changed

LinkRenamed(m, n) ==
    /\ device[m] # None
    /\ device[n] = None
    /\ device' = [device EXCEPT ![m] = None, ![n] = device[m]]
    /\ UNCHANGED value
    /\ Changed

-----------------------------------------------------------------------------
(* dabba sends the request. *)

Type(kind, ids) ==
    /\ pc = "idle"
    /\ pc' = "cache"
    /\ req' = [kind |-> kind, ids |-> ids]
    /\ seen' = Readable(kind, device, value)
    /\ steady' = Present
    /\ UNCHANGED <<kernel, daemon>>

-----------------------------------------------------------------------------
(* dabbad *)

(* link_cache_alloc(): what the kernel holds of all links. *)
Cached(fields) == [n \in Present |-> [f \in fields |-> value[device[n]][f]]]

(* Mutant: the names of the request are gone through from the second on. *)
AskedOffByOne(ids, table) == IF ids = <<>> THEN table ELSE Tail(ids)

(* The names a request goes through: its own in turn, or the whole table. *)
Asked(ids, table) == IF ids = <<>> THEN table ELSE ids

(* The kernel's table of links is in no particular order. *)
Snapshot ==
    /\ pc = "cache"
    /\ \/ /\ links' = Cached(RowOf[req.kind].cached)
          /\ \E table \in SetToSeqs(Present) : todo' = Asked(req.ids, table)
          /\ pc' = "rows"
          /\ UNCHANGED skipped
       \/ /\ "memory" \in Faults
          /\ skipped' = TRUE
          /\ pc' = "reply"
          /\ UNCHANGED <<links, todo>>
    /\ UNCHANGED <<kernel, req, row, nextCall, rows, history>>

(* A link of the next name is in the snapshot. *)
Found ==
    /\ pc = "rows"
    /\ todo # <<>>
    /\ Head(todo) \in DOMAIN links

(* A name that is not in the snapshot has no row. *)
RowMissing ==
    /\ pc = "rows"
    /\ todo # <<>>
    /\ Head(todo) \notin DOMAIN links
    /\ todo' = Tail(todo)
    /\ UNCHANGED <<kernel, pc, req, links, row, nextCall, rows, skipped, history>>

(* An entry holds 0 where nothing has been read into it. *)
RowBegins ==
    /\ Found
    /\ row' = [name |-> Head(todo), code |-> "OK",
               val |-> [f \in Shown(req.kind) |->
                           IF f \in RowOf[req.kind].cached THEN links[Head(todo)][f] ELSE 0]]
    /\ nextCall' = 1
    /\ pc' = "calls"
    /\ UNCHANGED <<kernel, req, links, todo, rows, skipped, history>>

(* Without memory for an entry the link is left out. *)
RowSkipped ==
    /\ Found
    /\ "memory" \in Faults
    /\ todo' = Tail(todo)
    /\ skipped' = TRUE
    /\ UNCHANGED <<kernel, pc, req, links, row, nextCall, rows, history>>

Lost ==
    /\ pc' = "lost"
    /\ links' = <<>>
    /\ todo' = <<>>
    /\ row' = None
    /\ nextCall' = 0
    /\ rows' = <<>>
    /\ UNCHANGED <<kernel, req, skipped, history>>

(***************************************************************************)
(* __interface_capabilities_get() frees its entry when the second half of  *)
(* it finds no memory, and goes on to use it: dabbad dies.                 *)
(***************************************************************************)
RowFreed ==
    /\ Found
    /\ req.kind = "capabilities"
    /\ "memory" \in Faults
    /\ Lost

(* Mutant: the code of the first call is kept. *)
CallAnswersFirst(v, c) == [row EXCEPT !.val[RowOf[req.kind].calls[nextCall]] = v,
                                      !.code = IF nextCall = 1 THEN c ELSE @]

(* The code of a call replaces the code of the one before. *)
CallAnswers(v, c) == [row EXCEPT !.val[RowOf[req.kind].calls[nextCall]] = v, !.code = c]

(* A driver call goes by the name; a failed one leaves 0. *)
Call ==
    /\ pc = "calls"
    /\ nextCall <= Len(RowOf[req.kind].calls)
    /\ LET field == RowOf[req.kind].calls[nextCall]
       IN  \/ /\ device[row.name] # None
              /\ row' = CallAnswers(value[device[row.name]][field], "OK")
           \/ /\ device[row.name] = None \/ field \in Fallible
              /\ row' = CallAnswers(0, "error")
    /\ nextCall' = nextCall + 1
    /\ UNCHANGED <<kernel, pc, req, links, todo, rows, skipped, history>>

RowEnds ==
    /\ pc = "calls"
    /\ nextCall > Len(RowOf[req.kind].calls)
    /\ rows' = Append(rows, row)
    /\ row' = None
    /\ nextCall' = 0
    /\ todo' = Tail(todo)
    /\ pc' = "rows"
    /\ UNCHANGED <<kernel, req, links, skipped, history>>

(* Mutant: an empty list is not answered. *)
ReplyIfAny ==
    /\ pc = "rows"
    /\ todo = <<>>
    /\ rows # <<>>
    /\ pc' = "reply"
    /\ links' = <<>>
    /\ UNCHANGED <<kernel, req, todo, row, nextCall, rows, skipped, history>>

ReplyRows ==
    /\ pc = "rows"
    /\ todo = <<>>
    /\ pc' = "reply"
    /\ links' = <<>>
    /\ UNCHANGED <<kernel, req, todo, row, nextCall, rows, skipped, history>>

DaemonEnds ==
    /\ pc \notin {"idle", "lost"}
    /\ Lost

(* The list printers: no list is printed as an empty one. *)
Display ==
    /\ pc \in {"reply", "lost"}
    /\ pc' = "idle"
    /\ req' = None
    /\ rows' = <<>>
    /\ skipped' = FALSE
    /\ seen' = {}
    /\ steady' = {}
    /\ UNCHANGED <<kernel, links, todo, row, nextCall>>

GetNext ==
    \/ \E n \in Names :
          \/ \E f \in Volatile : FieldChanges(n, f)
          \/ \E d \in Devs : LinkAppears(n, d)
          \/ LinkGoes(n)
          \/ \E m \in Names : LinkRenamed(m, n)
    \/ \E kind \in DOMAIN RowOf, ids \in IdLists : Type(kind, ids)
    \/ Snapshot
    \/ RowMissing
    \/ RowBegins
    \/ RowSkipped
    \/ RowFreed
    \/ Call
    \/ RowEnds
    \/ ReplyRows
    \/ DaemonEnds
    \/ Display

GetSpec == GetInit /\ [][GetNext]_getVars

(* A handler runs to its end once it has begun, and so does a closure. *)
GetFairSpec ==
    /\ GetSpec
    /\ WF_getVars(Snapshot)
    /\ WF_getVars(RowMissing)
    /\ WF_getVars(RowBegins)
    /\ WF_getVars(Call)
    /\ WF_getVars(RowEnds)
    /\ WF_getVars(ReplyRows)
    /\ WF_getVars(Display)

-----------------------------------------------------------------------------
(* Properties *)

(***************************************************************************)
(* A row tells the truth although it is put together from a snapshot and   *)
(* calls made later, by name: with code 0, every field it has read had     *)
(* that value under that name at some time during the request, and with    *)
(* an error at least those of the snapshot.  The code of an offload row is *)
(* that of its last call, so that a feature may be shown as off, with code *)
(* 0, because it could not be read.                                        *)
(***************************************************************************)
Covered(kind) ==
    RowOf[kind].cached \cup (IF RowOf[kind].calls = <<>> THEN {} ELSE {Last(RowOf[kind].calls)})
Truthful(kind, r, shown) ==
    \A f \in Read(kind) :
        \/ <<r.name, f, r.val[f]>> \in shown
        \/ f \notin RowOf[kind].cached /\ r.code = "error" /\ r.val[f] = 0
        \/ f \notin Covered(kind) /\ r.val[f] = 0
RowsTrue == \A k \in DOMAIN rows : Truthful(req.kind, rows[k], seen)

(***************************************************************************)
(* Unless memory was short, an interface that kept its name throughout is  *)
(* listed as often as it was asked for, once if all were; one that never   *)
(* had that name is not; and the rows are those of some of the names asked *)
(* for, every time and in the order in which these were given.             *)
(***************************************************************************)
RowNames == [k \in DOMAIN rows |-> rows[k].name]
Times(s, n) == Cardinality({k \in DOMAIN s : s[k] = n})
InTurn(names, ids) ==
    \E at \in [DOMAIN names -> DOMAIN ids] :
        /\ \A k, l \in DOMAIN names : k < l => at[k] < at[l]
        /\ \A k \in DOMAIN names : names[k] = ids[at[k]]
        /\ \A j \in DOMAIN ids : ids[j] \in ToSet(names) => \E k \in DOMAIN names : at[k] = j
RowsComplete ==
    pc = "reply" /\ ~skipped =>
        /\ \A n \in steady :
              Times(RowNames, n) = IF req.ids = <<>> THEN 1 ELSE Times(req.ids, n)
        /\ ToSet(RowNames) \subseteq {s[1] : s \in seen}
        /\ req.ids # <<>> => InTurn(RowNames, req.ids)

(***************************************************************************)
(* Every get ends, whatever happens to the interfaces on its list.         *)
(***************************************************************************)
GetEnds == pc # "idle" ~> pc = "idle"
=============================================================================
