------------------------------ MODULE Signals ------------------------------
(***************************************************************************)
(* Signal records in the target's memory (scripts/base_tas.py): a record is *)
(* a run of sigID (2 bytes), QF, type and value, up to a zero id or         *)
(* something that is no entry.  A script reads the record in transactions,  *)
(* parses it, replaces the value of one signal and writes all of it back.   *)
(***************************************************************************)
EXTENDS Integers, Sequences, FiniteSets

CONSTANTS
    Types,     \* SIGNAL_DATA_TYPE_FORMATS: type code -> [size, signed]
    \* of a target at rest (FALSE) and of one that runs (TRUE):
    Lists,     \* its records: sequences of [id, type, value]
    Tails,     \* what may follow the last entry
    Ids,       \* the signal ids the script asks for
    Values,    \* the values it writes: [raw |-> bytes] or [num |-> integer]
    Bytes,     \* the bytes the target stores as values
    Chunk      \* DAS_MAX_TRANSFER_SIZE

VARIABLES
    running,  \* TRUE: the target stores values between any two steps
    list,     \* the entries of the record
    mem,      \* the bytes of the target's variable
    data,     \* the record the script has
    pc,       \* "idle", "read" or "write"
    off,      \* offset of the next transaction
    buf,      \* the chunks read so far
    out,      \* updated_data
    sig, val, \* arguments of the last write of a signal
    result,   \* how the last call ended
    \* history:
    meant,    \* what target and script meant to be in mem
    behind,   \* positions where data is older than mem's last store
    behindBuf \* the same for buf

targetVars == <<running, list, mem, meant>>
vars == <<running, list, mem, data, pc, off, buf, out, sig, val, result, meant, behind, behindBuf>>

-----------------------------------------------------------------------------
(* The format.  Offsets count from 0; raw[o + 1] is the byte at offset o.   *)

Byte == 0..255
ValidId(id) == id > 0 /\ id < 65536
HeaderSize == 4
IdAt(raw, o) == raw[o + 1] + 256 * raw[o + 2]
TypeAt(raw, o) == raw[o + 4]
ValueEnd(raw, o) == o + HeaderSize + Types[TypeAt(raw, o)].size
ValueAt(raw, o) == SubSeq(raw, o + HeaderSize + 1, ValueEnd(raw, o))

(* The loop of both functions goes from entry to entry, as far as there are *)
(* any.                                                                     *)
IsEntry(raw, o) ==
    /\ o + HeaderSize <= Len(raw)
    /\ IdAt(raw, o) # 0
    /\ TypeAt(raw, o) \in DOMAIN Types
    /\ ValueEnd(raw, o) <= Len(raw)
Most(raw) == Len(raw) \div HeaderSize
Offsets(raw) ==
    LET at[n \in 0..Most(raw)] ==
          IF n = 0 THEN 0
          ELSE LET o == at[n - 1] IN IF IsEntry(raw, o) THEN ValueEnd(raw, o) ELSE o
    IN  at
Entries(raw) == {o \in {Offsets(raw)[n] : n \in 0..Most(raw)} : IsEntry(raw, o)}
EntriesOf(raw, id) == {o \in Entries(raw) : IdAt(raw, o) = id}

(* parse_signal_id_value_by_data: what is found later replaces what was     *)
(* found of the same id.                                                    *)
LastOf(S) == CHOOSE o \in S : \A p \in S : p <= o
Parse(raw) ==
    [id \in {IdAt(raw, o) : o \in Entries(raw)} |-> ValueAt(raw, LastOf(EntriesOf(raw, id)))]

(* write_variable_by_signal_id_value: the first entry with the id.          *)
NotFound == -1
FirstOf(S) == CHOOSE o \in S : \A p \in S : o <= p
Search(raw, id) ==
    LET S == EntriesOf(raw, id) IN IF S = {} THEN NotFound ELSE FirstOf(S)

(* struct.pack of an integer, where it fits; raw bytes of the right length. *)
IsRaw(v) == "raw" \in DOMAIN v
Fits(v, t) ==
    LET n == Types[t].size IN
    IF IsRaw(v) THEN Len(v.raw) = n
    ELSE IF Types[t].signed
      THEN v.num \in (-(256 ^ n \div 2))..(256 ^ n \div 2 - 1)
      ELSE v.num \in 0..(256 ^ n - 1)
Encode(v, t) ==
    IF IsRaw(v) THEN v.raw
    ELSE [i \in 1..Types[t].size |-> (v.num \div 256 ^ (i - 1)) % 256]

Patch(raw, o, bytes) ==
    [i \in DOMAIN raw |-> IF i > o + HeaderSize /\ i <= o + HeaderSize + Len(bytes)
                          THEN bytes[i - o - HeaderSize] ELSE raw[i]]

-----------------------------------------------------------------------------
(* A record as the target lays it out.                                      *)

EntryBytes(e) == <<e.id % 256, e.id \div 256, 3, e.type>> \o e.value
Starts(es) ==
    LET sum[k \in 0..Len(es)] ==
          IF k = 0 THEN 0 ELSE sum[k - 1] + HeaderSize + Len(es[k].value)
    IN  sum
StartOf(es, k) == Starts(es)[k - 1]
Composed(es) ==
    LET upTo[k \in 0..Len(es)] == IF k = 0 THEN <<>> ELSE upTo[k - 1] \o EntryBytes(es[k])
    IN  upTo
Compose(es) == Composed(es)[Len(es)]

ListOf(es) ==
    /\ Len(es) \in Nat /\ DOMAIN es = 1..Len(es)
    /\ \A k \in DOMAIN es :
         /\ es[k].id \in Nat /\ ValidId(es[k].id) /\ es[k].type \in DOMAIN Types
         /\ es[k].value \in Seq(Byte) /\ Len(es[k].value) = Types[es[k].type].size
SignalsAssumption ==
    /\ \A t \in DOMAIN Types : t \in Byte /\ Types[t] \in [size: Nat \ {0}, signed: BOOLEAN]
    /\ Chunk \in Nat \ {0} /\ Bytes \subseteq Byte
    /\ \A r \in BOOLEAN :
         /\ \A es \in Lists[r] : ListOf(es)
         /\ \A tail \in Tails[r] : tail \in Seq(Byte) /\ ~IsEntry(tail, 0)
         /\ \A v \in Values[r] : IF IsRaw(v) THEN v.raw \in Seq(Byte) ELSE v.num \in Int

Smaller(a, b) == IF a < b THEN a ELSE b
Changed(a, b) == {i \in DOMAIN a : a[i] # b[i]}

Init ==
    /\ running \in BOOLEAN
    /\ list \in Lists[running]
    /\ \E tail \in Tails[running] : mem = Compose(list) \o tail
    /\ data = mem
    /\ pc = "idle"
    /\ off = 0
    /\ buf = <<>>
    /\ out = <<>>
    /\ sig = 0
    /\ val = [num |-> 0]
    /\ result = "read"
    /\ meant = mem
    /\ behind = {}
    /\ behindBuf = {}

(* The target stores a byte of some signal's value.                         *)
TargetStores ==
    /\ running
    /\ \E k \in DOMAIN list, b \in Bytes :
       \E i \in (StartOf(list, k) + HeaderSize + 1)
                 ..(StartOf(list, k) + HeaderSize + Len(list[k].value)) :
         /\ mem' = [mem EXCEPT ![i] = b]
         /\ meant' = [meant EXCEPT ![i] = b]
         /\ behind' = behind \cup {i}
         /\ behindBuf' = behindBuf \cup {i}
    /\ UNCHANGED <<running, list, data, pc, off, buf, out, sig, val, result>>

\* The end of a call: its locals are gone.
Return == pc' = "idle" /\ off' = 0 /\ buf' = <<>> /\ out' = <<>> /\ behindBuf' = {}

(* read_variable_info: the whole variable.                                  *)
StartRead ==
    /\ pc = "idle"
    /\ pc' = "read"
    /\ off' = 0
    /\ buf' = <<>>
    /\ behindBuf' = {}
    /\ result' = "none"
    /\ UNCHANGED <<targetVars, data, out, sig, val, behind>>

(* One transaction of DasClient.read.                                       *)
ReadChunk ==
    /\ pc = "read" /\ off < Len(mem)
    /\ LET size == Smaller(Chunk, Len(mem) - off) IN
         /\ buf' = buf \o SubSeq(mem, off + 1, off + size)
         /\ off' = off + size
         /\ behindBuf' = behindBuf \ ((off + 1)..(off + size))
    /\ UNCHANGED <<targetVars, data, pc, out, sig, val, result, behind>>

ReadDone ==
    /\ pc = "read" /\ off = Len(mem)
    /\ data' = buf
    /\ behind' = behindBuf
    /\ result' = "read"
    /\ Return
    /\ UNCHANGED <<targetVars, sig, val>>

(* A transaction fails: DasError, and the script keeps what it had.         *)
ReadFails ==
    /\ pc = "read"
    /\ result' = "DasError"
    /\ Return
    /\ UNCHANGED <<targetVars, data, sig, val, behind>>

Refuse(error) ==
    /\ result' = error
    /\ UNCHANGED <<targetVars, data, pc, off, buf, out, behind, behindBuf>>

(* write_variable_by_signal_id_value up to the write: what does not fit, or *)
(* is not there, is refused before anything is written.                     *)
WriteSignal(s, v) ==
    LET o == Search(data, s) IN
    /\ pc = "idle"
    /\ sig' = s
    /\ val' = v
    /\ \/ ~ValidId(s) /\ Refuse("ValueError")
       \/ ValidId(s) /\ o = NotFound /\ Refuse("KeyError")
       \/ ValidId(s) /\ o # NotFound /\ ~Fits(v, TypeAt(data, o)) /\ Refuse("ValueError")
       \/ /\ ValidId(s) /\ o # NotFound
          /\ Fits(v, TypeAt(data, o))
          /\ out' = Patch(data, o, Encode(v, TypeAt(data, o)))
          /\ meant' = Patch(meant, o, Encode(v, TypeAt(data, o)))
          /\ off' = 0
          /\ pc' = "write"
          /\ result' = "none"
          /\ UNCHANGED <<running, list, mem, data, buf, behind, behindBuf>>

\* Faulty: the offset of the chunk is not added to the address.
StoredAtStart(size) ==
    [i \in DOMAIN mem |-> IF i <= size THEN out[off + i] ELSE mem[i]]

(* What one transaction of DasClient.write leaves.                          *)
Stored(size) ==
    [i \in DOMAIN mem |-> IF i > off /\ i <= off + size THEN out[i] ELSE mem[i]]

WriteChunk ==
    /\ pc = "write" /\ off < Len(out)
    /\ LET size == Smaller(Chunk, Len(out) - off) IN
         /\ mem' = Stored(size)
         /\ off' = off + size
    /\ UNCHANGED <<running, list, data, pc, buf, out, sig, val, result, meant, behind, behindBuf>>

(* A transaction that fails may have stored its bytes; the chunks before it *)
(* stay.                                                                    *)
WriteFails ==
    /\ pc = "write" /\ off < Len(out)
    /\ mem' \in {mem, Stored(Smaller(Chunk, Len(out) - off))}
    /\ meant' = mem'
    /\ behind' = behind \cup Changed(out, data)
    /\ result' = "DasError"
    /\ Return
    /\ UNCHANGED <<running, list, data, sig, val>>

(* The call returns the record it wrote: the script goes on with that one,  *)
(* or with the one it had.                                                  *)
WriteDone ==
    /\ pc = "write" /\ off = Len(out)
    /\ \/ data' = out /\ UNCHANGED behind
       \/ UNCHANGED data /\ behind' = behind \cup Changed(out, data)
    /\ meant' = mem
    /\ result' = "written"
    /\ Return
    /\ UNCHANGED <<running, list, mem, sig, val>>

InCall == ReadChunk \/ ReadDone \/ ReadFails \/ WriteChunk \/ WriteFails \/ WriteDone

Next ==
    \/ TargetStores
    \/ StartRead
    \/ \E s \in Ids[running], v \in Values[running] : WriteSignal(s, v)
    \/ InCall

Spec == Init /\ [][Next]_vars

-----------------------------------------------------------------------------
IdsOf(es) == {es[k].id : k \in DOMAIN es}
Positions(es, id) == {k \in DOMAIN es : es[k].id = id}
ValueIn(raw, es, k) ==
    SubSeq(raw, StartOf(es, k) + HeaderSize + 1,
                StartOf(es, k) + HeaderSize + Len(es[k].value))

TypeOK ==
    /\ mem \in Seq(Byte) /\ data \in Seq(Byte) /\ meant \in Seq(Byte)
    /\ Len(data) = Len(mem) /\ Len(meant) = Len(mem)
    /\ pc \in {"idle", "read", "write"}
    /\ off \in 0..Len(mem)
    /\ pc = "read" => Len(buf) = off
    /\ pc = "write" => Len(out) = Len(mem)
    /\ result \in {"none", "read", "written", "DasError", "KeyError", "ValueError"}

(* Whatever is read, written, written in part or stored by the target at    *)
(* any moment, the variable still parses to every signal of the record, the *)
(* last of those with one id, at its place (base_tas.py 1140-1164, 1219).   *)
ParsesToRecord ==
    LET parsed == Parse(mem) IN
    /\ DOMAIN parsed = IdsOf(list)
    /\ \A id \in IdsOf(list) :
         \E k \in Positions(list, id) :
           /\ \A j \in Positions(list, id) : j <= k
           /\ parsed[id] = ValueIn(mem, list, k)

(* A signal is refused as unknown only if the record does not have it, and  *)
(* is written only if it does (base_tas.py 1189-1231).                      *)
RefusesUnknown ==
    /\ result = "KeyError" => sig \notin IdsOf(list)
    /\ result = "written" => sig \in IdsOf(list)

(* On a target at rest, after a write that returned the record shows the    *)
(* value asked for, if the id is in it once (base_tas.py 1202-1227).        *)
WriteShows ==
    (result = "written" /\ ~running /\ Cardinality(Positions(list, sig)) = 1) =>
        \A k \in Positions(list, sig) : ValueIn(mem, list, k) = Encode(val, list[k].type)

(* The read-modify-write undoes only stores that came after the script's    *)
(* read of that byte, or a write of its own whose result it ignored; any    *)
(* other byte of the record is what it was meant to be                      *)
(* (base_tas.py 1190, 1226).                                                *)
LosesOnlyTheUnseen ==
    (pc = "write" /\ off = Len(out)) => Changed(mem, meant) \subseteq behind

(* "修改指定 sigID 的值" (base_tas.py 1176: changes the value of the given     *)
(* sigID): after the call, parse_signal_id_value_by finds that value.       *)
WriteChangesSignal ==
    (result = "written" /\ ~running) =>
        Parse(mem)[sig] = Encode(val, list[CHOOSE k \in Positions(list, sig) : TRUE].type)
=============================================================================
