---------------------------- MODULE ArioArchive ----------------------------
(***************************************************************************)
(* ario.hpp: one ario object that loads ar archives, takes new members and  *)
(* symbols, and saves them.                                                 *)
(*                                                                         *)
(* A file is its magic and a sequence of entries, each with the 60-byte     *)
(* header and its content, padded to an even place.  Positions, sizes and   *)
(* the places in the long name directory are the real numbers; names,       *)
(* symbols and contents are values with a length.                           *)
(***************************************************************************)
EXTENDS Integers, Sequences, FiniteSets, Functions

CONSTANTS
    NameLength,   \* member name -> its length
    SymbolLength, \* symbol name -> its length
    Size,         \* content -> its size
    Files,        \* the archive files
    Given,        \* file -> what it holds at first, or Absent
    Absent, Garbage, NoName,
    Targets,      \* the files save() is called with
    Overwrite,    \* TRUE: also the file the members are read from
    MaxMembers,   \* bound: members, and long names, of the object
    MaxReloads    \* bound: calls of load() on an object already in use

Names == DOMAIN NameLength
Symbols == DOMAIN SymbolLength
Contents == DOMAIN Size

VARIABLES
    disk,     \* file -> archive
    members,  \* members_: [name, short, size, pos, data, new, cut]
    symtab,   \* symbol_table: symbol -> number
    dir,      \* string_table: the long names, in order
    stream,   \* pstream: [file, intact, failed]
    loaded,   \* "no", "ok", "failed": the last load()
    reloads,  \* how often load() was called on an object already in use (observation)
    owner,    \* symbol -> the member it was said to belong to (observation)
    saved     \* file -> what the object held when it was saved there, and whether all
              \* of it could still be read (observation)

vars == <<disk, members, symtab, dir, stream, loaded, reloads, owner, saved>>

HeaderSize == 60
MagicSize == 8
NameField == 16
NoMap == [s \in {} |-> 0]
NoInput == [file |-> Absent, intact |-> FALSE, failed |-> FALSE]
NotSaved ==
    [done |-> FALSE, members |-> <<>>, readable |-> FALSE, known |-> FALSE, symbols |-> NoMap]

Even(n) == n + (n % 2)

Short(n) == [long |-> FALSE, name |-> n, at |-> 0]
Long(at) == [long |-> TRUE, name |-> NoName, at |-> at]
Entry(kind, short, size, data, table, names) ==
    [kind |-> kind, short |-> short, size |-> size, data |-> data,
     table |-> table, names |-> names, bad |-> FALSE, cut |-> FALSE]

-----------------------------------------------------------------------------
\* The sums of the first i numbers.
Sums(q) == LET s[i \in 0..Len(q)] == IF i = 0 THEN 0 ELSE s[i - 1] + q[i] IN s

(* The long name directory: where each name, with "/\n" behind it, ends.    *)
(* NoName stands for the text of data() where the directory was cut.        *)
Width(n) == IF n = NoName THEN 26 ELSE NameLength[n] + 2
Ends(d) == Sums([i \in DOMAIN d |-> Width(d[i])])
DirSize(d) == Ends(d)[Len(d)]

(* convert_name: the name that starts at the place, none outside.           *)
NameAt(d, at) ==
    IF \E i \in DOMAIN d : Ends(d)[i - 1] = at
      THEN d[CHOOSE i \in DOMAIN d : Ends(d)[i - 1] = at] ELSE NoName

(* Where each entry, or each member, starts.                                *)
Positions(entries, start) ==
    LET before == Sums([i \in DOMAIN entries |-> HeaderSize + Even(entries[i].size)])
    IN  [i \in 1..(Len(entries) + 1) |-> start + before[i - 1]]

-----------------------------------------------------------------------------
(* load_members: st is [ok, failed, members, sym, dir] while the entries are *)
(* read; failed: the stream is left with failbit set.                       *)

\* load_symbol_table: a later entry of one name wins.
AddTable(sym, table) ==
    LET of(s) == {i \in DOMAIN table : table[i].symbol = s}
        last(s) == CHOOSE i \in of(s) : \A j \in of(s) : j <= i
    IN  [s \in DOMAIN sym \cup {table[i].symbol : i \in DOMAIN table} |->
           IF of(s) # {} THEN table[last(s)].at ELSE sym[s]]

ReadMember(st, e, pos) ==
    LET name == IF e.short.long THEN NameAt(st.dir, e.short.at) ELSE e.short.name IN
    IF name = NoName THEN [st EXCEPT !.ok = FALSE]
    ELSE [st EXCEPT !.members = Append(@,
            [name |-> name, short |-> e.short, size |-> e.size, pos |-> pos,
             data |-> e.data, new |-> FALSE, cut |-> e.cut])]

\* A header, or a symbol table, that is not all there ends the load.
Torn(e) == e.kind = "part" \/ (e.kind = "symbols" /\ e.cut /\ ~e.bad)

ReadEntry(st, e, pos) ==
    CASE ~st.ok -> st
      [] st.ok /\ Torn(e) -> [st EXCEPT !.ok = FALSE, !.failed = TRUE]
      [] st.ok /\ ~Torn(e) /\ e.bad -> [st EXCEPT !.ok = FALSE]
      [] st.ok /\ ~Torn(e) /\ ~e.bad /\ e.kind = "symbols" -> [st EXCEPT !.sym = AddTable(@, e.table)]
      [] st.ok /\ ~e.bad /\ e.kind = "names" -> [st EXCEPT !.dir = IF e.cut THEN <<NoName>> ELSE e.names]
      [] st.ok /\ ~e.bad /\ e.kind = "member" -> ReadMember(st, e, pos)

MemberAt(ms, places) == CHOOSE i \in DOMAIN ms : ms[i].pos \in places

\* The index of the member at a location, 0 where there is none.
IndexOf(ms, at) == IF \E i \in DOMAIN ms : ms[i].pos = at THEN MemberAt(ms, {at}) - 1 ELSE 0

ReadAll(file, sym, names) ==
    LET pos == Positions(file.entries, MagicSize)
        st[i \in 0..Len(file.entries)] ==
          IF i = 0 THEN [ok |-> file.magic, failed |-> FALSE, members |-> <<>>, sym |-> sym, dir |-> names]
                   ELSE ReadEntry(st[i - 1], file.entries[i], pos[i])
        end == st[Len(file.entries)]
    IN  IF end.ok
          THEN [end EXCEPT !.sym = [s \in DOMAIN end.sym |-> IndexOf(end.members, end.sym[s])]]
          ELSE end

(* What the file itself says of its symbols: symbol -> member.              *)
Locations(file) ==
    UNION {Range(file.entries[i].table) :
             i \in {i \in DOMAIN file.entries : file.entries[i].kind = "symbols"}}

Told(file) ==
    LET ms == ReadAll(file, NoMap, <<>>).members
        at(s) == {ms[i].pos : i \in DOMAIN ms} \cap
                   {l.at : l \in {l \in Locations(file) : l.symbol = s}}
    IN  [s \in {s \in Symbols : at(s) # {}} |-> MemberAt(ms, at(s))]

-----------------------------------------------------------------------------
(* An archive as ar writes it: entries of the four kinds, the long names    *)
(* before the members, no member cut short.  Of the others the last may be, *)
(* where the file ends.                                                     *)
EntryForms ==
    [kind : {"symbols", "names", "member", "part"},
     short : [long : BOOLEAN, name : Names \cup {NoName}, at : Nat],
     size : Nat, data : Contents \cup {Garbage},
     table : Seq([symbol : Symbols, at : Nat]), names : Seq(Names \cup {NoName}),
     bad : BOOLEAN, cut : BOOLEAN]

WellFormed(file) ==
    /\ file.magic \in BOOLEAN /\ file.entries \in Seq(EntryForms)
    /\ \A i \in DOMAIN file.entries : file.entries[i].kind = "member" =>
         /\ ~file.entries[i].cut
         /\ \A j \in DOMAIN file.entries : file.entries[j].kind = "names" => j < i

(* One that can be read: no two members of a name, each symbol at one place, *)
(* where a member is.                                                       *)
Orderly(file) ==
    LET ms == ReadAll(file, NoMap, <<>>).members
    IN  ReadAll(file, NoMap, <<>>).ok =>
          /\ \A i, j \in DOMAIN ms : ms[i].name = ms[j].name => i = j
          /\ \A l \in Locations(file) : \E i \in DOMAIN ms : ms[i].pos = l.at
          /\ \A l, k \in Locations(file) : l.symbol = k.symbol => l.at = k.at

ArioAssumption ==
    /\ Files = DOMAIN Given
    /\ Garbage \notin Contents /\ NoName \notin Names
    /\ NameLength \in [Names -> Nat] /\ SymbolLength \in [Symbols -> Nat]
    /\ Size \in [Contents -> Nat] /\ IsFiniteSet(Symbols)
    /\ \A f \in Files : Given[f] # Absent => WellFormed(Given[f]) /\ Orderly(Given[f])
    /\ Targets \subseteq Files
    /\ Overwrite \in BOOLEAN /\ MaxMembers \in Nat /\ MaxReloads \in Nat

-----------------------------------------------------------------------------
Init ==
    /\ disk = Given
    /\ members = <<>>
    /\ symtab = NoMap
    /\ dir = <<>>
    /\ stream = NoInput
    /\ loaded = "no" /\ reloads = 0
    /\ owner = NoMap
    /\ saved = [f \in Files |-> NotSaved]

Used == loaded # "no" \/ members # <<>> \/ symtab # NoMap

\* The symbols are those of one archive that could be read, and those added.
Known == loaded # "failed" /\ reloads = 0

(* load(): a new stream and no members; the symbol table and the long names *)
(* are kept from before.                                                    *)
Load(f) ==
    LET r == ReadAll(disk[f], symtab, dir) IN
    /\ disk[f] # Absent
    /\ Used => reloads < MaxReloads
    /\ reloads' = IF Used THEN reloads + 1 ELSE reloads
    /\ stream' = [file |-> f, intact |-> TRUE, failed |-> r.failed]
    /\ members' = r.members
    /\ symtab' = r.sym
    /\ dir' = r.dir
    /\ loaded' = IF r.ok THEN "ok" ELSE "failed"
    /\ owner' = IF r.ok THEN Told(disk[f]) ELSE NoMap
    /\ UNCHANGED <<disk, saved>>

\* Faulty: the place of the name is taken after it was added.
AddMemberLate(n, c) ==
    /\ Len(members) < MaxMembers /\ Len(dir) < MaxMembers
    /\ \A i \in DOMAIN members : members[i].name # n
    /\ dir' = IF NameLength[n] < NameField THEN dir ELSE Append(dir, n)
    /\ members' = Append(members,
         [name |-> n, size |-> Size[c], pos |-> 0, data |-> c, new |-> TRUE, cut |-> FALSE,
          short |-> IF NameLength[n] < NameField THEN Short(n) ELSE Long(DirSize(dir'))])
    /\ UNCHANGED <<disk, symtab, stream, loaded, reloads, owner, saved>>

(* add_member() of a new name; a known name is refused and changes nothing. *)
AddMember(n, c) ==
    /\ Len(members) < MaxMembers /\ Len(dir) < MaxMembers
    /\ \A i \in DOMAIN members : members[i].name # n
    /\ dir' = IF NameLength[n] < NameField THEN dir ELSE Append(dir, n)
    /\ members' = Append(members,
         [name |-> n, size |-> Size[c], pos |-> 0, data |-> c, new |-> TRUE, cut |-> FALSE,
          short |-> IF NameLength[n] < NameField THEN Short(n) ELSE Long(DirSize(dir))])
    /\ UNCHANGED <<disk, symtab, stream, loaded, reloads, owner, saved>>

(* add_symbols_for_member() of one symbol: the first member of that name.   *)
AddSymbol(i, s) ==
    LET first == CHOOSE j \in DOMAIN members :
          /\ members[j].name = members[i].name
          /\ \A k \in 1..(j - 1) : members[k].name # members[i].name
        with(f, v) == [x \in DOMAIN f \cup {s} |-> IF x = s THEN v ELSE f[x]]
    IN
    /\ symtab' = with(symtab, first - 1)
    /\ owner' = with(owner, i)
    /\ UNCHANGED <<disk, members, dir, stream, loaded, reloads, saved>>

(* find_symbol(): changes nothing; the answer is a place in members_.       *)
FindSymbol(s) == symtab[s] + 1

(* get_symbols_for_member(): those of the first member of that name.         *)
SymbolsFor(i) ==
    LET first == CHOOSE j \in DOMAIN members :
          /\ members[j].name = members[i].name
          /\ \A k \in 1..(j - 1) : members[k].name # members[i].name
    IN  {s \in DOMAIN symtab : symtab[s] = first - 1}

(* Member::data(): a read that fails leaves the stream failed for all.      *)
Reads(m, str) == m.new \/ (str.intact /\ ~str.failed /\ ~m.cut)
DataOf(m, str) == IF Reads(m, str) THEN m.data ELSE Garbage

\* The stream after the first i members were read.
After(i, str) ==
    IF \A j \in 1..i : Reads(members[j], str) THEN str ELSE [str EXCEPT !.failed = TRUE]

ReadData(i) ==
    /\ stream' = IF Reads(members[i], stream) THEN stream ELSE [stream EXCEPT !.failed = TRUE]
    /\ UNCHANGED <<disk, members, symtab, dir, loaded, reloads, owner, saved>>

-----------------------------------------------------------------------------
(* save_symbol_table: each symbol once, padded to an even end; the members  *)
(* start after it and after a long name directory that is counted also      *)
(* where none is written.                                                   *)
Order == CHOOSE q \in [1..Cardinality(DOMAIN symtab) -> DOMAIN symtab] : IsInjective(q)

TableSize ==
    LET n == Cardinality(DOMAIN symtab) IN
    Even(HeaderSize + 4 + 4 * n + Sums([i \in 1..n |-> SymbolLength[Order[i]] + 1])[n])

SymbolEntry ==
    LET start == MagicSize + TableSize + HeaderSize + Even(DirSize(dir)) IN
    Entry("symbols", Short(NoName), TableSize - HeaderSize, Garbage,
          [i \in DOMAIN Order |-> [symbol |-> Order[i],
             at |-> Positions(members, start)[symtab[Order[i]] + 1]]], <<>>)

NamesEntry == Entry("names", Short(NoName), DirSize(dir), Garbage, <<>>, dir)

(* save(): each content as data() gives it, a failed read's text too.  The   *)
(* file is opened first, which cuts it, also where the members' own stream  *)
(* reads from it.  The object stays as it is.                               *)
Save(f) ==
    LET opened == [stream EXCEPT !.intact = @ /\ stream.file # f]
        body == [i \in DOMAIN members |->
                   Entry("member", members[i].short, members[i].size,
                         DataOf(members[i], After(i - 1, opened)), <<>>, <<>>)]
    IN
    /\ \A s \in DOMAIN symtab : symtab[s] < Len(members)
    /\ f = stream.file => Overwrite
    /\ disk' = [disk EXCEPT ![f] = [magic |-> TRUE,
         entries |-> (IF symtab # NoMap THEN <<SymbolEntry>> ELSE <<>>)
                     \o (IF dir # <<>> THEN <<NamesEntry>> ELSE <<>>) \o body]]
    /\ stream' = After(Len(members), opened)
    /\ saved' = [saved EXCEPT ![f] =
         [done |-> TRUE,
          members |-> [i \in DOMAIN members |-> <<members[i].name, members[i].data>>],
          readable |-> \A i \in DOMAIN members : Reads(members[i], opened),
          known |-> Known, symbols |-> owner]]
    /\ UNCHANGED <<members, symtab, dir, loaded, reloads, owner>>

Next ==
    \/ \E f \in Files : Load(f)
    \/ \E n \in Names, c \in Contents : AddMember(n, c)
    \/ \E i \in DOMAIN members, s \in Symbols : AddSymbol(i, s)
    \/ \E i \in DOMAIN members : ReadData(i)
    \/ \E f \in Targets : Save(f)

Spec == Init /\ [][Next]_vars

-----------------------------------------------------------------------------
TypeOK ==
    /\ \A i \in DOMAIN members :
         /\ members[i].name \in Names
         /\ members[i].size \in Nat
         /\ members[i].new \in BOOLEAN
    /\ DOMAIN symtab \subseteq Symbols
    /\ \A i \in DOMAIN dir : dir[i] \in Names \cup {NoName}
    /\ loaded \in {"no", "ok", "failed"}
    /\ stream.failed \in BOOLEAN

(* "If the symbol is found, out_member will point to the corresponding      *)
(* member" (362): whatever was loaded first and added since, the table      *)
(* names exactly the symbols of the archive and find_symbol() their         *)
(* members; and back.                                                       *)
FoundIsOwner ==
    Known =>
        /\ DOMAIN symtab = DOMAIN owner
        /\ \A s \in DOMAIN owner : FindSymbol(s) = owner[s]
        /\ \A i \in DOMAIN members : SymbolsFor(i) = {s \in DOMAIN owner : owner[s] = i}

Reread(f) == ReadAll(disk[f], NoMap, <<>>)

(* Unless load() failed, data() gives every member whole, however many are  *)
(* read and saved.  After one that failed inside a header or a symbol table *)
(* no read succeeds (84-110, 500-507, 815-840).                             *)
HeldWhole == loaded # "failed" => \A i \in DOMAIN members : Reads(members[i], stream)

(* What was saved is read back by another object: the same members in the   *)
(* same order, whatever lengths their names have, and each whole where all  *)
(* could be read when they were saved (320-355).                            *)
SavedReadsBack ==
    \A f \in Files : saved[f].done =>
        LET ms == Reread(f).members
            column(k) == [i \in DOMAIN saved[f].members |-> saved[f].members[i][k]]
        IN  /\ Reread(f).ok
            /\ [i \in DOMAIN ms |-> ms[i].name] = column(1)
            /\ saved[f].readable => [i \in DOMAIN ms |-> ms[i].data] = column(2)

SymbolsOf(f) == [s \in DOMAIN Reread(f).sym |-> Reread(f).sym[s] + 1]

(* With a long name among the members, the symbols are read back too, each  *)
(* with the member it was added for (681-741, 587-600).                     *)
LongSymbolsReadBack ==
    \A f \in Files :
        saved[f].done /\ saved[f].known /\ (\E i \in DOMAIN disk[f].entries : disk[f].entries[i].kind = "names")
          => SymbolsOf(f) = saved[f].symbols

(* ARIOTest.cpp 551-600 (new_text_lib_with_symbols) looks every symbol up   *)
(* in the saved archive: it must lead to the member it was added for.       *)
SymbolsReadBack == \A f \in Files : saved[f].done /\ saved[f].known => SymbolsOf(f) = saved[f].symbols
=============================================================================
