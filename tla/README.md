# TC397Tools in TLA+

TC397Tools reads and writes variables of an Infineon TC397 by name. A C++
library turns the ELF/DWARF of the firmware into an index of variables (a JSON
file), a Python class and an ImGui program look names up in it, and both talk to
the target through the DAS API (`tas_server` on the host, a DAP wiggler on USB).
Around it are a downloader for firmware packages, a test runner, a relay script
and the header library ELFIO/ARIO the resolver is built on.

This directory models what is hard to test in them: what threads, failing calls,
external servers, crashes and files that change underneath can do to the state
the programs go by, and where two pieces of code must agree on the same bytes.

## Inventory

| part | state | operations | hard because |
|---|---|---|---|
| GUI DAS client (`TasGui/src/das_client.cpp`) | `api_`, `port_`, `cfg_addr_map_`, `device_name_` | `connect`, `disconnect`, `read`, `write`, `list_dap_devices` | every step is an external call that may fail; servers are spawned and polled; USB changes between enumeration and use; transfers are chunked |
| GUI threads and panels (`main.cpp`) | `App`: `busy`, `task`, `connected`, `cfg`, `filter`, `filtered`, `watch`, `polling` | buttons, `pump_async`, polling, end of `main` | a `std::async` worker shares `App` with the UI thread without locks; the order of destruction is the only join |
| GUI index loader (`elf_index.cpp`) | `entries_`, `loaded_`, `handle_`, `elf_path_` | `load`, `parse_index_json`, `resolve` | decides from files which may change; a failed load leaves part of the old or new state |
| GUI value codec (`value_codec.cpp`) | none | `decode_value`, `encode_value` | widths, signs, texts that are numbers or bytes |
| DWARF/symbol resolver (`cpp/tc397_elfio_resolver.cpp`) | parsed units, a cache of names | `resolve`, `build_member_index`, `write_member_index_json` | what is found depends on what was parsed before; non-atomic file write |
| Python index (`base_tas.py` 375-494) | the JSON and ELF files, the index in memory | `ensure_json_index`, `VariableIndex` | shares its files with the GUI; staleness; its own rules of precedence |
| Python session and signals (`base_tas.py` 497-706, 1040-1311) | API, port, `client`, `is_connected`, `tas_process` | `connect`, `disconnect`, `_ensure_tas_server`, read and write of variables and signals | failure in the middle of connect; read-modify-write of shared records |
| ZPI MCU downloader (`base_tas.py` 708-1037) | files in the output directory | login, download, extract, keep the ELF | retries, partial files, deletes before it replaces |
| ARIO (`ELFIO/ario/ario.hpp`) | members, symbol table, long names | `load`, `add_member`, `save`, `find_symbol` | offsets computed before the data is laid out |
| ELFIO (`ELFIO/elfio/*.hpp`) | headers, sections, segments, streams | `load`, `save`, layout, string, symbol and relocation accessors | layout with alignment and overlap, lazy reads from a stream that may be gone, growing buffers, indices that move |
| SigAccess runner (`SigAccess/test_..._template.py`) | service cache, connection | choose, drive, sleep, read, assert | timing, clean-up on failure |
| chapter downloader (`download_22biqu_novel.py`) | `progress.json`, the text | directory, pages, save | interruption and continuation |
| relay script (`test_com.py`) | serial port | `poweron`, `poweroff` | answers that come late |
| utilities, examples, build and setup scripts | none | straight-line | nothing |

How they interact: the GUI's panels call the client and the index directly from
the UI thread and, for `connect` and `load` only, from one worker; the worker's
result comes back through a future that `pump_async` polls once a frame. The GUI
and Python share no memory but the same two files (the ELF and its JSON, at the
same default paths), the same resolver library, and the same DAS server. The
downloader puts in place the ELF the other two then read. The resolver reads the
ELF through ELFIO.

`PROJECT.json` lists the hazards at their lines with the properties about them.

## Modules

### The GUI

`DasClient.tla` models `das_client.cpp`: one action for each external call of
`connect()` or test of its result. `pc` names the step, `portState` and `mapped`
are the books of the DAS API, `port` is `port_`, `lport`, `sel`, `seenPorts` and
`tries` are `connect()`'s locals. Wigglers are numbers in the order
`list_dap_devices` sorts by; `PositionOf` is the position a serial gets and
`MapPort` resolves a position again, in the USB bus of its own moment. Every API
call may fail. `disconnect()` on an error path is two steps, its test of `port_`
and its close, since the end of `main()` may come between. API calls on a port
somebody closed may answer anything. `ClientSpec` is the client with one
single-threaded caller.

`ElfIndex.tla` models `ElfIndex::load` as other threads see it: when `loaded_`
falls and rises, and that `entries_` grow one at a time under a reader. An entry
is the class of variables a filter text can tell apart. Which files exist and
which are stale is left to the outcome of the step.

`TasGui.tla` composes them with `main.cpp`. One action per button or field, two
for `pump_async` (one per kind of task), four for the end of `main()`: the loop
exits, `connected()` is tested, `disconnect()` runs, and `~App` joins the worker
(`~future`) before `~DasClient` disconnects, because members are destroyed in
reverse order of declaration. Panels act only when `ui = "frame"`; the worker
acts whenever its task runs, also after the window closed. `filter` is the text
as the set of entry classes it matches, `filtered` the rows. `PortLookedAfter`
has three named parts: flag and port agree, no call is made on a port somebody
closed, nothing is open at the end.

`TasSession.tla` is the abstract specification of a session: down, opening, up,
quitting or gone; "up" holds exactly one port, "down" none, "gone" none. Two
programs implement it: `TasGui` maps its program counter and flags to the phase
(`Phase`), `BaseTas` its own.

`Transfer.tla` models `DasClient::read` and `write` and the watch panel that
calls them. One action is one transaction of the DAS API (`run_transaction`),
which may fail; a write that fails may have stored its bytes. `mem` is the
target's memory, and a variable is an address and a size, not necessarily apart
from the others. The loop over the entries in `poll_reads` is `BeginItem` to
`NextItem`; `mode` tells it from the single entry of `write_item`, which writes
and falls into the same read. With `running` the target stores bytes of its
variables between any two steps. `held` is history: the bytes each address held
since the current `read` or `write` was called. A connection just comes and goes
between calls here (`Reconnect`); what `connect()` may do beside the panel is
the subject of `TasGui`.

`IndexText.tla` models the text that carries an index or an answer from the
resolver to the GUI: `json_escape`, `to_json` and `to_member_index_json` write it,
a crash cuts it anywhere, `copy_string` cuts it to its buffer, and `JsonScan`
reads it: strings with escapes, unsigned and signed numbers, values that are
skipped, entries, members. A character of a value, the name of a key, a literal
are one position of the text each. What the scanner makes of texts the resolver
does not write is left out.

`ValueCodec.tla` models `decode_value` and `encode_value` for integers beside the
conversions of `base_tas.py`. A text is a number (decimal or hex, with a sign
and leading zeros) or a run of bytes; `looks_like_blob` decides which the code
takes it for, and a variable of more than a word takes every text for bytes. The
eight bytes of a machine word are `Word` bytes. `WatchPanel.tla` puts it beside
`Transfer`: the two halves of what the panel does with a value.

### Index and lookup

`IndexFiles.tla` models the ELF and its JSON on disk and both programs that
regenerate the JSON: `ElfIndex::load` (`ClickLoad` to `OpenHandle`) and
`prepare_index` of `BaseTas` (`Prepare` to `OpenIndex`). Both call
`write_member_index_json`, which reads the ELF (`ReadElf`), truncates the JSON
(`CreateJson`) and writes it in place (`WriteJson`); a crash (`CrashGui`,
`NewBaseTas`) may come between any two. An ELF's content is its build, a JSON's
the build it was generated from or `Half`, a text that does not parse. Times are
whole seconds of one clock. `procs` says which programs run and `touch` whether
a new ELF gets the current time with at least a second since the last change, or
carries an older time along as copies and archives do; both are chosen at the
start from `Settings`. `quiet`, `disturbed`, `overlap`, `jsonMixed` and
`entriesMixed` are history: that the ELF changed during a call, that two writers
had the JSON open, and what came of it.

`Dwarf.tla` models the resolver behind one open handle: units are parsed when
something in them is asked for and stay (`tried`), one that throws is left out,
the first variable of a name is remembered (`cache`), types are followed through
typedefs and members, and `build_member_index` lists every path. A unit is the
sequence of its entries as they lie in `.debug_info`, so that children, siblings
and null entries are what they are in the file. How attributes are encoded is
left out. The reference (`AnswersRight`, `IndexComplete`) is the meaning of the
whole file, read without cache or order.

`VariableLookup.tla` extends it with the symbol table and the three ways a name
is looked up: `write_member_index_json` merges symbols into the listing, Python
looks only there (by path, then by leaf), the GUI looks there and then asks the
live handle, which goes through DWARF for a path and through symbols for a plain
name. `SameByte` is that all of them name the same byte, `InBounds` that an index
leads to a byte of what bears the name. DWARF gives arrays no size, and of what has
none neither program knows the end (resolver 487, base_tas.py:482): there any index
is taken, and Python takes it for an array variable of which the GUI, which asks the
symbol, checks the size. Of several symbols of a name `resolve_symbol` takes one that
is not at address 0, and local ones last; it adds the index before it compares
(resolver 1118, 1135), so `c` may lead to one symbol and `c[1]` to another.

### Python

`BaseTas.tla` models `connect()`, `disconnect()` and `_ensure_tas_server`, one
action per call that may raise. `before` and `fresh` are the old and the new
client; `moved` is history: that a wiggler came or went since the list of them
was read.

`Signals.tla` models the records of signals: id, quality, type and value, one
after the other, read in transactions of at most `Chunk` bytes, parsed, one
value replaced in the copy and all of it written back. `Offsets` is the loop
both functions of `base_tas.py` run over the bytes; `Parse` takes the last entry
it finds of an id, `Search` the first. The target may store values in between
(`running`). `meant` and `behind` are history: what target and script meant to be
in the memory, and where the script's record is older than the target's last
store.

`Downloader.tla` models `download_mcu`: catalogue, retries, part file, unpacking
of nested archives with the names it gives directories, and
`_keep_only_target_elf` one file operation at a time. The process may die at any
step, and the next call starts on what it left.

`SigRunner.tla` models one testcase of the runner: the choice of model and
variant, the candidates for the variable, drive and await for each value, and
the `finally`. `Relay.tla` models `USBRelay` over a line that delays and loses:
what has come in a tenth of a second after a command is taken for its answer.
`NovelDownload.tla` models the chapter downloader over its `progress.json`,
stopped and started again: `extract_chapters` keeps the first link of each
address below the book, `download_chapter` follows "next page" links while they
are pages of the same chapter. `Walks` is the reference for the latter.

`Bench.tla` puts relay, records and testcases side by side, `Downloads.tla` the two
downloaders, `ElfData.tla` the parts of ELFIO and ARIO that hold what was read,
`ElfWrite.tla` those that arrange what is written.

### ELFIO and ARIO

`ElfLayout.tla` models `elfio::save()`: `get_ordered_segments` (the segments at
offset 0 first, then those that hold others before those they hold),
`layout_segments_and_their_sections` one section at a time with its padding,
the sections without a segment, the section table; then edits, and another save
on the same object. Differences of addresses are taken modulo `Wrap`, as the
code's unsigned numbers are. `below` is history: that in this save a section lay
before the address of its segment. `is_subsequence_of` is `std::includes` over
the lists as they are.

`ElfBytes.tla` is what a section promises its callers: a string of bytes.
`ElfSection.tla` is the buffer behind it, `section_impl` at the level of `data`,
`data_size`, `sh_size`, `stream_size`, `is_loaded` and `can_be_loaded`, with
lazy loading (`lazy`) and the string accessor, and implements `ElfBytes`.

`ElfObject.tla` models objects over the files they are loaded from: sections and
segments keep a pointer to a stream only the loading object owns. Every call may be
made at any time. What an object does not survive is noted in its `risk`, which
decides nothing: it, its lazy parts still unread, was moved, saved, loaded again from
a missing file or had its file saved over, or a segment without bytes was given a
section ("stream"); or it last loaded something without sections ("names"). Loading
again clears it. `crash` names the object and the reason when one reads what is gone.

`ElfSymbols.tla` models a symbol table, its hash table of either kind, and a
relocation section: adding, finding by name, and `arrange_local_symbols` one
swap at a time with the callback that keeps relocations up to date.

`ElfTables.tla` models the accessors of sections that are tables: arrays,
`.dynamic`, notes, `.modinfo` and symbol versions. Each keeps something from when
it was made - a count, the places of the notes, all attributes - while the
section grows under it and another accessor. Constructors that scan and calls that
walk a chain take one step per entry. `table` is history: what was put there;
`missed` says that another accessor added something since.

`ArioArchive.tla` models an archive: members, the directory of long names, the
symbol table with its file positions, and what another object reads back. `load()`
may be called again on an object in use (`reloads`): it takes new members and keeps
the symbols and the names from before, so what `find_symbol()` says is required only
while they are those of one archive (`Known`). The archives given are of the form `ar`
writes (`WellFormed`) and, if they can be read, say where each symbol is once
(`Orderly`); the broken ones end inside a header, the symbol table or the directory
of names, name a place outside the directory or a size that is no number. A load
that ends inside a header or the symbol table (`Torn`) leaves `failbit` set
(ario.hpp 503, 819), as a read that fails does; of members already read `data()` then
gives the text of an error. After a cut directory its text is the directory.

Definitions under a comment "Faulty:" are variants of the definition that
follows them, with the slip a programmer would make there; each is what one
property is shown to catch.

## Runs

The `MC...` modules give the constants their values. `WatchPanel`, `Bench`,
`Downloads`, `ElfData`, `ElfWrite` and the modules `MCTasGuiLive` and `MCValues`
put a few components side by side that share nothing: the variable `part` is
chosen in the first state and says which of them takes steps, the others keep
their initial values (`RelayStep`, `RecordStep` and the like add the `UNCHANGED`).
Each such property starts with the part it is about, so what a run finds for one
component is what a run of its own would find.

| run | asks | bounds |
|---|---|---|
| `tas_gui` | do the threads stay out of each other's way, do flag, table and port agree, does the end of the program clean up, is the session implemented | two wigglers, two handles (symmetric), one server, one poll, two entries of two classes, three filter texts; USB still while `connect()` runs |
| `gui_live` | does a busy panel come back and closing the window end the program; does the client of any caller give back what it took, and end | GUI: one wiggler, handle and entry, USB changes at any time. Client: two wigglers, handles, servers and polls, requests by serial, position and server index, each in and out of range |
| `transfer` | is what is written and shown the memory's or an error, whatever fails; does every call end; is what is typed shown again | a variable of three bytes, one of one byte next to it, one of unknown size; two bytes a transaction; bits for bytes; two watched entries at rest, one on a running target; values of one to four bytes in a word of three |
| `index` | does a load that succeeds have the entries and handle of the current ELF, does Force regen recover, does a script open what it asked for | both programs, two builds (symmetric), one version or none, two seconds of the clock with `touch`; each program alone with three seconds and times carried over |
| `index_stale` | (violated) is a JSON regenerated when it does not match the ELF | Python alone, three seconds |
| `session` | is `connect()` of Python all or nothing, does it attach the wiggler it was asked for, does it end, is the session implemented | two wigglers, two handles, one server, two polls |
| `bench` | does a relay call take only its own answer, does a record survive its rewriting, does a testcase pass only if it did what it says, do these calls end | two channels, two attempts, four calls, `Paced`; records of up to three signals with five endings, six bytes a transaction, at rest and running; testcases of two variants whose accesses may all fail or never do |
| `download` | what is on disk, between two steps and after a crash, of both downloaders, and do they end | two versions, nested packages, two attempts, no length given by the server; a novel of four chapters in three directories |
| `values` | do all lookups name the same byte, is a handle's answer that of the whole file, is a text read as it was written | four programs, one with arrays, with six symbol tables each; five files each with and without a unit that cannot be parsed; indexes of no, one and two members with characters that are escaped, cut at every place; answers that fit their buffer and that do not |
| `codec_decimal` | (violated) is every number that fits accepted | those of `transfer` |
| `elf_write` | do sections stay apart, in their segments and at their addresses, do relocations follow their symbols, do saves end | 1,380 objects of three sections and two segments, saved three times; the edited ones twice with two edits; up to four symbols, one without a name, two relocations of two types, either hash table |
| `elf_data` | do sections, objects, archives and tables give back what they were given or read | files of six bytes with sections of up to five (read lazily: four); two objects (symmetric) in every order of calls, one save; two archives with a symbol and a long name, one full, and five that cannot be read (a cut header, directory or symbol table, a place outside, and where `save()` writes a size that is none); two members, `load()` once more (the bounds stop it, hence `CHECK_DEADLOCK FALSE`); tables of each kind, empty and with entries, in either byte order, one with a note without a name, two accessors (symmetric), up to three entries |

Why the bounds are enough: a variable of three bytes takes one full and one short
transaction, its neighbour shows a write that goes too far, and two entries are
what it takes for one to disturb the other. Two builds make an index stale; two
seconds let a file be older, equal and newer than another. Two wigglers are what
it takes for a serial to have the wrong position, two handles for one to leak
while another is held. The number of polls (25 in the code), of attempts and of
calls only has to run out. Two entries of two classes and three texts give
filters that match all, some and none, and an index shorter or longer than the
last one. A record of two transactions is what a target can change in between; a
relay answer is late for the next call only if there are two calls of different
meaning. Three sections and two segments give a section shared by nested
segments, one alone and one without; the addresses are chosen above, at and
below what the alignment gives. A word of three bytes holds values of one and
two with a sign, one that fills it, and one that exceeds it. Two local symbols
behind a global one make `arrange_local_symbols` swap; three names in two
buckets collide. Two members, one of odd size, and names of 15, 16 and 21
characters cover the header's 16. What is counted is bounded by constants:
`starting` and `servers` by `MaxServers` (a spawn beyond it is lost),
`Len(entries)` by `MaxEntries`, calls by `MaxCalls`, saves and edits by
`MaxSaves` and `MaxEdits`, positions by `MaxPos`, buffers by `MaxSize`.

`ConnectedToRequest` is checked with a USB bus that is still during `connect()`.
With one that changes it does not hold: the serial becomes a position
(das_client.cpp 189-196) which `map_port` uses later (211). `AttachedToAsked`
says the same of Python, with `moved` for a bus that changed.

## Fairness

The operating system runs both threads and every DAS call returns (`wait_list`
is given `DAS_DEFAULT_TIMEOUT` and the rest have time-outs of their own), so steps
of the worker, of `pump_async`, of the end of `main()`, of `connect()` in either
language, and of the UI thread inside a transfer are weakly fair. A read of the
relay's serial line ends after its time-out, a download's request after its own,
and a testcase is a sequence of such calls; once one of them is begun its steps
go on. `save()` and `arrange_local_symbols()` are single calls without waiting. In
the relay's run the line too delivers or loses what is on it. Nothing is assumed
of users, of USB, of servers or of the moment of a crash, and `IndexFiles` states
no liveness: a program may die anywhere. In objects that were edited, of `save()`
only the ordering of the segments is required to end, since a section may come to
lie beyond `MaxPos`, where the model stops and the code would not.

## Divergences

Two runs show the code doing something else than its documentation says.

- `index_stale`: the docstring of `base_tas.py` (line 6) promises to "regenerate
  JSON when it does not match the ELF or is older than the ELF";
  `ensure_json_index` (438) compares the MCU version and nothing else, so a
  rebuilt ELF of the same version is read and written through the addresses of
  the old one.
- `codec_decimal`: `value_codec.hpp:19` says decimals are accepted;
  `looks_like_blob` (value_codec.cpp:156) counts their digits as hex digits, so
  100 to 255 are refused for one byte, 10000 to 65535 for two.

More came out of the modelling. Each has a definition that states what one would
expect; it fails in the module as it stands or with the constants named here, and
the properties the runs check are stated so as to exclude it.

| definition | what the code does |
|---|---|
| `OpenFindsIndex` (`IndexFiles`) | without a version a missing or half JSON has the version asked for, `None`: nothing is generated and opening raises (base_tas.py:438) |
| `WriteChangesSignal` (`Signals`) | an id that occurs twice: the write changes the first entry, the parser reports the last (1204, 1162) |
| `SeveralRefused` (`Downloader`) | two nested archives of one base name are unpacked into one directory, the second ELF replaces the first before they are counted (896) |
| `NextRunGoesOn` (`NovelDownload`, `InterruptSave` TRUE) | an interruption while `progress.json` is written leaves half of it, on which the next run raises |
| `OwnAnswer` (`Relay`, `Paced` FALSE) | an answer that comes later than a call waits is taken by the next one |
| `NeverRaises` (`Relay`) | a call without any answer raises: `None.find` (test_com.py:75, 79) |
| `HintOrder` (`SigRunner`) | the order of the rules, not that of the hints, decides which model comes first |
| `SameBytes` (`ValueCodec`) | a variable of more than eight bytes: a number of just as many digits is taken for bytes, the first one in front, while Python writes the number with its lowest byte in front (value_codec.cpp:129) |
| `TakesBytes` (`ValueCodec`) | a byte text exactly as long as the variable is read as a decimal number, not as bytes (value_codec.cpp:156) |
| `IndexResolves` (`Dwarf`) | an extern declaration before the definition hides it from `resolve`, while the listing has it (resolver 820, 529) |
| `FullPathResolves`, `LeafResolves` (`VariableLookup`) | a name without a dot is looked up as a last member only (base_tas.py:458); the live lookup of the GUI finds no last members (resolver 437) |
| `NoOverlap`, a section below its segment (`ElfLayout`) | the unsigned difference wraps, the layout goes backwards over earlier data and `save()` returns true (elfio.hpp:995) |
| `InTheirSegment`, a NOBITS section before data | its padding is not counted in the segment's size (1028) |
| `NestedLater`, lists not sorted by index | `std::includes` does not see that a segment is nested (778) |
| `NoCrash` (`ElfSection`, lazy, `ReadFirst` FALSE) | `insert_data` on a section not read yet copies from the null pointer (elfio_section.hpp:364) |
| `SavesAll` (`ElfSection`, lazy) | a section not read yet is saved without its bytes (544) |
| `FreeLosesNothing` (`ElfSection`, lazy) | `free_data` drops edits, later reads go to the file with the new size (251) |
| `NoCrash`, `ReadsRight` of objects with `risk` (`ElfObject`) | a lazy object that is loaded again from a missing file, or moved, where the other object is then destroyed or loads again, keeps a pointer to a stream that is gone (elfio.hpp:163, 90); one that is saved, or whose file is saved over, an offset that is no longer that of its file (253); a segment without bytes that is given a section reads after the load that closed its stream (elfio_segment.hpp:188); `sections.add` indexes the names of an object that loaded none (1121) |
| `SymbolsReadBack` (`ArioArchive`) | without long names all symbol locations are 60 too high (ario.hpp:674) |
| `FoundIsOwner` without `Known` (`ArioArchive`) | `load()` keeps the symbols of the archive before (280) |
| `SavedReadsBack` without `readable` (`ArioArchive`) | after a load that ended inside a header or the symbol table, of cut members, or with `Overwrite` TRUE `data()` returns the text of an error as content and `save()` succeeds with it (ario.hpp:97, 503, 819, 797) |

## Proofs

Each proof module `XProofs` extends `X` and proves what its runs check for every
value of the constants, from the assumptions named beside the constants. For a
composition these are the assumptions of its parts under names of their own:
`ValuesAssumption` (`WatchPanel`), `RecordAssumption` and `TestAssumption` (`Bench`),
`ChaptersAssumption` (`Downloads`), `SectionsAssumption` and `ObjectsAssumption`
(`ElfData`), `TablesAssumption` (`ElfWrite`).

`TasGuiProofs`: the client with any single caller is all or nothing
(`AllOrNothing`), leaks no port (`NothingLeaks`), holds at most one and the one it
mapped (`HoldsOnePort`), and attaches the device it was asked for
(`ConnectsTheAsked`) on a USB bus that is still. `ClientInv` is the types,
`HandleBooks` (at every instant at most the handle the client holds is open, and
it knows which) and `CallBooks` (what the locals of `connect()` say of it at each
place); `Asked` adds that the position selected is that of the serial. The GUI
around the client keeps `PortLookedAfter`, `WorkerAloneOnClient` and
`RowsMatchIndex`, and implements `TasSession`. None of these is inductive alone.
`IInv` adds that the API's books and `port_` agree at every instant, `LoadedApi`
(past its start `connect()` has the API, so a close does close), `TaskRunsCode`
(`task` says which code the worker is in, and a worker that is done stays done),
`CallHoldsPort` (before `open_port` there is no port, after it the local and `port_`
agree while the window is open), `FlagFollowsPort` and `TableFollowsIndex` (the
agreements hold except while the task that breaks them runs). Each kind of step has
a lemma that it preserves `IInv`; `StepImplements` maps every step to one of
`TasSession` or to a stutter.

`BaseTasProofs`: the same of Python's session, with the flag `is_connected` and
the wiggler attached, and that it implements `TasSession`. `Books` says what the
old and the new client hold at each place of `connect()`, `Asked` that the
position selected is the one of the serial as long as nothing moved.

`WatchPanelProofs`: for every layout of variables (overlapping or not, of any size,
inside the address space), every transaction size, every set of bytes and a
target at rest or running: `TypeOK`, `ChunksRight`, `ReadsBackWritten` and
`WatchRight`. The invariant has three layers: `TInv` (types, and what the locals
hold at each place: as many bytes read as the offset says), `MInv` on top of it
(the history knows the present; at rest nothing else was held; what `write_item`
is about to read back is there) and `WInv` (the watch list) on both. And of the
codec `CodecRight`, for every size of a word and of a variable, every sign and
every number (`CodecIsRight`). `CodecInv` says that what is shown was made of the
bytes and these of the text last typed. The rest is arithmetic: a number below
256^n and its n bytes determine each other (`UintDigits`, `UintOfBytes`), numbers
that differ by a multiple of 256^n have the same bytes (`SameRemainder`), and a
number is below 16 to the power of its digits (`DigitsBound`), which is why a text
no longer than twice the size needs no test of the range.

`IndexFilesProofs`: for every set of builds and versions and every bound of the
clock `TypeOK`, `LoadedIsCurrent` (entries and handle), `OpenFindsAsked` and
`ForceReadsCurrent`, each under the setting its statement names. `IInv` adds that
no file is newer than the clock, that a generation under way holds the current
build unless disturbed, and that a JSON no older than the ELF comes from it;
`PythonInv2` and `GuiInv2` add what a program alone on the files may rely on.

`DownloaderProofs`: for every server, package and number of attempts no cut ELF
reaches the output directory, no part file is left by a failure, from the first
ELF on there always is one, and a download that returns leaves one file, an ELF
that was in the archive asked for, however deep the archives are nested. `IInv`
follows the ELF from the archive (`ArchiveAsked`) through the unpacked tree
(`TreeElves`, `FoundElf`) into the directory (`DirElves`); `FromArchive` says that
whatever lies in the tree, and whatever is still to be unpacked, was in the
archive. For every book of pages `NovelIsKept`: no chapter is lost, doubled or out of
place between the text and `progress.json`, over interruptions and restarts.
`NovelInv` says of each place in the loops that the texts so far are those of the
chapters `progress.json` counts, and of the pages of the chapter under way that they
are the start of its walk (`Chain`). A chapter has one walk only: two would first
differ somewhere.

`BenchProofs`: under `Paced` no call of the relay takes an earlier answer for its
own, and what a call said holds until the next one for the channel. `OwnLine` says
that what is on the line belongs to the last call, `Done` that an answer comes
after the relay has done it, `Told` that what a call was told is what its channel
was last asked for. A testcase passes only if it went through every
value of a variant that fits, each passed on by the ECU and read back, and it
leaves TAS disconnected (`PassMeansPassed`): `TestShape` is the types and places,
`Behind` that each value before the one at hand was read where it was due, `Ends`
what the two ends hold at each place where accesses do not fail - the one that is
not driven still has the value before, unless the ECU moved - and `Fresh` what is
true of the values behind. A record that is rewritten keeps every signal
but the one written, wherever the target did not store meanwhile (`RecordIsKept`),
for records of any number of signals, sizes of transaction and endings: `Layout`
(entries lie one after the other, `Laid`, and only values change, `Same`) makes the
loop over the bytes visit exactly the entries; `Reading`, `Writing`, `Resting` and
`Reported` say what the script's copy is at each place.

`ElfDataProofs`: for every file and any sequence of reads, edits and saves within
the bounds a section gives back what was put into it or read from the file
(`SectionIsKept`), lazy ones as far as the code allows, and implements `ElfBytes`
(`SectionRefinesBytes`). `SectionInv`: `Kinds` (the fields and their sizes), `Source`
(where the bytes are that are not in the buffer), `Places` (strings stay where
they were put), `Unedited` (what nobody edited is the file's, in the buffer or
still to be read), `SavesAll`. For every
set of objects and files, under every order of calls, `ObjectReadsRight`
(`ObjectIsRight`): no two objects hold sections of one load, and an object without
`risk` gives what its file held and reads no stream that is gone, whatever was done
to others. `ObjectInv` says of each object what its sections and segments hold, and
of one without `risk` that its lazy parts lie in its own stream's file where they
were when it was loaded (`ListFits`, `Shaped`, `Fine`). The cases with `risk` are
excepted because the code fails in them (Divergences).

In the same module, for all archives `ArioAssumption` allows, any lengths of names,
symbols and contents, and any order of `load` (also of a cut file), `add_member`,
`add_symbols_for_member`, `data` and `save` on one object: `ArchiveReadsBack`
(`ArchiveIsReadBack`): the same members, and whole where all could be read when they
were saved (`readable`), which is so unless the load before failed (`HeldWhole`). A writer that
lays out places before it writes meets a reader that finds them by walking, so the
proof needs both to arrive at the same numbers: where the names end in the directory
(`Ends`, which only grows, so a name added is found where it was put and nowhere
else), where the members start behind symbol table and directory (`Positions`, each
place taken once), and that reading what `save()` wrote goes entry by entry through
exactly these. `ArchiveInv` says that each member held finds its name in the
directory (`HeldWell`), that those read from a file can still be read, since nothing
is saved over it and no read has failed unless the load did (`StreamWell`), that each file saved is what the object held then
(`FilesWell`), and, while `Known`, that members have different names and each symbol has
the member it was said to belong to (`Owned`). It assumes `Overwrite` FALSE, which is how
`ElfData` takes the module, and that the archives given have no cut member: for both
`save()` succeeds with something else (Divergences). `LongSymbolsReadBack` speaks of
archives with a directory of names; without one the symbols are wrong (Divergences).

`ElfWriteProofs`: for any number of sections and segments of any sizes,
alignments and addresses, edited and saved any number of times, `TypeOK` and
`NoOverlapAbove`. `LaidBelowEnd` is the heart: as long as no section lay below its
segment, every section laid in this save lies between the headers and the
position reached, and no two of them share a byte; `Locals` says what the loop's
variables hold at each place. `HeadersFit` assumes that the headers leave room in
the positions. `AtTheirAddress` (`SectionsMeetAddresses`) holds without any
condition on the addresses: `AInv` adds that each segment is taken from the lists
once (`TakenOnce`), and that a section laid out in a segment is listed there and as far
from its start as in memory, where the start is still a local of the loop or
already in the segment (`Homes`, `StartOf`). It is stated in words, since the distance in
memory may go round the end of the address space where the one in the file
does not.

In the same module, for every symbol table and hash table that is loaded and any
sequence of additions and arrangements on it, `SymbolsFollow`
(`SymbolsAreFollowed`). `SymbolInv`: the null symbol is in front (`FirstIsNull`);
the symbols are a permutation of those that were added (`Numbered`: each has its
number, each number is there once), which a swap keeps; every entry names the
place where the symbol it was made for is now (`RelocsFollow`), which a swap keeps
because `swap_symbols` takes the entries of both symbols along (`SwappedFacts`,
`SwapFollows`); and what the loop has behind it is local (`LocalsBehind`), so that
where it stops the locals are in front. The proof that a name is found needs more:
a walk along a hash chain is a recursive function, and exists only where the
chain ends. `LoadedAssumption` says that the chains of a loaded table do, inside the
table, which the code takes for granted (on a circular chain `hash_lookup` never
returns); `WalkExists` and `WalkEnds` then follow the steps left on the chain.

Where a definition recurs over numbers or sequences (the loop over a record, the
pages of a chapter, the unpacking of archives, powers and digits), the proofs cannot instantiate the
library's theorems of induction, whose parameter is an operator. They go by the set
of counterexamples instead: it would have a least member (`LeastNumber`, from
`WFMin`), and there is none.

Only model-checked:

- liveness: `CallsEnd`, `CallEnds`, `ConnectEnds`, `BenchCallsEnd`, `DownloadsEnd`,
  `WritesEnd` (fairness and ENABLED are out of this prover's reach);
- `PlacedRight`. Its parts `InTheirSegment` and `NestedLater` do not hold of all objects (see
  Divergences), and `Settles` compares two whole layouts;
- `LookupsAgree` and `HandleAnswersRight`, where the reference is a second
  recursion through units and types, beside the code's;
- `TablesRead` and `TextReadsBack`: a writer and a reader of the same layout, both
  recursive.

## Not modelled

The two programs may write the JSON at once (nothing locks it); the model lets
the result be anything, and the properties speak of JSONs from one writer only.
Reading a file is one step. A text short enough for the output stream's buffer
would meet a full disk only when the stream closes, which nobody tests; index
texts are megabytes and written through, so the failure is modelled at the test.
A plain "Load / Index" after a crash in the middle of the rewriting fails until
the user forces a regeneration, since the half file has a fresh time: the model
shows it and no property forbids it. `Transfer` has variables that lie inside the
address space (`address + offset` does not wrap). DAS calls are modelled by their
effect on ports. The displayed count of variables is read while the worker fills
the vector (main.cpp 297): undefined behaviour in C++, with no effect on the state
modelled here. The contents of log lines, labels and drawing are left out.

`Half` in `IndexFiles` is an index cut behind its head: one cut inside the head
would pass for an index without members. Of an ARIO member that cannot be read the
text of the error is saved; the model says so (Divergences).

Left out as data without control, or beyond TLC: floating point in both codecs;
LEB128 and the forms of attributes and abbreviation tables; texts `JsonScan` is
given by somebody else than the resolver; the constants of `elf_types.hpp`; the
printing of `elfio_dump.hpp`; section compression, which is a callback of the
user's. `usb_relay_control` sends a command and waits for nothing; build, setup
and example scripts are straight lines around what is modelled.

Left out of single steps: the returns of `insert_data` where a size would pass 2^64;
in ARIO a symbol table cut among its names, and a place inside a name of the
directory; a relocation added with its symbol (`AddNamed`) to a section that holds
addends, where the code appends an entry of the size of one without and what follows
is read askew (elfio_relocation.hpp:366-381); an `open_port` that gives a port and an
error at once, which `connect()` would leave open (das_client.cpp:207) - the API is
assumed to open nothing when it fails; in the runner, rules without a model, which
are passed over, and the difference between a check that fails and one that raises,
since both end the testcase the same way. `reset_output_buffer` of the relay drops
what has not left yet, which the model has as a loss on the line.

What `ElfTables` follows from the code and a reader may not expect: `get_note`
compares its index with the size of the section in bytes, and refuses a note without
a name, which is legal in an ELF file (`Refused`); `add_note` with no
description and a size of one writes a note that cannot be walked; the values of
`versym` are not swapped to the byte order of the file; `.dynamic` caches the
first count that is not zero, so entries added later through another accessor
are not seen; in `.modinfo` an attribute without `=` is its own field and value.

## Plan

Done: the session in both programs with its abstract specification, transfers,
index files and their text, records of signals, downloaders, runner and relay,
lookup and codec, layout, sections, objects, symbols, tables, archives; proofs of
all safety properties of the runs but those named above.

What would come next, in this order: `LookupsAgree` and `HandleAnswersRight` from an
invariant of the cache (a name remembered is the one a fresh handle would
find); `TablesRead`, beginning with the tables of fixed entries; `ElfSection` and
`ElfObject` as one composition, so that lazy bytes and vanished streams meet
edits; LEB128 and attribute forms at the boundary of 64 bits.
