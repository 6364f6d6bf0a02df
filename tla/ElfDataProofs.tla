---------------------------- MODULE ElfDataProofs ----------------------------
(***************************************************************************)
(* Proofs about what ELFIO holds of a file.  ElfSection, for any files,     *)
(* strings and bounds: what callers see of a section is what somebody gave  *)
(* it, through every growth of its buffer, every lazy read and every free.  *)
(* ElfObject, for any objects and files: what get_data() gives is what the  *)
(* file held, and the stream it is read from is there.  ArioArchive, for    *)
(* any archives, names and contents: what was saved is read back whole.     *)
(***************************************************************************)
EXTENDS ElfData, SequenceTheorems, FiniteSetTheorems, NaturalsInduction,
        WellFoundedInduction, TLAPS

-----------------------------------------------------------------------------
(* A buffer and the operations on it.                                       *)

Buffers == [size : Nat, have : BOOLEAN, data : Seq(Bytes \cup {Junk}), dataSize : Nat,
            streamSize : Nat, crashed : BOOLEAN]

\* The buffer holds what data_size says, and the section's bytes are bytes.
Held(b) ==
    b.have => /\ b.size <= b.dataSize /\ b.dataSize <= Len(b.data)
              /\ \A i \in 1..b.size : b.data[i] \in Bytes

\* What there is to move when an edit opens the buffer.
Ready(b) ==
    /\ b \in Buffers /\ Held(b) /\ ~b.crashed
    /\ ~b.have => b.size = 0 /\ b.dataSize = 0

LEMMA SeqOf ==
    ASSUME NEW S, NEW n \in Nat, NEW f \in [1..n -> S]
    PROVE  f \in Seq(S) /\ Len(f) = n /\ DOMAIN f = 1..n
<1>1. f \in Seq(S)
  BY SeqDef
<1>2. Len(f) \in Nat /\ DOMAIN f = 1..Len(f) /\ DOMAIN f = 1..n
  BY <1>1, LenProperties
<1>3. QED
  BY <1>1, <1>2

\* What is read is bytes of the stream.
LEMMA ReadFacts ==
    ASSUME NEW f \in Files \cup {NoFile}, NEW n \in Nat
    PROVE  /\ Read(f, n) \in Seq(Bytes \cup {Junk}) /\ Len(Read(f, n)) = n + 1
           /\ \A i \in 1..n : Read(f, n)[i] \in Bytes
<1>1. f.bytes \in Seq(Bytes) /\ f.offset \in Nat /\ Zero \in Bytes
  <2>1. CASE f = NoFile
    BY <2>1, SectionsAssumption, EmptySeq DEF SectionAssumption, NoFile
  <2>2. CASE f \in Files
    BY <2>2, SectionsAssumption DEF SectionAssumption
  <2>3. QED
    BY <2>1, <2>2
<1>2. Len(f.bytes) \in Nat /\ \A i \in 1..Len(f.bytes) : f.bytes[i] \in Bytes
  BY <1>1, ElementOfSeq, LenProperties
<1>3. \A i \in 1..n : Read(f, n)[i] \in Bytes
  BY <1>1, <1>2 DEF Read
<1>4. Read(f, n) \in [1..(n + 1) -> Bytes \cup {Junk}]
  BY <1>1, <1>2 DEF Read
<1>5. QED
  BY <1>3, <1>4, SeqOf

\* An edit keeps the bytes before its place and moves those behind it.
LEMMA InsertedFacts ==
    ASSUME NEW b, Ready(b), NEW s \in Seq(Bytes), NEW pos \in 0..b.size
    PROVE  /\ Ready(Inserted(b, pos, s))
           /\ Inserted(b, pos, s).size = b.size + Len(s)
           /\ b.have => Inserted(b, pos, s).have
           /\ \A i \in 1..(b.size + Len(s)) : Inserted(b, pos, s).data[i] =
                IF i <= pos THEN b.data[i]
                ELSE IF i <= pos + Len(s) THEN s[i - pos] ELSE b.data[i - Len(s)]
<1> DEFINE c == Inserted(b, pos, s)
           n == Len(s)
           At(i) == IF i <= pos THEN b.data[i]
                    ELSE IF i <= pos + n THEN s[i - pos] ELSE b.data[i - n]
<1>1. /\ b \in Buffers /\ ~b.crashed /\ n \in Nat /\ \A i \in 1..n : s[i] \in Bytes
      /\ Len(b.data) \in Nat /\ \A i \in 1..Len(b.data) : b.data[i] \in Bytes \cup {Junk}
  BY LenProperties, ElementOfSeq DEF Ready, Buffers
<1>2. b.size \in Nat /\ b.dataSize \in Nat /\ b.streamSize \in Nat /\ pos \in Nat /\ pos <= b.size
  BY <1>1 DEF Buffers
<1>3. \A i \in 1..(b.size + n) : At(i) \in Bytes
  <2> SUFFICES ASSUME NEW i \in 1..(b.size + n) PROVE At(i) \in Bytes
    OBVIOUS
  <2>1. b.size = 0 \/ \A k \in 1..b.size : b.data[k] \in Bytes
    BY DEF Ready, Held
  <2>2. CASE i <= pos
    BY <2>1, <2>2, <1>2
  <2>3. CASE i > pos /\ i <= pos + n
    BY <2>3, <1>1, <1>2
  <2>4. CASE i > pos + n
    <3>1. i - n \in 1..b.size
      BY <2>4, <1>1, <1>2
    <3>2. QED
      BY <2>1, <2>4, <3>1, <1>1, <1>2
  <2>5. QED
    BY <2>2, <2>3, <2>4, <1>1, <1>2
<1>4. ASSUME NEW l \in Nat, b.size + n <= l
      PROVE  /\ Opened(b, pos, s, l) \in Seq(Bytes \cup {Junk}) /\ Len(Opened(b, pos, s, l)) = l
             /\ \A i \in 1..(b.size + n) : Opened(b, pos, s, l)[i] = At(i)
  <2>1. \A i \in 1..(b.size + n) : Opened(b, pos, s, l)[i] = At(i)
    BY <1>1, <1>2, <1>4 DEF Opened
  <2>2. \A i \in 1..l : i \notin 1..(b.size + n) => Opened(b, pos, s, l)[i] = Junk
    BY <1>1, <1>2, <1>4 DEF Opened
  <2>3. Opened(b, pos, s, l) \in [1..l -> Bytes \cup {Junk}]
    <3>1. \A i \in 1..l : Opened(b, pos, s, l)[i] \in Bytes \cup {Junk}
      BY <1>3, <2>1, <2>2
    <3>2. Opened(b, pos, s, l) = [i \in 1..l |-> Opened(b, pos, s, l)[i]]
      BY DEF Opened
    <3>3. QED
      BY <3>1, <3>2
  <2>4. QED
    BY <2>1, <2>3, SeqOf
<1>5. CASE b.size + n <= b.dataSize
  <2>1. c = [size |-> b.size + n, streamSize |-> b.streamSize + n, have |-> b.have,
             dataSize |-> b.dataSize, data |-> Opened(b, pos, s, Len(b.data)),
             crashed |-> b.crashed]
    BY <1>5 DEF Inserted
  <2>2. c \in Buffers /\ c.size = b.size + n /\ c.have = b.have /\ c.dataSize = b.dataSize
        /\ ~c.crashed /\ c.data = Opened(b, pos, s, Len(b.data))
        /\ Opened(b, pos, s, Len(b.data)) \in Seq(Bytes \cup {Junk})
    <3>1. b.have => b.size + n <= Len(b.data)
      BY <1>1, <1>2, <1>5 DEF Ready, Held
    <3>2. ~b.have => b.size = 0 /\ n = 0
      BY <1>1, <1>2, <1>5 DEF Ready
    <3>3. b.size + n <= Len(b.data)
      BY <3>1, <3>2, <1>1
    <3>4. Opened(b, pos, s, Len(b.data)) \in Seq(Bytes \cup {Junk})
      BY <1>4, <1>1, <3>3
    <3> DEFINE d == Opened(b, pos, s, Len(b.data))
    <3> HIDE DEF d
    <3>5. QED
      BY <2>1, <3>4, <1>1, <1>2 DEF Buffers, d
  <2>3. Len(b.data) >= b.size + n
    BY <1>1, <1>2, <1>5 DEF Ready, Held
  <2>4. Len(c.data) = Len(b.data) /\ \A i \in 1..(b.size + n) : c.data[i] = At(i)
    BY <2>2, <2>3, <1>4, <1>1
  <2>5. Held(c)
    BY <2>2, <2>4, <1>3, <1>5, <1>1, <1>2 DEF Held, Ready
  <2>6. QED
    BY <2>2, <2>4, <2>5, <1>1, <1>2, <1>5 DEF Ready
<1>6. CASE ~(b.size + n <= b.dataSize)
  <2> DEFINE l == 2 * b.dataSize + n
  <2>0. l \in Nat /\ b.size + n <= l
    <3>1. b.size <= b.dataSize
      BY <1>2 DEF Ready, Held
    <3>2. QED
      BY <3>1, <1>1, <1>2
  <2>1. ~Unread(b)
    BY DEF Unread, Ready
  <2>2. c = [size |-> b.size + n, streamSize |-> b.streamSize + n, have |-> TRUE,
             dataSize |-> l, data |-> Opened(b, pos, s, l), crashed |-> b.crashed]
    BY <1>6, <2>1 DEF Inserted, GrownSize
  <2>3. /\ Opened(b, pos, s, l) \in Seq(Bytes \cup {Junk}) /\ Len(Opened(b, pos, s, l)) = l
        /\ \A i \in 1..(b.size + n) : Opened(b, pos, s, l)[i] = At(i)
    BY <2>0, <1>4
  <2> HIDE DEF l
  <2>4. c \in Buffers /\ c.size = b.size + n /\ c.have /\ c.dataSize = l /\ ~c.crashed
        /\ c.data = Opened(b, pos, s, l)
    BY <2>0, <2>2, <2>3, <1>1, <1>2 DEF Buffers
  <2>5. Held(c)
    BY <2>0, <2>3, <2>4, <1>3 DEF Held
  <2>6. QED
    BY <2>3, <2>4, <2>5 DEF Ready
<1>7. QED
  BY <1>5, <1>6

-----------------------------------------------------------------------------
(* The inductive invariant of a section.                                    *)

Kinds ==
    /\ fresh \in BOOLEAN /\ file \in Files \cup {NoFile} /\ lazy \in BOOLEAN
    /\ loaded \in BOOLEAN /\ canLoad \in BOOLEAN /\ edited \in BOOLEAN
    /\ Buffer \in Buffers /\ Held(Buffer) /\ ~crashed

\* Where the bytes are when they are not in the buffer.
Source ==
    /\ fresh => file = NoFile /\ ~have /\ given = {} /\ ~loaded /\ canLoad /\ ~edited
    /\ file = NoFile => ~lazy /\ (~have => size = 0 /\ dataSize = 0)
    /\ file # NoFile /\ file.nobits => ~have
    /\ file # NoFile /\ ~lazy => loaded \/ ~canLoad

\* The bytes of w lie behind the first p, a zero byte behind them.
Lies(p, w) ==
    /\ p \in Nat /\ w \in Words /\ have /\ p + Len(w) + 1 <= size
    /\ data[p + Len(w) + 1] = Zero /\ \A i \in 1..Len(w) : data[p + i] = w[i]
Places == ~lazy => \A g \in given : Lies(g[1], g[2])

\* What nobody edited is the file's, in the buffer or still to be read.
Unedited ==
    file # NoFile /\ ~edited /\ ~file.nobits =>
      /\ size = file.size /\ streamSize = Len(file.bytes)
      /\ InStream(file, size, streamSize) => canLoad /\
           IF have THEN \A i \in 1..size : data[i] = Read(file, size)[i]
                   ELSE lazy /\ ~loaded

SectionInv == Kinds /\ Source /\ Places /\ Unedited /\ SavesAll

-----------------------------------------------------------------------------
LEMMA SectionStarts == Init => SectionInv
<1> SUFFICES ASSUME Init PROVE SectionInv
  OBVIOUS
<1>1. data = <<>> /\ <<>> \in Seq(Bytes \cup {Junk})
  BY EmptySeq DEF Init
<1>2. Kinds
  BY <1>1 DEF Init, Kinds, Buffer, Buffers, Held
<1>3. Source /\ Places /\ Unedited /\ SavesAll
  BY DEF Init, Source, Places, Unedited, SavesAll, NotWritten
<1>4. QED
  BY <1>2, <1>3 DEF SectionInv

LEMMA KindFacts ==
    ASSUME Kinds
    PROVE  /\ size \in Nat /\ have \in BOOLEAN /\ dataSize \in Nat /\ streamSize \in Nat
           /\ data \in Seq(Bytes \cup {Junk}) /\ Len(data) \in Nat
           /\ have => /\ size <= dataSize /\ dataSize <= Len(data)
                      /\ \A i \in 1..size : data[i] \in Bytes
<1>1. /\ size \in Nat /\ have \in BOOLEAN /\ dataSize \in Nat /\ streamSize \in Nat
      /\ data \in Seq(Bytes \cup {Junk})
  BY DEF Kinds, Buffer, Buffers
<1>2. QED
  BY <1>1, LenProperties DEF Kinds, Buffer, Held

\* get_data() leaves what there is, reads all of it, or finds the file cut.
LEMMA GetCases ==
    ASSUME NEW f, NEW n, NEW limit, GetWith(f, n, limit),
           loaded \in BOOLEAN, canLoad \in BOOLEAN
    PROVE  /\ loaded' \in BOOLEAN /\ canLoad' \in BOOLEAN /\ (loaded' \/ ~canLoad')
           /\ \/ /\ UNCHANGED <<have, data, dataSize>>
                 /\ ~Asked \/ ~InStream(f, n, limit) \/ have \/ f.nobits
              \/ /\ Asked /\ ~have /\ ~f.nobits /\ InStream(f, n, limit) /\ ReadWhole(f, n)
                 /\ have' = TRUE /\ data' = Read(f, n) /\ dataSize' = n
              \/ /\ Asked /\ ~have /\ ~f.nobits /\ InStream(f, n, limit) /\ ~ReadWhole(f, n)
                 /\ have' = FALSE /\ data' = <<>> /\ dataSize' = 0
           /\ canLoad /\ InStream(f, n, limit) /\ (have \/ f.nobits \/ ReadWhole(f, n)) => canLoad'
<1>1. CASE ~Asked
  BY <1>1 DEF GetWith, Asked
<1>2. CASE Asked /\ ~InStream(f, n, limit)
  BY <1>2 DEF GetWith, LoadData
<1>3. CASE Asked /\ InStream(f, n, limit) /\ (have \/ f.nobits)
  BY <1>3 DEF GetWith, LoadData
<1>4. CASE Asked /\ InStream(f, n, limit) /\ ~(have \/ f.nobits) /\ ReadWhole(f, n)
  BY <1>4 DEF GetWith, LoadData
<1>5. CASE Asked /\ InStream(f, n, limit) /\ ~(have \/ f.nobits) /\ ~ReadWhole(f, n)
  BY <1>5 DEF GetWith, LoadData
<1>6. QED
  BY <1>1, <1>2, <1>3, <1>4, <1>5

\* Whichever it is, the buffer holds the n bytes the header speaks of.
LEMMA GetHolds ==
    ASSUME NEW f \in Files \cup {NoFile}, NEW n \in Nat, NEW limit, GetWith(f, n, limit),
           loaded \in BOOLEAN, canLoad \in BOOLEAN,
           have \in BOOLEAN, dataSize \in Nat, data \in Seq(Bytes \cup {Junk}),
           have => /\ n <= dataSize /\ dataSize <= Len(data)
                   /\ \A i \in 1..n : data[i] \in Bytes
    PROVE  /\ have' \in BOOLEAN /\ dataSize' \in Nat /\ data' \in Seq(Bytes \cup {Junk})
           /\ have' => /\ n <= dataSize' /\ dataSize' <= Len(data')
                       /\ \A i \in 1..n : data'[i] \in Bytes
<1>1. CASE UNCHANGED <<have, data, dataSize>>
  BY <1>1
<1>2. CASE have' = TRUE /\ data' = Read(f, n) /\ dataSize' = n
  <2>1. /\ Read(f, n) \in Seq(Bytes \cup {Junk}) /\ Len(Read(f, n)) = n + 1
        /\ \A i \in 1..n : Read(f, n)[i] \in Bytes
    BY ReadFacts
  <2>2. QED
    BY <1>2, <2>1
<1>3. CASE have' = FALSE /\ data' = <<>> /\ dataSize' = 0
  BY <1>3, EmptySeq
<1>4. QED
  BY <1>1, <1>2, <1>3, GetCases

LEMMA LoadStep ==
    ASSUME SectionInv, NEW f \in Files, NEW lazily \in BOOLEAN, Load(f, lazily)
    PROVE  SectionInv'
<1>1. /\ fresh /\ file = NoFile /\ ~have /\ given = {} /\ ~lazy /\ Kinds /\ SavesAll /\ Asked
      /\ size = 0 /\ dataSize = 0
  BY DEF Load, SectionInv, Source, Asked
<1>2. /\ fresh' = FALSE /\ file' = f /\ lazy' = lazily /\ size' = f.size
      /\ streamSize' = Len(f.bytes) /\ UNCHANGED <<crashed, written, given, edited>>
  BY DEF Load
<1>3. /\ f.size \in Nat /\ f.offset \in Nat /\ f # NoFile /\ f.nobits \in BOOLEAN
      /\ f.bytes \in Seq(Bytes) /\ Len(f.bytes) \in Nat
  BY SectionsAssumption, LenProperties DEF SectionAssumption
<1>4. have \in BOOLEAN /\ dataSize \in Nat /\ data \in Seq(Bytes \cup {Junk})
      /\ loaded \in BOOLEAN /\ canLoad \in BOOLEAN /\ edited \in BOOLEAN
  BY <1>1, KindFacts DEF Kinds
<1>5. CASE lazily
  <2>1. UNCHANGED <<have, data, dataSize, loaded, canLoad>>
    BY <1>5 DEF Load
  <2>2. Kinds'
    <3>1. Buffer' \in Buffers
      BY <1>1, <1>2, <1>3, <1>4, <2>1 DEF Kinds, Buffer, Buffers
    <3>2. Held(Buffer)'
      BY <1>1, <2>1 DEF Held, Buffer
    <3>3. QED
      BY <1>1, <1>2, <1>4, <2>1, <3>1, <3>2 DEF Kinds
  <2>3. Source' /\ Places' /\ SavesAll'
    BY <1>1, <1>2, <1>3, <1>5, <2>1 DEF Source, Places, SavesAll
  <2>4. Unedited'
    BY <1>1, <1>2, <1>3, <1>5, <2>1 DEF Unedited, Asked
  <2>5. QED
    BY <2>2, <2>3, <2>4 DEF SectionInv
<1>6. CASE ~lazily
  <2>1. GetWith(f, f.size, Len(f.bytes))
    BY <1>6 DEF Load
  <2>2. /\ have' \in BOOLEAN /\ dataSize' \in Nat /\ data' \in Seq(Bytes \cup {Junk})
        /\ have' => /\ f.size <= dataSize' /\ dataSize' <= Len(data')
                    /\ \A i \in 1..f.size : data'[i] \in Bytes
    BY <1>1, <1>3, <1>4, <2>1, GetHolds
  <2>3. loaded' \in BOOLEAN /\ canLoad' \in BOOLEAN /\ (loaded' \/ ~canLoad')
    BY <1>4, <2>1, GetCases
  <2>4. Kinds'
    BY <1>1, <1>2, <1>3, <1>4, <2>2, <2>3 DEF Kinds, Buffer, Buffers, Held
  <2>5. f.nobits => ~have'
    BY <1>1, <1>4, <2>1, GetCases
  <2>6. Source' /\ Places' /\ SavesAll'
    BY <1>1, <1>2, <1>3, <1>6, <2>3, <2>5 DEF Source, Places, SavesAll
  <2>7. Unedited'
    <3>1. CASE edited
      BY <3>1, <1>2 DEF Unedited
    <3>2. CASE ~edited /\ ~f.nobits /\ InStream(f, f.size, Len(f.bytes))
      <4>1. ReadWhole(f, f.size)
        BY <3>2, <1>3 DEF InStream, ReadWhole
      <4>2. Asked => have' /\ data' = Read(f, f.size) /\ canLoad'
        BY <1>1, <1>4, <2>1, <3>2, <4>1, GetCases DEF Asked
      <4>3. QED
        BY <1>1, <1>2, <4>2 DEF Unedited
    <3>3. CASE f.nobits \/ ~InStream(f, f.size, Len(f.bytes))
      BY <1>2, <3>3 DEF Unedited
    <3>4. QED
      BY <3>1, <3>2, <3>3
  <2>8. QED
    BY <2>4, <2>6, <2>7 DEF SectionInv
<1>7. QED
  BY <1>5, <1>6

LEMMA GetStep ==
    ASSUME SectionInv, GetData
    PROVE  SectionInv'
<1>1. /\ GetWith(file, size, streamSize) /\ fresh' = FALSE
      /\ UNCHANGED <<file, lazy, size, streamSize, crashed, written, given, edited>>
  BY DEF GetData
<1>2. /\ Kinds /\ file \in Files \cup {NoFile} /\ lazy \in BOOLEAN
      /\ loaded \in BOOLEAN /\ canLoad \in BOOLEAN /\ edited \in BOOLEAN
  BY DEF SectionInv, Kinds
<1>3. /\ size \in Nat /\ have \in BOOLEAN /\ dataSize \in Nat /\ streamSize \in Nat
      /\ data \in Seq(Bytes \cup {Junk})
      /\ have => /\ size <= dataSize /\ dataSize <= Len(data)
                 /\ \A i \in 1..size : data[i] \in Bytes
  BY <1>2, KindFacts
<1>4. /\ have' \in BOOLEAN /\ dataSize' \in Nat /\ data' \in Seq(Bytes \cup {Junk})
      /\ have' => /\ size <= dataSize' /\ dataSize' <= Len(data')
                  /\ \A i \in 1..size : data'[i] \in Bytes
  BY <1>1, <1>2, <1>3, GetHolds
<1>5. /\ loaded' \in BOOLEAN /\ canLoad' \in BOOLEAN /\ (loaded' \/ ~canLoad')
      /\ canLoad /\ InStream(file, size, streamSize)
           /\ (have \/ file.nobits \/ ReadWhole(file, size)) => canLoad'
  BY <1>1, <1>2, GetCases
<1>6. Kinds'
  <2>1. Buffer' \in Buffers
    BY <1>1, <1>2, <1>3, <1>4 DEF Kinds, Buffer, Buffers
  <2>2. Held(Buffer)'
    BY <1>1, <1>4 DEF Held, Buffer
  <2>3. QED
    BY <1>1, <1>2, <1>5, <2>1, <2>2 DEF Kinds
<1>7. CASE /\ UNCHANGED <<have, data, dataSize>>
           /\ ~Asked \/ ~InStream(file, size, streamSize) \/ have \/ file.nobits
  <2>1. Source'
    BY <1>1, <1>5, <1>7 DEF SectionInv, Source
  <2>2. Places'
    BY <1>1, <1>7 DEF SectionInv, Places, Lies
  <2>3. Unedited'
    BY <1>1, <1>5, <1>7 DEF SectionInv, Unedited, Asked
  <2>4. QED
    BY <1>1, <1>6, <2>1, <2>2, <2>3 DEF SectionInv, SavesAll
<1>8. CASE /\ Asked /\ ~have /\ ~file.nobits /\ InStream(file, size, streamSize)
           /\ have' = TRUE /\ data' = Read(file, size) /\ dataSize' = size
  <2>1. Source'
    BY <1>1, <1>5, <1>8 DEF SectionInv, Source
  <2>2. Places'
    BY <1>1, <1>8 DEF SectionInv, Places, Lies
  <2>3. Unedited'
    <3>1. ASSUME file # NoFile, ~edited
          PROVE  ReadWhole(file, size)
      <4>1. size = file.size /\ streamSize = Len(file.bytes)
        BY <1>8, <3>1 DEF SectionInv, Unedited
      <4>2. file.offset \in Nat /\ Len(file.bytes) \in Nat
        BY <1>2, <3>1, SectionsAssumption, LenProperties DEF SectionAssumption
      <4>3. QED
        BY <1>3, <1>8, <4>1, <4>2 DEF InStream, ReadWhole
    <3>2. QED
      BY <1>1, <1>5, <1>8, <3>1 DEF SectionInv, Unedited
  <2>4. QED
    BY <1>1, <1>6, <2>1, <2>2, <2>3 DEF SectionInv, SavesAll
<1>9. CASE /\ Asked /\ ~have /\ ~file.nobits /\ InStream(file, size, streamSize)
           /\ ~ReadWhole(file, size) /\ have' = FALSE /\ data' = <<>> /\ dataSize' = 0
  <2>1. Source'
    BY <1>1, <1>5, <1>9 DEF SectionInv, Source
  <2>2. Places'
    BY <1>1, <1>9 DEF SectionInv, Places, Lies
  <2>3. Unedited'
    <3>1. CASE file # NoFile /\ ~edited
      <4>1. size = file.size /\ streamSize = Len(file.bytes)
        BY <1>9, <3>1 DEF SectionInv, Unedited
      <4>2. file.offset \in Nat /\ Len(file.bytes) \in Nat
        BY <1>2, <3>1, SectionsAssumption, LenProperties DEF SectionAssumption
      <4>3. ReadWhole(file, size)
        BY <1>3, <1>9, <4>1, <4>2 DEF InStream, ReadWhole
      <4>4. QED
        BY <1>9, <4>3
    <3>2. QED
      BY <1>1, <3>1 DEF Unedited
  <2>4. QED
    BY <1>1, <1>6, <2>1, <2>2, <2>3 DEF SectionInv, SavesAll
<1>10. QED
  BY <1>1, <1>2, <1>7, <1>8, <1>9, GetCases

LEMMA FreeStep ==
    ASSUME SectionInv, FreeData
    PROVE  SectionInv'
<1>1. /\ lazy /\ have' = FALSE /\ data' = <<>> /\ loaded' = FALSE
      /\ UNCHANGED <<fresh, file, lazy, size, dataSize, streamSize, canLoad, crashed, written,
                     given, edited>>
  BY DEF FreeData
<1>2. data' \in Seq(Bytes \cup {Junk})
  BY <1>1, EmptySeq
<1>3. Buffer' \in Buffers
  BY <1>1, <1>2, KindFacts DEF SectionInv, Kinds, Buffer, Buffers
<1>4. Kinds'
  BY <1>1, <1>3 DEF SectionInv, Kinds, Held, Buffer
<1>5. file # NoFile /\ lazy' /\ Source'
  BY <1>1 DEF SectionInv, Source
<1>6. Places' /\ SavesAll'
  BY <1>1 DEF Places, SavesAll
<1>7. Unedited'
  BY <1>1 DEF SectionInv, Unedited
<1>8. QED
  BY <1>4, <1>5, <1>6, <1>7 DEF SectionInv

-----------------------------------------------------------------------------
LEMMA NoFileHasBits == ~NoFile.nobits
  BY DEF NoFile

LEMMA SetStep ==
    ASSUME SectionInv, NEW s \in Inputs, SetData(s)
    PROVE  SectionInv'
<1>1. /\ fresh' = FALSE /\ given' = {} /\ edited' = TRUE
      /\ size' = dataSize' /\ streamSize' = dataSize'
      /\ UNCHANGED <<file, lazy, loaded, canLoad, crashed, written>>
      /\ file.nobits => UNCHANGED <<have, data, dataSize>>
      /\ ~file.nobits => have' = TRUE /\ data' = s /\ dataSize' = Len(s)
  BY DEF SetData
<1>2. /\ s \in Seq(Bytes \cup {Junk}) /\ Len(s) \in Nat /\ \A i \in 1..Len(s) : s[i] \in Bytes
  <2>1. s \in Seq(Bytes)
    BY SectionsAssumption DEF SectionAssumption
  <2>2. s \in Seq(Bytes \cup {Junk})
    BY <2>1, SeqMonotonic, Bytes \subseteq Bytes \cup {Junk}
  <2>3. QED
    BY <2>1, <2>2, LenProperties, ElementOfSeq
<1>3. file.nobits => ~have
  BY NoFileHasBits DEF SectionInv, Source
<1>4. Buffer' \in Buffers /\ Held(Buffer)'
  <2>1. CASE file.nobits
    <3>1. Kinds
      BY DEF SectionInv
    <3>2. /\ dataSize \in Nat /\ have \in BOOLEAN /\ data \in Seq(Bytes \cup {Junk})
          /\ crashed = FALSE
      BY <3>1, KindFacts DEF Kinds, Buffer, Buffers
    <3>3. Buffer' \in Buffers
      BY <1>1, <2>1, <3>2 DEF Buffer, Buffers
    <3>4. QED
      BY <1>1, <1>3, <2>1, <3>3 DEF Held, Buffer
  <2>2. CASE ~file.nobits
    <3>1. crashed' = FALSE
      BY <1>1 DEF SectionInv, Kinds, Buffer, Buffers
    <3>2. Buffer' \in Buffers
      BY <1>1, <1>2, <2>2, <3>1 DEF Buffer, Buffers
    <3>3. QED
      BY <1>1, <1>2, <2>2, <3>2 DEF Held, Buffer
  <2>3. QED
    BY <2>1, <2>2
<1>5. Kinds'
  BY <1>1, <1>4 DEF SectionInv, Kinds
<1>6. Source'
  BY <1>1, NoFileHasBits DEF SectionInv, Source
<1>7. Places' /\ Unedited' /\ SavesAll'
  BY <1>1 DEF SectionInv, Places, Unedited, SavesAll
<1>8. QED
  BY <1>5, <1>6, <1>7 DEF SectionInv

\* The buffer an edit finds, when callers read first, can be opened.
LEMMA EditFindsReady ==
    ASSUME ReadFirst, SectionInv, MayEdit, ~file.nobits
    PROVE  Ready(Buffer)
<1>1. Buffer \in Buffers /\ Held(Buffer) /\ ~crashed
  BY DEF SectionInv, Kinds
<1>2. ~have => size = 0 /\ dataSize = 0
  BY DEF SectionInv, Source, MayEdit
<1>3. QED
  BY <1>1, <1>2 DEF Ready, Buffer

LEMMA UseFacts ==
    ASSUME NEW b, Ready(b), Use(b)
    PROVE  Buffer' = b
<1>1. b = [size |-> b.size, have |-> b.have, data |-> b.data, dataSize |-> b.dataSize,
           streamSize |-> b.streamSize, crashed |-> b.crashed]
  BY DEF Ready, Buffers
<1>2. QED
  BY <1>1 DEF Use, Buffer

\* An edit that ends in a sound buffer keeps the invariant, if it keeps the
\* strings that are still given out.
LEMMA EditStep ==
    ASSUME ReadFirst, SectionInv, ~file.nobits, NEW b, Ready(b), Use(b),
           fresh' = FALSE, edited' = TRUE, UNCHANGED <<file, lazy, loaded, canLoad, written>>,
           Places'
    PROVE  SectionInv'
<1>1. Buffer' = b
  BY UseFacts
<1>2. /\ size' = b.size /\ have' = b.have /\ dataSize' = b.dataSize /\ crashed' = b.crashed
  BY DEF Use
<1>3. Kinds'
  BY <1>1, <1>2 DEF SectionInv, Kinds, Ready
<1>4. Source'
  BY <1>2 DEF SectionInv, Source, Ready
<1>5. Unedited' /\ SavesAll'
  BY DEF SectionInv, Unedited, SavesAll
<1>6. QED
  BY <1>3, <1>4, <1>5 DEF SectionInv

LEMMA InsertStep ==
    ASSUME ReadFirst, SectionInv, NEW s \in Inputs, NEW pos \in 0..size, Insert(pos, s)
    PROVE  SectionInv'
<1>1. /\ MayEdit /\ ~file.nobits /\ Use(Inserted(Buffer, pos, s))
      /\ fresh' = FALSE /\ given' = {} /\ edited' = TRUE
      /\ UNCHANGED <<file, lazy, loaded, canLoad, written>>
  BY DEF Insert
<1>2. s \in Seq(Bytes) /\ pos \in 0..Buffer.size
  BY SectionsAssumption DEF SectionAssumption, Buffer
<1>3. Ready(Inserted(Buffer, pos, s))
  BY <1>1, <1>2, EditFindsReady, InsertedFacts
<1>4. Places'
  BY <1>1 DEF Places
<1>5. QED
  BY <1>1, <1>3, <1>4, EditStep

\* A section that has no bytes gets an empty string first.
LEMMA BegunFacts ==
    ASSUME ReadFirst, SectionInv, MayEdit, ~file.nobits
    PROVE  /\ Ready(Begun) /\ Begun.size = PlaceOf /\ (have => Begun.have)
           /\ size \in Nat /\ size <= Begun.size /\ \A i \in 1..size : Begun.data[i] = data[i]
           /\ size = 0 => Begun.data[1] = Zero
<1>1. Ready(Buffer) /\ Buffer.size = size /\ Buffer.data = data /\ Buffer.have = have
  BY EditFindsReady DEF Buffer
<1>2. size \in Nat
  BY <1>1 DEF Ready, Buffers
<1>3. CASE size = 0
  <2>1. <<Zero>> \in Seq(Bytes) /\ Len(<<Zero>>) = 1 /\ <<Zero>>[1] = Zero
    BY SectionsAssumption DEF SectionAssumption
  <2>2. 0 \in 0..Buffer.size
    BY <1>1, <1>2
  <2> DEFINE b == Inserted(Buffer, 0, <<Zero>>)
             z == <<Zero>>
  <2> HIDE DEF z
  <2>3. /\ Ready(b) /\ b.size = Buffer.size + Len(z) /\ (Buffer.have => b.have)
        /\ \A i \in 1..(Buffer.size + Len(z)) : b.data[i] =
             IF i <= 0 THEN Buffer.data[i]
             ELSE IF i <= 0 + Len(z) THEN z[i - 0] ELSE Buffer.data[i - Len(z)]
    BY <1>1, <2>1, <2>2, InsertedFacts DEF z
  <2>4. Len(z) = 1 /\ z[1] = Zero /\ Begun = b
    BY <1>3, <2>1 DEF Begun, z
  <2> HIDE DEF b
  <2>5. b.size = 1 /\ b.data[1] = Zero
    BY <1>1, <1>3, <2>3, <2>4
  <2>6. QED
    BY <1>1, <1>3, <2>3, <2>4, <2>5 DEF PlaceOf
<1>4. CASE size # 0
  BY <1>1, <1>2, <1>4 DEF Begun, PlaceOf
<1>5. QED
  BY <1>3, <1>4

\* A word with its zero byte.
LEMMA WordFacts ==
    ASSUME NEW w \in Words
    PROVE  /\ Len(w) \in Nat /\ w \o <<Zero>> \in Seq(Bytes)
           /\ Len(w \o <<Zero>>) = Len(w) + 1 /\ (w \o <<Zero>>)[Len(w) + 1] = Zero
           /\ \A i \in 1..Len(w) : (w \o <<Zero>>)[i] = w[i] /\ w[i] # Zero /\ w[i] \in Bytes
           /\ w \in Seq(Bytes)
<1>1. w \in Seq(Bytes \ {Zero}) /\ <<Zero>> \in Seq(Bytes) /\ Len(<<Zero>>) = 1 /\ <<Zero>>[1] = Zero
  BY SectionsAssumption DEF SectionAssumption
<1>2. w \in Seq(Bytes)
  BY <1>1, SeqMonotonic, Bytes \ {Zero} \subseteq Bytes
<1>3. Len(w) \in Nat /\ \A i \in 1..Len(w) : w[i] \in Bytes \ {Zero}
  BY <1>1, LenProperties, ElementOfSeq
<1>4. /\ w \o <<Zero>> \in Seq(Bytes) /\ Len(w \o <<Zero>>) = Len(w) + 1
      /\ \A i \in 1..(Len(w) + 1) :
           (w \o <<Zero>>)[i] = IF i <= Len(w) THEN w[i] ELSE <<Zero>>[i - Len(w)]
  BY <1>1, <1>2, ConcatProperties
<1>5. QED
  BY <1>1, <1>2, <1>3, <1>4

LEMMA StringStep ==
    ASSUME ReadFirst, SectionInv, NEW w \in Words, AddString(w)
    PROVE  SectionInv'
<1>1. /\ MayEdit /\ ~file.nobits /\ fresh' = FALSE /\ edited' = TRUE
      /\ UNCHANGED <<file, lazy, loaded, canLoad, written>>
  BY DEF AddString
<1>2. /\ Ready(Begun) /\ Begun.size = PlaceOf /\ (have => Begun.have)
      /\ size \in Nat /\ size <= Begun.size /\ \A i \in 1..size : Begun.data[i] = data[i]
  BY <1>1, BegunFacts
<1>3. \A g \in given : ~lazy => Lies(g[1], g[2])
  BY DEF SectionInv, Places
<1>4. CASE Use(Begun) /\ UNCHANGED given
  <2>1. size' = Begun.size /\ have' = Begun.have /\ data' = Begun.data
    BY <1>4 DEF Use
  <2>2. Begun.size \in Nat
    BY <1>2 DEF Ready, Buffers
  <2>3. ASSUME NEW p, NEW v, Lies(p, v)
        PROVE  Lies(p, v)'
    <3>1. Len(v) \in Nat
      BY <2>3, WordFacts DEF Lies
    <3>2. QED
      BY <1>2, <2>1, <2>2, <2>3, <3>1 DEF Lies
  <2>4. Places'
    BY <1>1, <1>3, <1>4, <2>3 DEF Places
  <2>5. QED
    BY <1>1, <1>2, <1>4, <2>4, EditStep
<1>5. CASE /\ Use(Inserted(Begun, Begun.size, w \o <<Zero>>))
           /\ given' = given \cup {<<PlaceOf, w>>}
  <2> DEFINE s == w \o <<Zero>>
             b == Inserted(Begun, Begun.size, s)
             n == Len(w)
  <2>1. /\ n \in Nat /\ s \in Seq(Bytes) /\ Len(s) = n + 1 /\ s[n + 1] = Zero
        /\ \A i \in 1..n : s[i] = w[i]
    BY WordFacts
  <2>2. Begun.size \in Nat /\ Begun.size \in 0..Begun.size
    BY <1>2 DEF Ready, Buffers
  <2> HIDE DEF s
  <2>3. /\ Ready(b) /\ b.size = Begun.size + n + 1
        /\ \A i \in 1..(Begun.size + n + 1) : b.data[i] =
             IF i <= Begun.size THEN Begun.data[i] ELSE s[i - Begun.size]
    <3>1. /\ Ready(b) /\ b.size = Begun.size + Len(s)
          /\ \A i \in 1..(Begun.size + Len(s)) : b.data[i] =
               IF i <= Begun.size THEN Begun.data[i]
               ELSE IF i <= Begun.size + Len(s) THEN s[i - Begun.size] ELSE Begun.data[i - Len(s)]
      BY <1>2, <2>1, <2>2, InsertedFacts
    <3>2. QED
      BY <2>1, <2>2, <3>1
  <2>4. size' = b.size /\ have' = b.have /\ data' = b.data
    BY <1>5 DEF Use, s
  <2>5. have'
    BY <2>1, <2>2, <2>3, <2>4 DEF Ready
  <2> HIDE DEF b
  <2>6. ASSUME NEW i \in 1..size
        PROVE  data'[i] = data[i]
    <3>1. i \in 1..Begun.size /\ i \in 1..(Begun.size + n + 1) /\ i <= Begun.size
      BY <1>2, <2>1, <2>2
    <3>2. b.data[i] = Begun.data[i]
      BY <2>3, <3>1
    <3>3. QED
      BY <1>2, <2>4, <3>2
  <2>7. ASSUME NEW p, NEW v, Lies(p, v)
        PROVE  Lies(p, v)'
    <3>1. Len(v) \in Nat
      BY <2>7, WordFacts DEF Lies
    <3>2. size' \in Nat /\ size <= size'
      BY <1>2, <2>1, <2>2, <2>3, <2>4
    <3>3. QED
      BY <1>2, <2>5, <2>6, <2>7, <3>1, <3>2 DEF Lies
  <2>8. ASSUME NEW p, p = PlaceOf
        PROVE  Lies(p, w)'
    <3>0. ASSUME NEW i \in 1..(n + 1)
          PROVE  data'[Begun.size + i] = s[i]
      <4> DEFINE k == Begun.size + i
      <4>1. k \in 1..(Begun.size + n + 1) /\ ~(k <= Begun.size) /\ k - Begun.size = i
        BY <2>1, <2>2, <3>0
      <4> HIDE DEF k
      <4>2. data'[k] = s[k - Begun.size]
        BY <2>3, <2>4, <4>1
      <4>3. data'[k] = s[i]
        BY <4>1, <4>2
      <4>4. QED
        BY <4>3 DEF k
    <3>1. p = Begun.size /\ p \in Nat /\ size' = p + n + 1
      BY <1>2, <2>2, <2>3, <2>4, <2>8
    <3>2. \A i \in 1..n : data'[p + i] = w[i]
      <4> SUFFICES ASSUME NEW i \in 1..n PROVE data'[p + i] = w[i]
        OBVIOUS
      <4>1. i \in 1..(n + 1)
        BY <2>1
      <4>2. data'[Begun.size + i] = s[i]
        BY <3>0, <4>1
      <4>3. s[i] = w[i]
        BY <2>1
      <4>4. QED
        BY <3>1, <4>2, <4>3
    <3>3. data'[p + n + 1] = Zero
      <4> DEFINE m == n + 1
      <4>1. m \in 1..(n + 1) /\ s[m] = Zero
        BY <2>1
      <4>2. Begun.size + m = p + n + 1
        BY <2>1, <2>2, <3>1
      <4> HIDE DEF m
      <4>3. data'[Begun.size + m] = s[m]
        BY <3>0, <4>1
      <4>4. data'[p + n + 1] = s[m]
        BY <4>2, <4>3
      <4>5. QED
        BY <4>1, <4>4
    <3>4. QED
      BY <2>1, <2>5, <3>1, <3>2, <3>3 DEF Lies
  <2>9. Places'
    <3>1. ASSUME NEW g \in given', ~lazy
          PROVE  Lies(g[1], g[2])'
      <4>1. CASE g \in given
        BY <1>3, <2>7, <3>1, <4>1
      <4>2. CASE g = <<PlaceOf, w>>
        BY <2>8, <4>2
      <4>3. QED
        BY <1>5, <4>1, <4>2
    <3>2. QED
      BY <1>1, <3>1 DEF Places
  <2>10. QED
    BY <1>1, <1>5, <2>3, <2>9, EditStep DEF b, s
<1>6. QED
  BY <1>4, <1>5 DEF AddString

\* What save() writes of a section that is not lazy is what callers see.
LEMMA WrittenIsShown ==
    ASSUME SectionInv, ~lazy
    PROVE  Written = Content
<1>1. size \in Nat /\ data \in Seq(Bytes \cup {Junk}) /\ (have => size <= Len(data))
      /\ Len(data) \in Nat
  BY KindFacts DEF SectionInv
<1>2. file.nobits => ~have
  BY NoFileHasBits DEF SectionInv, Source
<1>3. CASE ~have
  BY <1>3 DEF SectionInv, Source, Written, Content, Loadable
<1>4. CASE have /\ size = 0
  BY <1>2, <1>4 DEF Written, Content
<1>5. CASE have /\ size # 0
  <2>1. SubSeq(data, 1, size) = [i \in 1..size |-> data[i]]
    BY <1>1, <1>5
  <2>2. QED
    BY <1>2, <1>5, <2>1 DEF Written, Content
<1>6. QED
  BY <1>3, <1>4, <1>5

LEMMA SaveStep ==
    ASSUME SectionInv, Save
    PROVE  SectionInv'
<1>1. /\ written' = [bytes |-> Written, shown |-> Content]
      /\ UNCHANGED <<fresh, file, lazy, loaded, canLoad, size, have, data, dataSize, streamSize,
                     crashed, given, edited>>
  BY DEF Save, flags, buffer
<1>2. Kinds' /\ Source' /\ Places' /\ Unedited'
  BY <1>1 DEF SectionInv, Kinds, Buffer, Source, Places, Lies, Unedited
<1>3. SavesAll'
  BY <1>1, WrittenIsShown DEF SavesAll
<1>4. QED
  BY <1>2, <1>3 DEF SectionInv

LEMMA SectionStepKeeps ==
    ASSUME ReadFirst
    PROVE  SectionInv /\ [Next]_vars => SectionInv'
<1> SUFFICES ASSUME SectionInv, [Next]_vars PROVE SectionInv'
  OBVIOUS
<1>1. CASE UNCHANGED vars
  <2>1. UNCHANGED <<fresh, file, lazy, loaded, canLoad, size, have, data, dataSize, streamSize,
                    crashed, given, edited, written>>
    BY <1>1 DEF vars, flags, buffer
  <2>2. QED
    BY <2>1 DEF SectionInv, Kinds, Buffer, Source, Places, Lies, Unedited, SavesAll
<1>2. CASE Next
  BY <1>2, LoadStep, GetStep, FreeStep, SetStep, InsertStep, StringStep, SaveStep DEF Next
<1>3. QED
  BY <1>1, <1>2

-----------------------------------------------------------------------------
(* What the invariant says to callers.                                      *)

\* The least place of a zero byte is the one behind the word.
LEMMA WordReadsBack ==
    ASSUME SectionInv, NEW p, NEW w, Lies(p, w)
    PROVE  GetString(p) = [found |-> TRUE, word |-> w]
<1> DEFINE n == Len(w)
           ends == {i \in (p + 1)..size : data[i] = Zero}
           e == p + n + 1
<1>1. /\ n \in Nat /\ w \in Seq(Bytes) /\ \A i \in 1..n : w[i] # Zero
      /\ p \in Nat /\ have /\ p + n + 1 <= size /\ size \in Nat
      /\ data[p + n + 1] = Zero /\ \A i \in 1..n : data[p + i] = w[i]
  BY WordFacts, KindFacts DEF Lies, SectionInv
<1>2. e \in ends
  BY <1>1
<1>3. \A k \in ends : e <= k
  <2> SUFFICES ASSUME NEW k \in ends, k < e PROVE FALSE
    BY <1>1
  <2>1. k - p \in 1..n /\ p + (k - p) = k
    BY <1>1
  <2>2. data[k] = w[k - p] /\ w[k - p] # Zero
    BY <1>1, <2>1
  <2>3. QED
    BY <2>2
<1> DEFINE end == CHOOSE i \in ends : \A k \in ends : i <= k
<1>4. end = e
  <2>1. end \in ends /\ \A k \in ends : end <= k
    BY <1>2, <1>3
  <2>2. \A i \in ends : i \in Int
    BY <1>1
  <2> HIDE DEF end, ends, e
  <2>3. end <= e /\ e <= end /\ end \in Int /\ e \in Int
    BY <1>2, <1>3, <2>1, <2>2
  <2>4. QED
    BY <2>3
<1>5. SubSeq(data, p + 1, e - 1) = w
  <2>1. \A i \in (p + 1)..(e - 1) : data[i] \in Bytes
    <3> SUFFICES ASSUME NEW i \in (p + 1)..(e - 1) PROVE data[i] \in Bytes
      OBVIOUS
    <3>1. i - p \in 1..n /\ p + (i - p) = i
      BY <1>1
    <3>2. data[i] = w[i - p] /\ w[i - p] \in Bytes
      BY <1>1, <3>1, ElementOfSeq
    <3>3. QED
      BY <3>2
  <2> DEFINE t == SubSeq(data, p + 1, e - 1)
  <2>2. /\ t \in Seq(Bytes) /\ Len(t) = n /\ \A i \in 1..n : t[i] = data[p + i]
    <3>1. p + 1 \in Int /\ e - 1 \in Int
      BY <1>1
    <3>2. /\ t \in Seq(Bytes)
          /\ Len(t) = IF p + 1 <= e - 1 THEN e - 1 - (p + 1) + 1 ELSE 0
          /\ \A i \in 1..(e - 1 - (p + 1) + 1) : t[i] = data[p + 1 + i - 1]
      BY <2>1, <3>1, SubSeqProperties
    <3>3. QED
      BY <1>1, <3>2
  <2> HIDE DEF t
  <2>3. t = w
    BY <1>1, <2>2, SeqEqual
  <2>4. QED
    BY <2>3 DEF t
<1>6. ~(p >= size \/ ~have \/ ends = {})
  BY <1>1, <1>2
<1>7. QED
  BY <1>4, <1>5, <1>6 DEF GetString

LEMMA SectionInvMeans ==
    ASSUME SectionInv
    PROVE  TypeOK /\ NoCrash /\ NoJunk /\ StringsStay /\ SavesAll /\ FreeKeeps
<1>1. /\ size \in Nat /\ have \in BOOLEAN /\ dataSize \in Nat /\ streamSize \in Nat
      /\ data \in Seq(Bytes \cup {Junk})
      /\ have => /\ size <= dataSize /\ dataSize <= Len(data)
                 /\ \A i \in 1..size : data[i] \in Bytes
      /\ file \in Files \cup {NoFile}
  BY KindFacts DEF SectionInv, Kinds
<1>2. TypeOK
  <2>1. crashed \in BOOLEAN
    BY DEF SectionInv, Kinds, Buffer, Buffers
  <2>2. QED
    BY <1>1, <2>1 DEF SectionInv, Kinds, TypeOK
<1>3. NoCrash /\ SavesAll
  BY DEF SectionInv, Kinds, NoCrash
<1>4. NoJunk
  <2>0. Junk \notin Bytes
    BY SectionsAssumption DEF SectionAssumption
  <2>1. CASE file.nobits
    BY <2>1 DEF NoJunk, Content
  <2>2. CASE ~file.nobits /\ have
    BY <1>1, <2>0, <2>2 DEF NoJunk, Content
  <2>3. CASE ~file.nobits /\ ~have /\ Loadable
    <3>1. Content = [i \in 1..size |-> Read(file, size)[i]]
      BY <2>3 DEF Content
    <3>2. \A i \in 1..size : Read(file, size)[i] \in Bytes
      BY <1>1, ReadFacts
    <3>3. QED
      BY <2>0, <3>1, <3>2 DEF NoJunk
  <2>4. CASE ~file.nobits /\ ~have /\ ~Loadable
    BY <2>4 DEF NoJunk, Content
  <2>5. QED
    BY <2>1, <2>2, <2>3, <2>4
<1>5. StringsStay
  BY WordReadsBack DEF SectionInv, Places, StringsStay
<1>6. FreeKeeps
  <2> SUFFICES ASSUME file # NoFile, ~edited, ~file.nobits,
                      InStream(file, file.size, Len(file.bytes))
               PROVE  Content = [i \in 1..file.size |-> Read(file, file.size)[i]]
    BY DEF FreeKeeps
  <2>1. size = file.size /\ InStream(file, size, streamSize)
        /\ IF have THEN \A i \in 1..size : data[i] = Read(file, size)[i]
                   ELSE canLoad /\ ~loaded
    BY DEF SectionInv, Unedited
  <2>2. CASE have
    BY <2>1, <2>2 DEF Content
  <2>3. CASE ~have
    BY <2>1, <2>3 DEF Content, Loadable
  <2>4. QED
    BY <2>2, <2>3
<1>7. QED
  BY <1>2, <1>3, <1>4, <1>5, <1>6

-----------------------------------------------------------------------------
(* The refinement: what callers see of a section that is not lazy.          *)

\* A section that is not lazy has its bytes or has none.
LEMMA ContentIs ==
    ASSUME SectionInv, ~lazy
    PROVE  /\ file.nobits \/ ~have => Content = <<>>
           /\ ~file.nobits /\ have => Content = [i \in 1..size |-> data[i]]
           /\ ~file.nobits /\ size = 0 => Content = <<>>
<1>1. ~Loadable
  BY DEF SectionInv, Source, Loadable
<1>2. QED
  BY <1>1 DEF Content

LEMMA ImplementsLoad ==
    ASSUME SectionInv, SectionInv', ~lazy', NEW f \in Files, Load(f, FALSE)
    PROVE  [Abstract!Next]_Content
<1>1. /\ file = NoFile /\ ~have /\ ~lazy /\ Asked /\ loaded \in BOOLEAN /\ canLoad \in BOOLEAN
  BY DEF Load, SectionInv, Source, Kinds, Asked
<1>2. Content = <<>>
  BY <1>1, ContentIs
<1>3. /\ file' = f /\ size' = f.size /\ streamSize' = Len(f.bytes) /\ edited' = edited
      /\ GetWith(f, f.size, Len(f.bytes)) /\ f # NoFile
  BY SectionsAssumption DEF Load, SectionAssumption
<1>4. loaded' \/ ~canLoad'
  BY <1>1, <1>3, GetCases
<1>5. ~have' \/ f.nobits => Content' = <<>>
  BY <1>3, <1>4 DEF Content, Loadable
<1>6. CASE have' /\ ~f.nobits
  <2>1. data' = Read(f, f.size)
    BY <1>1, <1>3, <1>6, GetCases
  <2>2. Content' = [i \in 1..f.size |-> Read(f, f.size)[i]]
    BY <1>3, <1>6, <2>1 DEF Content
  <2>3. Content' \in InFiles
    BY <2>2 DEF InFiles
  <2>4. QED
    BY <2>3 DEF Abstract!Next, Abstract!Set
<1>7. QED
  BY <1>2, <1>5, <1>6

LEMMA ImplementsGet ==
    ASSUME SectionInv, SectionInv', ~lazy', GetData
    PROVE  [Abstract!Next]_Content
<1>1. /\ GetWith(file, size, streamSize) /\ UNCHANGED <<file, lazy, size, streamSize, edited>>
      /\ ~lazy /\ loaded \in BOOLEAN /\ canLoad \in BOOLEAN
  BY DEF GetData, SectionInv, Kinds
<1>2. ~Loadable /\ ~Loadable'
  BY <1>1 DEF SectionInv, Source, Loadable
<1>3. CASE UNCHANGED <<have, data, dataSize>>
  BY <1>1, <1>2, <1>3 DEF Content
<1>4. CASE Asked /\ ~have
  <2>1. size = 0
    BY <1>1, <1>4 DEF SectionInv, Source, Asked
  <2>2. Content = <<>> /\ Content' = <<>>
    BY <1>1, <1>2, <2>1 DEF Content
  <2>3. QED
    BY <2>2
<1>5. QED
  BY <1>1, <1>3, <1>4, GetCases

LEMMA ImplementsSet ==
    ASSUME SectionInv, SectionInv', ~lazy', NEW s \in Inputs, SetData(s)
    PROVE  [Abstract!Next]_Content
<1>1. CASE file.nobits
  BY <1>1 DEF SetData, Content
<1>2. CASE ~file.nobits
  <2>1. s \in Seq(Bytes)
    BY SectionsAssumption DEF SectionAssumption
  <2>2. have' = TRUE /\ data' = s /\ size' = Len(s) /\ ~file'.nobits
    BY <1>2 DEF SetData
  <2>3. Content' = s
    <3>1. s = [i \in 1..Len(s) |-> s[i]]
      BY <2>1
    <3>2. QED
      BY <2>2, <3>1 DEF Content
  <2>4. QED
    BY <2>3 DEF Abstract!Next, Abstract!Set
<1>3. QED
  BY <1>1, <1>2

\* A buffer that was opened shows what there was, opened.
LEMMA ImplementsEdit ==
    ASSUME ReadFirst, SectionInv, ~lazy, MayEdit, ~file.nobits,
           NEW s \in Seq(Bytes), s \in Inputs \cup Strings, NEW pos \in 0..size,
           ~file'.nobits, edited', size' = size + Len(s), have' \/ size' = 0,
           \A i \in 1..(size + Len(s)) : data'[i] =
                IF i <= pos THEN data[i]
                ELSE IF i <= pos + Len(s) THEN s[i - pos] ELSE data[i - Len(s)]
    PROVE  [Abstract!Next]_Content
<1>1. size \in Nat /\ Len(s) \in Nat /\ pos \in Nat /\ pos <= size
  BY KindFacts, LenProperties DEF SectionInv
<1>2. ~have => size = 0
  BY EditFindsReady DEF Ready, Buffer
<1>3. Content = [i \in 1..size |-> data[i]]
  <2>1. CASE have
    BY <2>1, ContentIs
  <2>2. CASE ~have
    BY <1>2, <2>2, ContentIs
  <2>3. QED
    BY <2>1, <2>2
<1>4. Len(Content) = size /\ \A i \in 1..size : Content[i] = data[i]
  BY <1>1, <1>3
<1>5. Content' = [i \in 1..(size + Len(s)) |-> data'[i]]
  BY <1>1 DEF Content, Loadable
<1>6. Content' = Abstract!Spliced(Content, pos, s)
  <2>1. \A i \in 1..(size + Len(s)) :
           data'[i] = IF i <= pos THEN Content[i]
                      ELSE IF i <= pos + Len(s) THEN s[i - pos] ELSE Content[i - Len(s)]
    <3> SUFFICES ASSUME NEW i \in 1..(size + Len(s))
                 PROVE  data'[i] = IF i <= pos THEN Content[i]
                          ELSE IF i <= pos + Len(s) THEN s[i - pos] ELSE Content[i - Len(s)]
      OBVIOUS
    <3>1. i <= pos => i \in 1..size
      BY <1>1
    <3>2. ~(i <= pos + Len(s)) => i - Len(s) \in 1..size
      BY <1>1
    <3>3. QED
      BY <1>4, <3>1, <3>2
  <2>2. QED
    BY <1>4, <1>5, <2>1 DEF Abstract!Spliced
<1>7. pos \in 0..Len(Content)
  BY <1>4
<1>8. QED
  BY <1>6, <1>7 DEF Abstract!Next, Abstract!Insert

LEMMA ImplementsInsert ==
    ASSUME ReadFirst, SectionInv, ~lazy', NEW s \in Inputs, NEW pos \in 0..size, Insert(pos, s)
    PROVE  [Abstract!Next]_Content
<1>1. /\ MayEdit /\ ~file.nobits /\ Use(Inserted(Buffer, pos, s)) /\ edited' = TRUE
      /\ UNCHANGED <<file, lazy>>
  BY DEF Insert
<1>2. s \in Seq(Bytes) /\ Ready(Buffer) /\ Buffer.size = size /\ Buffer.data = data
  BY <1>1, EditFindsReady, SectionsAssumption DEF SectionAssumption, Buffer
<1> DEFINE b == Inserted(Buffer, pos, s)
<1>3. /\ Ready(b) /\ b.size = size + Len(s)
      /\ \A i \in 1..(size + Len(s)) : b.data[i] =
           IF i <= pos THEN data[i] ELSE IF i <= pos + Len(s) THEN s[i - pos] ELSE data[i - Len(s)]
  BY <1>2, InsertedFacts
<1>4. size' = b.size /\ have' = b.have /\ data' = b.data
  BY <1>1 DEF Use
<1>5. have' \/ size' = 0
  BY <1>3, <1>4 DEF Ready
<1> HIDE DEF b
<1>6. QED
  BY <1>1, <1>2, <1>3, <1>4, <1>5, ImplementsEdit

\* A string's zero byte, its word with it, and both behind the empty string.
LEMMA ImplementsString ==
    ASSUME ReadFirst, SectionInv, ~lazy', NEW w \in Words, AddString(w)
    PROVE  [Abstract!Next]_Content
<1>1. /\ MayEdit /\ ~file.nobits /\ edited' = TRUE /\ ~lazy /\ UNCHANGED <<file, lazy>>
  BY DEF AddString
<1>2. /\ Ready(Begun) /\ Begun.size = PlaceOf /\ (have => Begun.have)
      /\ size \in Nat /\ size <= Begun.size /\ \A i \in 1..size : Begun.data[i] = data[i]
      /\ size = 0 => Begun.data[1] = Zero
  BY <1>1, BegunFacts
<1>3. /\ <<Zero>> \in Seq(Bytes) /\ Len(<<Zero>>) = 1 /\ <<Zero>>[1] = Zero
      /\ 0 \in 0..size /\ size \in 0..size
  BY <1>2, SectionsAssumption DEF SectionAssumption
<1> DEFINE v == w \o <<Zero>>
           n == Len(w)
           u == <<Zero>> \o v
<1>4. /\ n \in Nat /\ v \in Seq(Bytes) /\ Len(v) = n + 1
  BY WordFacts
<1>5. /\ u \in Seq(Bytes) /\ Len(u) = n + 2 /\ u[1] = Zero
      /\ \A i \in 2..(n + 2) : u[i] = v[i - 1]
  <2> HIDE DEF v
  <2>1. /\ u \in Seq(Bytes) /\ Len(u) = 1 + Len(v)
        /\ \A i \in 1..(1 + Len(v)) : u[i] = IF i <= 1 THEN <<Zero>>[i] ELSE v[i - 1]
    BY <1>3, <1>4, ConcatProperties
  <2>2. QED
    BY <1>3, <1>4, <2>1
<1>6. v \in Strings /\ <<Zero>> \in Strings
  BY DEF Strings
<1>7. u \in Strings
  <2>1. u = <<Zero>> \o w \o <<Zero>>
    BY <1>3, <1>4, WordFacts, ConcatAssociative
  <2>2. QED
    BY <2>1 DEF Strings
<1> HIDE DEF u, v
<1>8. CASE Use(Begun)
  <2>1. size' = Begun.size /\ have' = Begun.have /\ data' = Begun.data
    BY <1>8 DEF Use
  <2>2. CASE size = 0
    <3>1. /\ size' = size + 1 /\ have' /\ data'[1] = Zero
      BY <1>2, <2>1, <2>2 DEF PlaceOf, Ready
    <3> DEFINE z == <<Zero>>
    <3> HIDE DEF z
    <3>2. z \in Seq(Bytes) /\ Len(z) = 1 /\ z[1] = Zero /\ z \in Strings
      BY <1>3, <1>6 DEF z
    <3>3. \A i \in 1..(size + Len(z)) : data'[i] =
            IF i <= 0 THEN data[i] ELSE IF i <= 0 + Len(z) THEN z[i - 0] ELSE data[i - Len(z)]
      BY <2>2, <3>1, <3>2
    <3>4. 0 \in 0..size /\ size' = size + Len(z) /\ ~file'.nobits
      BY <1>1, <1>3, <3>1, <3>2
    <3>5. QED
      BY <1>1, <3>1, <3>2, <3>3, <3>4, ImplementsEdit
  <2>3. CASE size # 0
    <3>1. size' = size /\ have' = have /\ data' = data
      BY <2>1, <2>3 DEF Begun, Buffer
    <3>2. have
      BY <1>1, <2>3, EditFindsReady DEF Ready, Buffer
    <3>3. QED
      BY <1>1, <3>1, <3>2 DEF Content
  <2>4. QED
    BY <2>2, <2>3
<1>9. CASE Use(Inserted(Begun, Begun.size, v))
  <2> DEFINE b == Inserted(Begun, Begun.size, v)
  <2>1. Begun.size \in Nat /\ Begun.size \in 0..Begun.size
    BY <1>2 DEF Ready, Buffers
  <2>2. /\ Ready(b) /\ b.size = Begun.size + n + 1
        /\ \A i \in 1..(Begun.size + n + 1) : b.data[i] =
             IF i <= Begun.size THEN Begun.data[i] ELSE v[i - Begun.size]
    <3>1. /\ Ready(b) /\ b.size = Begun.size + Len(v)
          /\ \A i \in 1..(Begun.size + Len(v)) : b.data[i] =
               IF i <= Begun.size THEN Begun.data[i]
               ELSE IF i <= Begun.size + Len(v) THEN v[i - Begun.size] ELSE Begun.data[i - Len(v)]
      BY <1>2, <1>4, <2>1, InsertedFacts
    <3>2. QED
      BY <1>4, <2>1, <3>1
  <2>3. size' = b.size /\ have' = b.have /\ data' = b.data
    BY <1>9 DEF Use
  <2>4. have'
    BY <1>4, <2>1, <2>2, <2>3 DEF Ready
  <2> HIDE DEF b
  <2>5. CASE size = 0
    <3>1. Begun.size = 1 /\ Begun.data[1] = Zero
      BY <1>2, <2>5 DEF PlaceOf
    <3>2. size' = size + Len(u) /\ \A i \in 1..(n + 2) : data'[i] = u[i]
      BY <1>4, <1>5, <2>2, <2>3, <2>5, <3>1
    <3>3. QED
      BY <1>1, <1>3, <1>4, <1>5, <1>7, <2>4, <2>5, <3>2, ImplementsEdit
  <2>6. CASE size # 0
    <3>1. Begun.size = size
      BY <1>2, <2>6 DEF PlaceOf
    <3>2. /\ size' = size + Len(v)
          /\ \A i \in 1..(size + Len(v)) : data'[i] =
               IF i <= size THEN data[i]
               ELSE IF i <= size + Len(v) THEN v[i - size] ELSE data[i - Len(v)]
      BY <1>2, <1>4, <2>2, <2>3, <3>1
    <3>3. QED
      BY <1>1, <1>3, <1>4, <1>6, <2>4, <3>2, ImplementsEdit
  <2>7. QED
    BY <2>5, <2>6
<1>10. QED
  BY <1>8, <1>9 DEF AddString, v

LEMMA SectionRefines ==
    ASSUME ReadFirst, SectionInv, SectionInv', Next, ~lazy'
    PROVE  [Abstract!Next]_Content
<1>1. ASSUME NEW f \in Files, NEW lazily \in BOOLEAN, Load(f, lazily)
      PROVE  [Abstract!Next]_Content
  <2>1. lazily = FALSE
    BY <1>1 DEF Load
  <2>2. QED
    BY <1>1, <2>1, ImplementsLoad
<1>2. CASE FreeData
  BY <1>2 DEF FreeData
<1>3. CASE Save
  BY <1>3 DEF Save, Content, Loadable, flags, buffer
<1>4. QED
  BY <1>1, <1>2, <1>3, ImplementsGet, ImplementsSet, ImplementsInsert, ImplementsString DEF Next

-----------------------------------------------------------------------------
(* The theorems about sections.                                             *)

LEMMA SectionAlways ==
    ASSUME ReadFirst
    PROVE  DataSpec => []SectionInv
<1>1. DataInit => SectionInv
  BY SectionStarts DEF DataInit
<1>2. [DataNext]_dataVars => [Next]_vars
  BY DEF DataNext, SectionStep, ObjectStep, ArchiveStep, TableStep, dataVars
<1>3. SectionInv /\ [DataNext]_dataVars => SectionInv'
  BY <1>2, SectionStepKeeps
<1>4. QED
  BY <1>1, <1>3, PTL DEF DataSpec

(* What callers see of a section, loaded at once or lazily, is bytes        *)
(* somebody gave it; strings keep their places, save() writes what is seen, *)
(* what nobody edited comes back from the file, and no edit copies through  *)
(* the null pointer, as long as callers look at what they loaded before     *)
(* they edit it (elfio_section.hpp 232-372, elfio_strings.hpp).             *)
THEOREM SectionIsKept ==
    ASSUME ReadFirst
    PROVE  DataSpec => []SectionKept
<1>1. SectionInv => SectionKept
  BY SectionInvMeans DEF SectionKept
<1>2. QED
  BY <1>1, SectionAlways, PTL

(* A section that is not lazy is a string of bytes that is set and opened   *)
(* at places, whatever its buffer does (elfio_section.hpp 262-372).         *)
THEOREM SectionRefinesBytes ==
    ASSUME ReadFirst
    PROVE  DataSpec => SectionImplements
<1>1. DataInit => Abstract!Init
  BY NoFileHasBits DEF DataInit, Init, Content, Loadable, Abstract!Init
<1>2. SectionInv /\ SectionInv' /\ [DataNext]_dataVars
        => [part = "section" /\ ~lazy' => [Abstract!Next]_Content]_dataVars
  <2> SUFFICES ASSUME SectionInv, SectionInv', DataNext, part = "section", ~lazy'
               PROVE  [Abstract!Next]_Content
    OBVIOUS
  <2>1. Next
    BY DEF DataNext, SectionStep, ObjectStep, ArchiveStep, TableStep
  <2>2. QED
    BY <2>1, SectionRefines
<1>3. QED
  BY <1>1, <1>2, SectionAlways, PTL DEF DataSpec, SectionImplements

-----------------------------------------------------------------------------
(* Objects.  Finite sets of ElfObject are those of FiniteSets.              *)

LEMMA ObjectFinite == ASSUME NEW S PROVE Object!IsFiniteSet(S) <=> IsFiniteSet(S)
BY DEF Object!IsFiniteSet, IsFiniteSet

LEMMA ObjectCardinality == ASSUME NEW S PROVE Object!Cardinality(S) = Cardinality(S)
BY Zenon DEF Object!Cardinality, Cardinality

LEMMA ObjectConstants ==
    /\ IsFiniteSet(Objs) /\ NoStream \notin [id : Nat, file : DiskFiles]
    /\ Disk = [f \in DiskFiles |-> Disk[f]]
    /\ \A f \in DiskFiles : Disk[f] # Missing => Object!SoundFile(Disk[f])
    /\ LazyModes \subseteq BOOLEAN /\ MaxParts \in Nat /\ MaxSaves \in Nat
<1>1. Object!ObjectAssumption
  BY ObjectsAssumption
<1>2. Object!IsFiniteSet(Objs) => IsFiniteSet(Objs)
  BY ObjectFinite
<1>3. QED
  BY <1>1, <1>2 DEF Object!ObjectAssumption

\* What a function takes finitely many things to is finite.
LEMMA FiniteImage ==
    ASSUME NEW f, IsFiniteSet(DOMAIN f)
    PROVE  IsFiniteSet({f[x] : x \in DOMAIN f})
<1> DEFINE g == [x \in DOMAIN f |-> f[x]]
<1>1. g \in Surjection(DOMAIN f, {f[x] : x \in DOMAIN f})
  BY DEF Surjection
<1>2. QED
  BY <1>1, FS_Surjection

\* Every set of numbers has a least one.
LEMMA LeastNumber ==
    ASSUME NEW S \in SUBSET Nat, S # {}
    PROVE  \E m \in S : \A k \in S : m <= k
<1> DEFINE R == OpToRel(<, Nat)
<1>1. IsWellFoundedOn(R, Nat)
  BY NatLessThanWellFounded
<1>2. \A x, y \in Nat : <<y, x>> \in R <=> y < x
  BY DEF OpToRel
<1> HIDE DEF R
<1>3. PICK m \in S : \A k \in S : ~(<<k, m>> \in R)
  BY <1>1, WFMin
<1>4. \A k \in S : ~(k < m)
  BY <1>2, <1>3
<1>5. \A k \in S : m <= k
  BY <1>4
<1>6. QED
  BY <1>5

\* What there is room for: the bytes of finitely many sections.
LEMMA RoomFacts ==
    ASSUME NEW secs, NEW S, IsFiniteSet(S), \A i \in S : secs[i].size \in Nat
    PROVE  /\ Object!Room(secs, S) \in Nat
           /\ Object!Room(secs, S) = 0 => \A i \in S : secs[i].size = 0
           /\ \A T \in SUBSET S : \A i \in S \ T :
                secs[i].size > 0 => Object!Room(secs, T) < Object!Room(secs, S)
<1> DEFINE Of(i) == {i} \X (1..secs[i].size)
           Bytes1(T) == UNION {Of(i) : i \in T}
<1>1. IsFiniteSet(Bytes1(S))
  <2> DEFINE F == {Of(i) : i \in S}
             f == [i \in S |-> Of(i)]
  <2>1. F = {f[i] : i \in DOMAIN f} /\ DOMAIN f = S
    OBVIOUS
  <2>2. IsFiniteSet(F)
    BY <2>1, FiniteImage
  <2>3. ASSUME NEW T \in F PROVE IsFiniteSet(T)
    <3>1. PICK i \in S : T = {i} \X (1..secs[i].size)
      OBVIOUS
    <3>2. IsFiniteSet({i})
      BY FS_Singleton
    <3>3. IsFiniteSet(1..secs[i].size)
      BY FS_Interval
    <3>4. QED
      BY <3>1, <3>2, <3>3, FS_Product
  <2>4. QED
    BY <2>2, <2>3, FS_UNION
<1>2. \A T \in SUBSET S : /\ Object!Room(secs, T) = Cardinality(Bytes1(T))
                          /\ Bytes1(T) \subseteq Bytes1(S)
  BY ObjectCardinality DEF Object!Room
<1>3. \A i \in S : secs[i].size > 0 => <<i, 1>> \in Of(i)
  OBVIOUS
<1>4. Cardinality(Bytes1(S)) \in Nat
  BY <1>1, FS_CardinalityType
<1>5. Cardinality(Bytes1(S)) = 0 => Bytes1(S) = {}
  BY <1>1, FS_EmptySet
<1>6. ASSUME NEW T \in SUBSET S, NEW i \in S \ T, secs[i].size > 0
      PROVE  Cardinality(Bytes1(T)) < Cardinality(Bytes1(S))
  <2>1. <<i, 1>> \in Bytes1(S) /\ <<i, 1>> \notin Bytes1(T)
    BY <1>3, <1>6
  <2>2. Bytes1(T) \in SUBSET Bytes1(S) /\ Bytes1(T) # Bytes1(S)
    BY <1>2, <2>1
  <2> HIDE DEF Bytes1
  <2>3. /\ IsFiniteSet(Bytes1(T)) /\ Cardinality(Bytes1(T)) <= Cardinality(Bytes1(S))
        /\ Cardinality(Bytes1(S)) # Cardinality(Bytes1(T))
    BY <1>1, <2>2, FS_Subset
  <2>4. Cardinality(Bytes1(T)) \in Nat
    BY <2>3, FS_CardinalityType
  <2>5. QED
    BY <1>4, <2>3, <2>4
<1>7. ASSUME Bytes1(S) = {}, NEW i \in S PROVE secs[i].size = 0
  <2>1. <<i, 1>> \in Of(i) => <<i, 1>> \in Bytes1(S)
    OBVIOUS
  <2>2. ~(secs[i].size > 0)
    BY <1>3, <1>7, <2>1
  <2>3. QED
    BY <2>2
<1> HIDE DEF Bytes1
<1>8. QED
  BY <1>2, <1>4, <1>5, <1>6, <1>7

-----------------------------------------------------------------------------
(* Sections, segments and objects, and what holds of them.                  *)

SecT == [off : Nat, size : Nat, bytes : Texts, loaded : BOOLEAN, can : BOOLEAN,
         lazy : BOOLEAN, src : Nat, ssize : Nat, meant : Texts]
SegT == [off : Nat, size : Nat, bytes : Texts, loaded : BOOLEAN, lazy : BOOLEAN,
         src : Nat, ssize : Nat, list : Seq(Nat)]
OwnT == {NoStream} \cup [id : Nat, file : DiskFiles]
Risks == {"stream", "names"}
ObjT == [alive : BOOLEAN, header : BOOLEAN, parts : BOOLEAN, names : BOOLEAN,
         secs : Seq(SecT), segs : Seq(SegT), own : OwnT, risk : SUBSET Risks]

\* The content c has a place that s was taken from.
FromPlace(s, c) ==
    \E i \in DOMAIN c.secs : c.secs[i].off = s.off /\ c.secs[i].size = s.size
                             /\ c.secs[i].bytes = s.meant

(* A section shows what the file held; without a stream it needs none any   *)
(* more, with one it is that of its object, whose file still has its place. *)
SecFine(s, own, files) ==
    /\ s.bytes \in {"none", "empty", s.meant}
    /\ ~s.lazy => s.bytes # "none" \/ s.size = 0 \/ s.loaded \/ ~s.can
    /\ s.lazy => /\ own # NoStream /\ s.src = own.id
                 /\ files[own.file] # Missing /\ FromPlace(s, files[own.file])

ListFits(g, secs) == \A k \in DOMAIN g.list : g.list[k] \in DOMAIN secs

SegFine(g, secs, own) ==
    /\ ~g.lazy /\ ~g.loaded => g.size = 0 /\ \A k \in DOMAIN g.list : secs[g.list[k]].size = 0
    /\ g.lazy => own # NoStream /\ g.src = own.id

OneSource(secs) ==
    \A i, k \in DOMAIN secs : secs[i].src # 0 /\ secs[k].src # 0 => secs[i].src = secs[k].src

\* What holds of an object whatever was done to it.
Shaped(ob) ==
    /\ ob \in ObjT
    /\ ob.header => ob.parts
    /\ ob.names => ob.header
    /\ ob.parts => ob.names \/ "names" \in ob.risk
    /\ \A g \in DOMAIN ob.segs : ListFits(ob.segs[g], ob.secs)
    /\ OneSource(ob.secs)

\* And its parts, unless they may have lost their stream or their place.
Fine(ob, files) ==
    /\ Shaped(ob)
    /\ "stream" \notin ob.risk =>
         /\ \A i \in DOMAIN ob.secs : SecFine(ob.secs[i], ob.own, files)
         /\ \A g \in DOMAIN ob.segs : SegFine(ob.segs[g], ob.secs, ob.own)

\* Two objects own different streams and hold sections of different loads.
Apart(a, b) ==
    /\ a.own # NoStream /\ b.own # NoStream => a.own.id # b.own.id
    /\ \A i \in DOMAIN a.secs, k \in DOMAIN b.secs : a.secs[i].src = b.secs[k].src => a.secs[i].src = 0

ObjectInv ==
    /\ objs \in [Objs -> ObjT]
    /\ fs = [f \in DiskFiles |-> fs[f]]
    /\ \A f \in DiskFiles : fs[f] # Missing => Object!SoundFile(fs[f])
    /\ saves \in 0..MaxSaves
    /\ crash \subseteq [why : Risks, by : Objs]
    /\ \A c \in crash : c.why \in objs[c.by].risk
    /\ \A o \in Objs : Fine(objs[o], fs)
    /\ \A o, p \in Objs : o # p => Apart(objs[o], objs[p])

LEMMA ObjectInvMeans ==
    ASSUME ObjectInv
    PROVE  /\ Object!TypeOK /\ Object!NoCrash
           /\ Object!ReadsRight /\ Object!OneLoad /\ Object!NotShared
<1>1. ASSUME NEW o \in Objs
      PROVE  /\ objs[o] \in ObjT
             /\ objs[o].header => objs[o].parts
             /\ objs[o].names => objs[o].header
             /\ \A i \in DOMAIN objs[o].secs : objs[o].secs[i] \in SecT
  <2>1. objs[o] \in ObjT /\ Fine(objs[o], fs)
    BY DEF ObjectInv
  <2>2. objs[o].secs \in Seq(SecT)
    BY <2>1 DEF ObjT
  <2>3. QED
    BY <2>1, <2>2, ElementOfSeq, LenProperties DEF Fine, Shaped
<1>2. Object!TypeOK
  <2>1. crash \subseteq [why : {"stream", "names"}, by : Objs] /\ saves \in 0..MaxSaves
    BY DEF ObjectInv, Risks
  <2>2. ASSUME NEW o \in Objs
        PROVE  objs[o].own # NoStream => objs[o].own.file \in DiskFiles
    <3>1. objs[o].own \in OwnT
      BY <1>1 DEF ObjT
    <3>2. QED
      BY <3>1 DEF OwnT
  <2>3. ASSUME NEW o \in Objs, NEW i \in DOMAIN objs[o].secs
        PROVE  objs[o].secs[i].off \in Nat /\ objs[o].secs[i].size \in Nat
    BY <1>1 DEF SecT
  <2>4. ASSUME NEW o \in Objs, NEW g \in DOMAIN objs[o].segs,
               NEW k \in DOMAIN objs[o].segs[g].list
        PROVE  objs[o].segs[g].list[k] \in DOMAIN objs[o].secs
    BY DEF ObjectInv, Fine, Shaped, ListFits
  <2>5. ASSUME NEW f \in DiskFiles, fs[f] # Missing PROVE fs[f].len \in Nat
    BY <2>5 DEF ObjectInv, Object!SoundFile
  <2>6. QED
    BY <1>1, <2>1, <2>2, <2>3, <2>4, <2>5 DEF Object!TypeOK
<1>3. Object!NoCrash
  BY DEF ObjectInv, Object!NoCrash
<1>4. Object!ReadsRight
  BY DEF ObjectInv, Fine, SecFine, Object!ReadsRight
<1>5. Object!OneLoad
  BY DEF ObjectInv, Fine, Shaped, OneSource, Object!OneLoad
<1>6. Object!NotShared
  <2> SUFFICES ASSUME NEW o \in Objs, NEW p \in Objs, o # p,
                      NEW i \in DOMAIN objs[o].secs, NEW k \in DOMAIN objs[p].secs,
                      objs[o].secs[i].src = objs[p].secs[k].src
               PROVE  objs[o].secs[i].src = 0
    BY DEF Object!NotShared
  <2>1. QED
    BY DEF ObjectInv, Apart
<1>7. QED
  BY <1>2, <1>3, <1>4, <1>5, <1>6

\* One object changes and stays apart from the others.
LEMMA OneChanges ==
    ASSUME ObjectInv, crash = {}, NEW o \in Objs, NEW ob, Fine(ob, fs),
           \A p \in Objs : p # o => Apart(ob, objs[p]),
           objs' = [objs EXCEPT ![o] = ob], UNCHANGED <<fs, crash, saves>>
    PROVE  ObjectInv'
<1>1. ob \in ObjT
  BY DEF Fine, Shaped
<1>2. objs' \in [Objs -> ObjT] /\ objs'[o] = ob /\ \A p \in Objs : p # o => objs'[p] = objs[p]
  BY <1>1 DEF ObjectInv
<1>3. \A p \in Objs : Fine(objs'[p], fs')
  BY <1>2 DEF ObjectInv
<1>4. \A p, q \in Objs : p # q => Apart(objs'[p], objs'[q])
  <2>1. \A p \in Objs : p # o => Apart(objs[p], ob)
    BY DEF Apart
  <2>2. QED
    BY <1>2, <2>1 DEF ObjectInv
<1>5. QED
  BY <1>2, <1>3, <1>4 DEF ObjectInv

\* A step that dies in an object that was at risk.
LEMMA CrashKeeps ==
    ASSUME ObjectInv, NEW o \in Objs, NEW w \in Risks, w \in objs[o].risk,
           crash' = Object!Crash(w, o), UNCHANGED <<objs, fs, saves>>
    PROVE  ObjectInv'
<1>1. crash' = {[why |-> w, by |-> o]}
  BY DEF Object!Crash
<1>2. crash' \subseteq [why : Risks, by : Objs] /\ \A c \in crash' : c.why \in objs[c.by].risk
  BY <1>1
<1>3. QED
  BY <1>2 DEF ObjectInv

\* What is noted of an object changes nothing else of it.
LEMMA NotedFacts ==
    ASSUME NEW ob \in ObjT, NEW what \in Risks, NEW happened \in BOOLEAN
    PROVE  LET new == Object!Noted(ob, what, happened)
           IN  /\ new \in ObjT /\ new.secs = ob.secs /\ new.segs = ob.segs /\ new.own = ob.own
               /\ new.alive = ob.alive /\ new.header = ob.header /\ new.parts = ob.parts
               /\ new.names = ob.names
               /\ new.risk = IF happened THEN ob.risk \cup {what} ELSE ob.risk
BY DEF Object!Noted, ObjT

LEMMA NotedFine ==
    ASSUME NEW ob, NEW files, Shaped(ob), NEW happened \in BOOLEAN, happened \/ Fine(ob, files)
    PROVE  LET new == Object!Noted(ob, "stream", happened)
           IN  /\ Fine(new, files)
               /\ \A b : /\ Apart(ob, b) => Apart(new, b)
                         /\ Apart(b, ob) => Apart(b, new)
<1> DEFINE new == Object!Noted(ob, "stream", happened)
<1>1. ob \in ObjT /\ "stream" \in Risks
  BY DEF Shaped, Risks
<1>2. /\ new \in ObjT /\ new.secs = ob.secs /\ new.segs = ob.segs /\ new.own = ob.own
      /\ new.header = ob.header /\ new.parts = ob.parts /\ new.names = ob.names
      /\ new.risk = IF happened THEN ob.risk \cup {"stream"} ELSE ob.risk
  BY <1>1, NotedFacts
<1> HIDE DEF new
<1>3. Shaped(new)
  BY <1>2 DEF Shaped
<1>4. Fine(new, files)
  <2>1. CASE happened
    BY <1>2, <1>3, <2>1 DEF Fine
  <2>2. CASE ~happened
    BY <1>2, <1>3, <2>2 DEF Fine
  <2>3. QED
    BY <2>1, <2>2
<1>5. QED
  BY <1>2, <1>4 DEF Apart, new

\* What an object without sections is apart from is a matter of its stream.
LEMMA EmptyApart ==
    ASSUME NEW a, NEW b, a.secs = <<>>,
           a.own # NoStream /\ b.own # NoStream => a.own.id # b.own.id
    PROVE  Apart(a, b)
BY DEF Apart

LEMMA EmptyFine ==
    ASSUME NEW ob \in ObjT, NEW files, ob.header => ob.parts, ob.names => ob.header,
           ob.parts => ob.names \/ "names" \in ob.risk, ob.secs = <<>>, ob.segs = <<>>
    PROVE  Fine(ob, files)
BY DEF Fine, Shaped, OneSource

\* Nothing lazy: the stream and the files do not matter.
LEMMA EagerFine ==
    ASSUME NEW ob, NEW files, Fine(ob, files), ~Object!Lazily(ob), NEW other, NEW new \in ObjT,
           new.secs = ob.secs, new.segs = ob.segs, new.header = ob.header,
           new.parts = ob.parts, new.names = ob.names, new.risk = ob.risk
    PROVE  Fine(new, other)
<1>1. /\ \A i \in DOMAIN ob.secs : ~ob.secs[i].lazy
      /\ \A g \in DOMAIN ob.segs : ~ob.segs[g].lazy
  BY DEF Object!Lazily
<1>2. "stream" \notin ob.risk => \A i \in DOMAIN ob.secs : SecFine(ob.secs[i], new.own, other)
  BY <1>1 DEF Fine, SecFine
<1>3. "stream" \notin ob.risk => \A g \in DOMAIN ob.segs : SegFine(ob.segs[g], ob.secs, new.own)
  BY <1>1 DEF Fine, SegFine
<1>4. QED
  BY <1>2, <1>3 DEF Fine, Shaped

\* Nor does any other file than the one that is read.
LEMMA OtherFile ==
    ASSUME NEW ob, NEW files, Fine(ob, files), NEW other,
           ob.own # NoStream => other[ob.own.file] = files[ob.own.file]
    PROVE  Fine(ob, other)
BY DEF Fine, SecFine

-----------------------------------------------------------------------------
(* Loading.                                                                 *)

LEMMA TextsAre == {"none", "empty", "new", "hole", "segment", "junk"} \subseteq Texts
BY ObjectsAssumption DEF Object!ObjectAssumption

\* What is in a place of a file is what the file has there.
LEMMA PlaceHolds ==
    ASSUME NEW c, Object!SoundFile(c), NEW s \in SecT, FromPlace(s, c)
    PROVE  /\ Object!FileBytes(c, s.off, s.size) \in Texts
           /\ s.size > 0 => Object!FileBytes(c, s.off, s.size) = s.meant
<1> DEFINE P == {c.secs[i] : i \in DOMAIN c.secs}
           x == CHOOSE t \in P : t.off = s.off /\ t.size = s.size
<1>1. PICK i \in DOMAIN c.secs : /\ c.secs[i].off = s.off /\ c.secs[i].size = s.size
                                 /\ c.secs[i].bytes = s.meant
  BY DEF FromPlace
<1>2. x \in P /\ x.off = s.off /\ x.size = s.size
  BY <1>1
<1>3. PICK k \in DOMAIN c.secs : x = c.secs[k]
  BY <1>2
<1>4. s.size > 0 => c.secs[i].bytes = c.secs[k].bytes
  BY <1>1, <1>2, <1>3 DEF Object!SoundFile
<1>5. c.secs[k].bytes \in Texts
  <2>1. c.secs \in Seq([off : Nat, size : Nat, bytes : Texts])
    BY DEF Object!SoundFile
  <2>2. c.secs[k] \in [off : Nat, size : Nat, bytes : Texts]
    BY <1>3, <2>1, ElementOfSeq, LenProperties
  <2>3. QED
    BY <2>2
<1>6. Object!FileBytes(c, s.off, s.size) = x.bytes
  BY <1>1 DEF Object!FileBytes
<1>7. QED
  BY <1>1, <1>3, <1>4, <1>5, <1>6

\* A place of a file gives some bytes.
LEMMA BytesAre ==
    ASSUME NEW c, Object!SoundFile(c), NEW off, NEW width
    PROVE  Object!FileBytes(c, off, width) \in Texts
<1> DEFINE P == {c.secs[i] : i \in DOMAIN c.secs}
           x == CHOOSE t \in P : t.off = off /\ t.size = width
<1>1. CASE \E i \in DOMAIN c.secs : c.secs[i].off = off /\ c.secs[i].size = width
  <2>1. PICK k \in DOMAIN c.secs : x = c.secs[k]
    BY <1>1
  <2>2. c.secs \in Seq([off : Nat, size : Nat, bytes : Texts])
    BY DEF Object!SoundFile
  <2>3. c.secs[k] \in [off : Nat, size : Nat, bytes : Texts]
    BY <2>2, ElementOfSeq, LenProperties
  <2>4. Object!FileBytes(c, off, width) = x.bytes
    BY <1>1 DEF Object!FileBytes
  <2>5. QED
    BY <2>1, <2>3, <2>4
<1>2. CASE ~\E i \in DOMAIN c.secs : c.secs[i].off = off /\ c.secs[i].size = width
  BY <1>2, TextsAre DEF Object!FileBytes
<1>3. QED
  BY <1>1, <1>2

\* load_data() on a section, and what of it where its place gives what is meant, or nothing.
LEMMA SectionLoads ==
    ASSUME NEW s \in SecT, NEW got \in Texts
    PROVE  LET t == Object!SectionLoaded(s, got)
           IN  /\ t \in SecT
               /\ t.off = s.off /\ t.size = s.size /\ t.lazy = s.lazy /\ t.src = s.src
               /\ t.meant = s.meant /\ (t.bytes # "none" \/ t.size = 0 \/ t.loaded \/ ~t.can)
               /\ s.bytes \in {"none", "empty", s.meant}
                  /\ (Object!Reads(s) => got \in {"none", s.meant})
                  => t.bytes \in {"none", "empty", s.meant}
<1> DEFINE holds == IF s.bytes # "none" THEN s.bytes ELSE IF s.size = 0 THEN "empty" ELSE got
<1>1. /\ holds \in Texts
      /\ s.bytes \in {"none", "empty", s.meant} /\ (Object!Reads(s) => got \in {"none", s.meant})
         /\ ~Object!Outside(s) => holds \in {"none", "empty", s.meant}
  BY TextsAre DEF SecT, Object!Reads
<1>2. Object!SectionLoaded(s, got) =
        IF Object!Outside(s) \/ holds = "none" THEN [s EXCEPT !.can = FALSE]
        ELSE [s EXCEPT !.loaded = TRUE, !.bytes = holds]
  BY DEF Object!SectionLoaded
<1> HIDE DEF holds
<1>3. CASE Object!Outside(s) \/ holds = "none"
  BY <1>2, <1>3 DEF SecT
<1>4. CASE ~(Object!Outside(s) \/ holds = "none")
  BY <1>1, <1>2, <1>4 DEF SecT
<1>5. QED
  BY <1>3, <1>4

LEMMA SegmentLoads ==
    ASSUME NEW g \in SegT, NEW got \in Texts
    PROVE  LET t == Object!SegmentLoaded(g, got)
           IN  /\ t \in SegT
               /\ t.off = g.off /\ t.size = g.size /\ t.lazy = g.lazy /\ t.src = g.src
               /\ t.list = g.list /\ (g.loaded => t.loaded)
               /\ g.size > 0 /\ ~Object!Outside(g) /\ got # "none" => t.loaded
<1>1. "none" \in Texts /\ g.size \in Nat
  BY TextsAre DEF SegT
<1>2. CASE g.size = 0
  BY <1>2 DEF Object!SegmentLoaded
<1>3. CASE g.size # 0 /\ (Object!Outside(g) \/ got = "none")
  BY <1>1, <1>3 DEF Object!SegmentLoaded, SegT
<1>4. CASE g.size # 0 /\ ~(Object!Outside(g) \/ got = "none")
  BY <1>1, <1>4 DEF Object!SegmentLoaded, SegT
<1>5. QED
  BY <1>2, <1>3, <1>4

\* A lazy part's stream is there, and is that of its object.
LEMMA StreamThere ==
    ASSUME ObjectInv, NEW o \in Objs, objs[o].own # NoStream, NEW src, src = objs[o].own.id
    PROVE  /\ Object!Live(src)
           /\ \A off, sz : Object!Streamed(src, off, sz) =
                LET name == objs[o].own.file
                IN  IF fs[name] = Missing \/ off + sz > fs[name].len THEN "none"
                    ELSE Object!FileBytes(fs[name], off, sz)
<1> DEFINE f == CHOOSE p \in Objs : objs[p].own # NoStream /\ objs[p].own.id = src
<1>1. f \in Objs /\ objs[f].own # NoStream /\ objs[f].own.id = src
  OBVIOUS
<1>2. f = o
  BY <1>1 DEF ObjectInv, Apart
<1>3. ASSUME NEW off, NEW sz
      PROVE  Object!Streamed(src, off, sz) =
                LET file_ == objs[f].own.file
                IN  IF fs[file_] = Missing \/ off + sz > fs[file_].len THEN "none"
                    ELSE Object!FileBytes(fs[file_], off, sz)
  BY DEF Object!Streamed
<1>4. Object!Live(src)
  BY DEF Object!Live
<1> HIDE DEF f
<1>5. QED
  BY <1>2, <1>3, <1>4

\* A section is replaced by one of the same place.
LEMMA SectionReplaced ==
    ASSUME NEW ob, NEW files, Fine(ob, files), NEW i \in DOMAIN ob.secs, NEW s \in SecT,
           "stream" \notin ob.risk => SecFine(s, ob.own, files),
           s.size = ob.secs[i].size, s.src = ob.secs[i].src
    PROVE  LET new == [ob EXCEPT !.secs[i] = s]
           IN  /\ Fine(new, files)
               /\ \A b : Apart(ob, b) => Apart(new, b)
<1> DEFINE secs == [ob.secs EXCEPT ![i] = s]
           new == [ob EXCEPT !.secs[i] = s]
<1>1. ob \in ObjT /\ ob.secs \in Seq(SecT)
  BY DEF Fine, Shaped, ObjT
<1>2. /\ secs \in Seq(SecT) /\ DOMAIN secs = DOMAIN ob.secs
      /\ \A k \in DOMAIN secs : secs[k] = IF k = i THEN s ELSE ob.secs[k]
  BY <1>1, ExceptSeq, LenProperties
<1>3. /\ new \in ObjT /\ new.secs = secs /\ new.segs = ob.segs /\ new.own = ob.own
      /\ new.header = ob.header /\ new.parts = ob.parts /\ new.names = ob.names
      /\ new.risk = ob.risk
  BY <1>1, <1>2 DEF ObjT
<1> HIDE DEF secs, new
<1>4. "stream" \notin ob.risk => \A k \in DOMAIN secs : SecFine(secs[k], ob.own, files)
  BY <1>2 DEF Fine
<1>5. \A g \in DOMAIN ob.segs :
        /\ ListFits(ob.segs[g], secs)
        /\ "stream" \notin ob.risk => SegFine(ob.segs[g], secs, ob.own)
  <2> SUFFICES ASSUME NEW g \in DOMAIN ob.segs
               PROVE  /\ ListFits(ob.segs[g], secs)
                      /\ "stream" \notin ob.risk => SegFine(ob.segs[g], secs, ob.own)
    OBVIOUS
  <2>1. /\ ListFits(ob.segs[g], ob.secs)
        /\ "stream" \notin ob.risk => SegFine(ob.segs[g], ob.secs, ob.own)
    BY DEF Fine, Shaped
  <2>2. QED
    BY <1>2, <2>1 DEF SegFine, ListFits
<1>6. OneSource(secs)
  BY <1>2 DEF Fine, Shaped, OneSource
<1>7. Fine(new, files)
  BY <1>3, <1>4, <1>5, <1>6 DEF Fine, Shaped
<1>8. \A b : Apart(ob, b) => Apart(new, b)
  BY <1>2, <1>3 DEF Apart
<1>9. QED
  BY <1>7, <1>8 DEF new

LEMMA SegmentReplaced ==
    ASSUME NEW ob, NEW files, Fine(ob, files), NEW g \in DOMAIN ob.segs, NEW s \in SegT,
           ListFits(s, ob.secs)
    PROVE  LET new == [ob EXCEPT !.segs[g] = s]
           IN  /\ Shaped(new)
               /\ SegFine(s, ob.secs, ob.own) \/ "stream" \in ob.risk => Fine(new, files)
               /\ \A b : Apart(ob, b) => Apart(new, b)
<1> DEFINE segs == [ob.segs EXCEPT ![g] = s]
           new == [ob EXCEPT !.segs[g] = s]
<1>1. ob \in ObjT /\ ob.segs \in Seq(SegT)
  BY DEF Fine, Shaped, ObjT
<1>2. /\ segs \in Seq(SegT) /\ DOMAIN segs = DOMAIN ob.segs
      /\ \A k \in DOMAIN segs : segs[k] = IF k = g THEN s ELSE ob.segs[k]
  BY <1>1, ExceptSeq, LenProperties
<1>3. /\ new \in ObjT /\ new.segs = segs /\ new.secs = ob.secs /\ new.own = ob.own
      /\ new.header = ob.header /\ new.parts = ob.parts /\ new.names = ob.names
      /\ new.risk = ob.risk
  BY <1>1, <1>2 DEF ObjT
<1> HIDE DEF segs, new
<1>4. \A k \in DOMAIN segs : ListFits(segs[k], ob.secs)
  BY <1>2 DEF Fine, Shaped
<1>5. Shaped(new)
  BY <1>3, <1>4 DEF Fine, Shaped
<1>6. ASSUME SegFine(s, ob.secs, ob.own), "stream" \notin ob.risk
      PROVE  \A k \in DOMAIN segs : SegFine(segs[k], ob.secs, ob.own)
  BY <1>2, <1>6 DEF Fine
<1>7. SegFine(s, ob.secs, ob.own) \/ "stream" \in ob.risk => Fine(new, files)
  BY <1>3, <1>5, <1>6 DEF Fine
<1>8. \A b : Apart(ob, b) => Apart(new, b)
  BY <1>3 DEF Apart
<1>9. QED
  BY <1>5, <1>7, <1>8 DEF new

-----------------------------------------------------------------------------
(* The steps of objects.                                                    *)

\* An object is of its type, and so are its parts.
LEMMA PartFacts ==
    ASSUME ObjectInv, NEW o \in Objs
    PROVE  /\ objs[o] \in ObjT /\ Fine(objs[o], fs)
           /\ objs[o].secs \in Seq(SecT) /\ objs[o].segs \in Seq(SegT)
           /\ \A i \in DOMAIN objs[o].secs : objs[o].secs[i] \in SecT
           /\ \A g \in DOMAIN objs[o].segs : objs[o].segs[g] \in SegT
<1>1. objs[o] \in ObjT /\ Fine(objs[o], fs)
  BY DEF ObjectInv
<1>2. objs[o].secs \in Seq(SecT) /\ objs[o].segs \in Seq(SegT)
  BY <1>1 DEF ObjT
<1>3. QED
  BY <1>1, <1>2, ElementOfSeq, LenProperties

\* A section of an object is replaced by one of the same place.
LEMMA SectionStepFacts ==
    ASSUME ObjectInv, crash = {}, NEW o \in Objs, NEW i \in DOMAIN objs[o].secs, NEW s \in SecT,
           "stream" \notin objs[o].risk => SecFine(s, objs[o].own, fs),
           s.size = objs[o].secs[i].size, s.src = objs[o].secs[i].src,
           objs' = [objs EXCEPT ![o].secs[i] = s], UNCHANGED <<fs, crash, saves>>
    PROVE  ObjectInv'
<1> DEFINE new == [objs[o] EXCEPT !.secs[i] = s]
<1>1. Fine(new, fs) /\ \A b : Apart(objs[o], b) => Apart(new, b)
  BY PartFacts, SectionReplaced
<1>2. \A p \in Objs : p # o => Apart(new, objs[p])
  BY <1>1 DEF ObjectInv
<1>3. objs' = [objs EXCEPT ![o] = new]
  BY DEF ObjectInv
<1> HIDE DEF new
<1>4. QED
  BY <1>1, <1>2, <1>3, OneChanges

LEMMA SegmentStepFacts ==
    ASSUME ObjectInv, crash = {}, NEW o \in Objs, NEW g \in DOMAIN objs[o].segs, NEW s \in SegT,
           ListFits(s, objs[o].secs),
           "stream" \in objs[o].risk \/ SegFine(s, objs[o].secs, objs[o].own),
           objs' = [objs EXCEPT ![o].segs[g] = s], UNCHANGED <<fs, crash, saves>>
    PROVE  ObjectInv'
<1> DEFINE new == [objs[o] EXCEPT !.segs[g] = s]
<1>1. Fine(new, fs) /\ \A b : Apart(objs[o], b) => Apart(new, b)
  BY PartFacts, SegmentReplaced
<1>2. \A p \in Objs : p # o => Apart(new, objs[p])
  BY <1>1 DEF ObjectInv
<1>3. objs' = [objs EXCEPT ![o] = new]
  BY DEF ObjectInv
<1> HIDE DEF new
<1>4. QED
  BY <1>1, <1>2, <1>3, OneChanges

\* What a stream that is there gives are some bytes.
LEMMA StreamGives ==
    ASSUME ObjectInv, NEW src, Object!Live(src), NEW off, NEW width
    PROVE  Object!Streamed(src, off, width) \in Texts
<1> DEFINE f == CHOOSE p \in Objs : objs[p].own # NoStream /\ objs[p].own.id = src
<1>1. f \in Objs /\ objs[f].own # NoStream
  BY DEF Object!Live
<1>2. Object!Streamed(src, off, width) =
        LET file_ == objs[f].own.file
        IN  IF fs[file_] = Missing \/ off + width > fs[file_].len THEN "none"
            ELSE Object!FileBytes(fs[file_], off, width)
  BY DEF Object!Streamed
<1> HIDE DEF f
<1>3. objs[f].own \in OwnT
  BY <1>1, PartFacts DEF ObjT
<1>4. objs[f].own.file \in DiskFiles
  BY <1>1, <1>3 DEF OwnT
<1> DEFINE c == fs[objs[f].own.file]
<1>5. c = Missing \/ Object!SoundFile(c)
  BY <1>4 DEF ObjectInv
<1>6. Object!Streamed(src, off, width) =
        IF c = Missing \/ off + width > c.len THEN "none" ELSE Object!FileBytes(c, off, width)
  BY <1>2
<1> HIDE DEF c
<1>7. QED
  BY <1>5, <1>6, BytesAre, TextsAre

(* A section that reads its stream is lazy, and is given what is meant; and *)
(* where the stream is gone its object is known to have lost it.            *)
LEMMA GetDataKeeps ==
    ASSUME ObjectInv, NEW o \in Objs, NEW i \in 1..MaxParts, Object!GetData(o, i)
    PROVE  ObjectInv'
<1> DEFINE s == objs[o].secs[i]
           got == IF Object!Reads(s) THEN Object!Streamed(s.src, s.off, s.size) ELSE "none"
<1>1. /\ i \in DOMAIN objs[o].secs /\ Object!Asked(s) /\ UNCHANGED <<fs, saves>> /\ crash = {}
      /\ IF Object!Reads(s) /\ ~Object!Live(s.src)
           THEN crash' = Object!Crash("stream", o) /\ UNCHANGED objs
         ELSE /\ UNCHANGED crash
              /\ objs' = [objs EXCEPT ![o].secs[i] = Object!SectionLoaded(s, got)]
  BY DEF Object!GetData, Object!MayCall
<1>2. /\ s \in SecT /\ objs[o] \in ObjT
      /\ "stream" \notin objs[o].risk => SecFine(s, objs[o].own, fs)
  BY <1>1, PartFacts DEF Fine
<1> HIDE DEF s
<1>3. "stream" \notin objs[o].risk /\ Object!Reads(s) => s.lazy
  BY <1>1, <1>2 DEF Object!Reads, Object!Asked, SecFine, SecT
<1>4. ASSUME Object!Reads(s), "stream" \notin objs[o].risk
      PROVE  Object!Live(s.src) /\ Object!Streamed(s.src, s.off, s.size) \in {"none", s.meant}
  <2>1. /\ objs[o].own # NoStream /\ s.src = objs[o].own.id
        /\ fs[objs[o].own.file] # Missing /\ FromPlace(s, fs[objs[o].own.file])
    BY <1>2, <1>3, <1>4 DEF SecFine
  <2>2. objs[o].own.file \in DiskFiles
    <3>1. objs[o].own \in OwnT
      BY <1>2 DEF ObjT
    <3>2. QED
      BY <2>1, <3>1 DEF OwnT
  <2>3. Object!FileBytes(fs[objs[o].own.file], s.off, s.size) = s.meant
    BY <1>2, <1>4, <2>1, <2>2, PlaceHolds DEF ObjectInv, Object!Reads
  <2>4. Object!Live(s.src) /\ Object!Streamed(s.src, s.off, s.size) =
          IF fs[objs[o].own.file] = Missing \/ s.off + s.size > fs[objs[o].own.file].len THEN "none"
          ELSE Object!FileBytes(fs[objs[o].own.file], s.off, s.size)
    BY <2>1, StreamThere
  <2>5. QED
    BY <2>3, <2>4
<1>5. CASE Object!Reads(s) /\ ~Object!Live(s.src)
  <2>1. "stream" \in objs[o].risk /\ "stream" \in Risks
    BY <1>4, <1>5 DEF Risks
  <2>2. QED
    BY <1>1, <1>5, <2>1, CrashKeeps
<1>6. CASE ~(Object!Reads(s) /\ ~Object!Live(s.src))
  <2>1. /\ got \in Texts
        /\ "stream" \notin objs[o].risk /\ Object!Reads(s) => got \in {"none", s.meant}
    BY <1>4, <1>6, StreamGives, TextsAre
  <2> HIDE DEF got
  <2> DEFINE t == Object!SectionLoaded(s, got)
  <2>2. /\ t \in SecT
        /\ t.off = s.off /\ t.size = s.size /\ t.lazy = s.lazy /\ t.src = s.src
        /\ t.meant = s.meant /\ (t.bytes # "none" \/ t.size = 0 \/ t.loaded \/ ~t.can)
        /\ s.bytes \in {"none", "empty", s.meant}
           /\ (Object!Reads(s) => got \in {"none", s.meant})
           => t.bytes \in {"none", "empty", s.meant}
    BY <1>2, <2>1, SectionLoads
  <2> HIDE DEF t
  <2>3. "stream" \notin objs[o].risk => SecFine(t, objs[o].own, fs)
    BY <1>2, <2>1, <2>2 DEF SecFine, FromPlace
  <2>4. UNCHANGED crash /\ objs' = [objs EXCEPT ![o].secs[i] = t]
    BY <1>1, <1>6 DEF t
  <2>5. QED
    BY <1>1, <2>2, <2>3, <2>4, SectionStepFacts DEF s
<1>7. QED
  BY <1>5, <1>6

LEMMA FreeDataKeeps ==
    ASSUME ObjectInv, NEW o \in Objs, NEW i \in 1..MaxParts, Object!FreeData(o, i)
    PROVE  ObjectInv'
<1> DEFINE s == objs[o].secs[i]
           t == [s EXCEPT !.bytes = "none", !.loaded = FALSE]
<1>1. /\ i \in DOMAIN objs[o].secs /\ s.lazy /\ UNCHANGED <<fs, crash, saves>> /\ crash = {}
      /\ objs' = [objs EXCEPT ![o].secs[i] = t]
  BY DEF Object!FreeData, Object!MayCall
<1>2. s \in SecT /\ ("stream" \notin objs[o].risk => SecFine(s, objs[o].own, fs))
  BY <1>1, PartFacts DEF Fine
<1> HIDE DEF s
<1>3. /\ t \in SecT /\ t.bytes = "none" /\ t.off = s.off /\ t.size = s.size
      /\ t.lazy = s.lazy /\ t.src = s.src /\ t.meant = s.meant
  BY <1>2, TextsAre DEF SecT
<1>4. "stream" \notin objs[o].risk => SecFine(t, objs[o].own, fs)
  BY <1>1, <1>2, <1>3 DEF SecFine, FromPlace
<1> HIDE DEF t
<1>5. QED
  BY <1>1, <1>3, <1>4, SectionStepFacts DEF s

LEMMA GetSegmentDataKeeps ==
    ASSUME ObjectInv, NEW o \in Objs, NEW g \in 1..MaxParts, Object!GetSegmentData(o, g)
    PROVE  ObjectInv'
<1> DEFINE s == objs[o].segs[g]
           got == IF Object!SegmentReads(s) /\ Object!Streamed(s.src, s.off, s.size) # "none"
                    THEN "segment" ELSE "none"
           t == Object!SegmentLoaded(s, got)
<1>1. /\ g \in DOMAIN objs[o].segs /\ ~s.loaded /\ UNCHANGED <<fs, saves>> /\ crash = {}
      /\ IF Object!SegmentReads(s) /\ ~Object!Live(s.src)
           THEN crash' = Object!Crash("stream", o) /\ UNCHANGED objs
         ELSE UNCHANGED crash /\ objs' = [objs EXCEPT ![o].segs[g] = t]
  BY DEF Object!GetSegmentData, Object!MayCall
<1>2. /\ s \in SegT /\ ListFits(s, objs[o].secs)
      /\ "stream" \notin objs[o].risk => SegFine(s, objs[o].secs, objs[o].own)
  BY <1>1, PartFacts DEF Fine, Shaped
<1> HIDE DEF s
<1>3. Object!SegmentReads(s) /\ "stream" \notin objs[o].risk => Object!Live(s.src)
  <2> SUFFICES ASSUME Object!SegmentReads(s), "stream" \notin objs[o].risk
               PROVE  Object!Live(s.src)
    OBVIOUS
  <2>1. s.lazy
    BY <1>1, <1>2 DEF Object!SegmentReads, SegFine, SegT
  <2>2. QED
    BY <1>2, <2>1, StreamThere DEF SegFine
<1>4. got \in Texts
  BY TextsAre
<1> HIDE DEF got
<1>5. /\ t \in SegT /\ t.off = s.off /\ t.size = s.size /\ t.lazy = s.lazy /\ t.src = s.src
      /\ t.list = s.list /\ (s.loaded => t.loaded)
  BY <1>2, <1>4, SegmentLoads
<1> HIDE DEF t
<1>6. /\ ListFits(t, objs[o].secs)
      /\ "stream" \in objs[o].risk \/ SegFine(t, objs[o].secs, objs[o].own)
  BY <1>1, <1>2, <1>5 DEF SegFine, ListFits
<1>7. CASE Object!SegmentReads(s) /\ ~Object!Live(s.src)
  <2>1. "stream" \in objs[o].risk /\ "stream" \in Risks
    BY <1>3, <1>7 DEF Risks
  <2>2. QED
    BY <1>1, <1>7, <2>1, CrashKeeps
<1>8. CASE ~(Object!SegmentReads(s) /\ ~Object!Live(s.src))
  <2>1. UNCHANGED crash /\ objs' = [objs EXCEPT ![o].segs[g] = t]
    BY <1>1, <1>8
  <2>2. QED
    BY <1>1, <1>5, <1>6, <2>1, SegmentStepFacts
<1>9. QED
  BY <1>7, <1>8

LEMMA FreeSegmentDataKeeps ==
    ASSUME ObjectInv, NEW o \in Objs, NEW g \in 1..MaxParts, Object!FreeSegmentData(o, g)
    PROVE  ObjectInv'
<1> DEFINE s == objs[o].segs[g]
           t == [s EXCEPT !.bytes = "none", !.loaded = FALSE]
<1>1. /\ g \in DOMAIN objs[o].segs /\ s.lazy /\ UNCHANGED <<fs, crash, saves>> /\ crash = {}
      /\ objs' = [objs EXCEPT ![o].segs[g] = t]
  BY DEF Object!FreeSegmentData, Object!MayCall
<1>2. /\ s \in SegT /\ ListFits(s, objs[o].secs)
      /\ "stream" \notin objs[o].risk => SegFine(s, objs[o].secs, objs[o].own)
  BY <1>1, PartFacts DEF Fine, Shaped
<1> HIDE DEF s
<1>3. t \in SegT /\ t.size = s.size /\ t.lazy = s.lazy /\ t.src = s.src /\ t.list = s.list
  BY <1>2, TextsAre DEF SegT
<1> HIDE DEF t
<1>4. /\ ListFits(t, objs[o].secs)
      /\ "stream" \in objs[o].risk \/ SegFine(t, objs[o].secs, objs[o].own)
  BY <1>1, <1>2, <1>3 DEF SegFine, ListFits
<1>5. QED
  BY <1>1, <1>3, <1>4, SegmentStepFacts

LEMMA AddToSegmentKeeps ==
    ASSUME ObjectInv, NEW o \in Objs, NEW g \in 1..MaxParts, NEW i \in 1..MaxParts,
           Object!AddToSegment(o, g, i)
    PROVE  ObjectInv'
<1> DEFINE s == objs[o].segs[g]
           t == [s EXCEPT !.list = Append(s.list, i)]
<1>1. /\ g \in DOMAIN objs[o].segs /\ i \in DOMAIN objs[o].secs /\ crash = {}
      /\ UNCHANGED <<fs, crash, saves>>
      /\ objs' = [objs EXCEPT ![o] =
           Object!Noted([objs[o] EXCEPT !.segs[g].list = Append(s.list, i)], "stream", ~s.loaded)]
  BY DEF Object!AddToSegment, Object!MayCall
<1>2. /\ s \in SegT /\ ListFits(s, objs[o].secs)
      /\ "stream" \notin objs[o].risk => SegFine(s, objs[o].secs, objs[o].own)
  BY <1>1, PartFacts DEF Fine, Shaped
<1>3. objs' = [objs EXCEPT ![o] = Object!Noted([objs[o] EXCEPT !.segs[g] = t], "stream", ~s.loaded)]
  BY <1>1
<1>4. s.list \in Seq(Nat) /\ i \in Nat
  BY <1>2 DEF SegT
<1> HIDE DEF s
<1>5. /\ Append(s.list, i) \in Seq(Nat) /\ DOMAIN Append(s.list, i) = 1..(Len(s.list) + 1)
      /\ \A k \in 1..(Len(s.list) + 1) : k \in DOMAIN s.list \/ k = Len(s.list) + 1
      /\ \A k \in DOMAIN s.list : Append(s.list, i)[k] = s.list[k]
      /\ Append(s.list, i)[Len(s.list) + 1] = i
  BY <1>4, AppendProperties, LenProperties
<1>6. /\ t \in SegT /\ t.loaded = s.loaded /\ t.lazy = s.lazy /\ t.src = s.src
      /\ t.list = Append(s.list, i) /\ s.loaded \in BOOLEAN
  BY <1>1, <1>2, <1>5 DEF SegT
<1> HIDE DEF t
<1>7. /\ ListFits(t, objs[o].secs)
      /\ ~s.loaded \/ "stream" \in objs[o].risk \/ SegFine(t, objs[o].secs, objs[o].own)
  BY <1>1, <1>2, <1>5, <1>6 DEF SegFine, ListFits
<1> DEFINE happened == ~s.loaded
           new == [objs[o] EXCEPT !.segs[g] = t]
           noted == Object!Noted(new, "stream", happened)
<1>8. happened \in BOOLEAN
  BY <1>6
<1>9. objs' = [objs EXCEPT ![o] = Object!Noted(new, "stream", happened)]
  BY <1>3
<1>10. happened \/ "stream" \in objs[o].risk \/ SegFine(t, objs[o].secs, objs[o].own)
  BY <1>7
<1>11. Fine(objs[o], fs)
  BY PartFacts
<1> HIDE DEF happened, noted
<1>12. /\ Shaped(new) /\ (happened \/ Fine(new, fs))
       /\ \A b : Apart(objs[o], b) => Apart(new, b)
  BY <1>1, <1>6, <1>7, <1>10, <1>11, SegmentReplaced
<1> HIDE DEF new
<1>13. Fine(noted, fs) /\ \A b : Apart(new, b) => Apart(noted, b)
  BY <1>8, <1>12, NotedFine DEF noted
<1>14. \A p \in Objs : p # o => Apart(noted, objs[p])
  BY <1>12, <1>13 DEF ObjectInv
<1>15. objs' = [objs EXCEPT ![o] = noted]
  BY <1>9 DEF noted
<1>16. QED
  BY <1>1, <1>13, <1>14, <1>15, OneChanges

\* A number that no stream has: there are more numbers than streams.
LEMMA FreshIsNew ==
    ASSUME ObjectInv
    PROVE  /\ Object!Fresh \in Nat \ {0}
           /\ \A p \in Objs : /\ objs[p].own # NoStream => objs[p].own.id # Object!Fresh
                              /\ \A i \in DOMAIN objs[p].secs :
                                   objs[p].secs[i].src # Object!Fresh
<1> DEFINE f == [p \in Objs |-> Object!Streams(objs[p])]
           used == UNION {f[p] : p \in DOMAIN f}
<1>1. ASSUME NEW p \in Objs PROVE IsFiniteSet(f[p])
  <2> DEFINE secs == [i \in DOMAIN objs[p].secs |-> objs[p].secs[i].src]
             segs == [i \in DOMAIN objs[p].segs |-> objs[p].segs[i].src]
             own == IF objs[p].own = NoStream THEN {} ELSE {objs[p].own.id}
  <2>1. IsFiniteSet(own)
    BY FS_EmptySet, FS_Singleton
  <2>2. IsFiniteSet(DOMAIN secs) /\ IsFiniteSet(DOMAIN segs)
    BY PartFacts, LenProperties, FS_Interval
  <2>3. f[p] = own \cup {secs[i] : i \in DOMAIN secs} \cup {segs[i] : i \in DOMAIN segs}
    BY DEF Object!Streams
  <2> HIDE DEF own, secs, segs, f
  <2>4. IsFiniteSet({secs[i] : i \in DOMAIN secs}) /\ IsFiniteSet({segs[i] : i \in DOMAIN segs})
    BY <2>2, FiniteImage
  <2>5. QED
    BY <2>1, <2>3, <2>4, FS_Union
<1>2. Object!Fresh = CHOOSE n \in 1..(1 + Cardinality(used)) : n \notin used
  <2>1. used = UNION {Object!Streams(objs[p]) : p \in Objs}
    OBVIOUS
  <2>2. QED
    BY <2>1, ObjectCardinality DEF Object!Fresh
<1>3. ASSUME NEW p \in Objs
      PROVE  /\ objs[p].own # NoStream => objs[p].own.id \in used
             /\ \A i \in DOMAIN objs[p].secs : objs[p].secs[i].src \in used
  BY DEF Object!Streams
<1>4. IsFiniteSet(used)
  <2>1. DOMAIN f = Objs
    OBVIOUS
  <2> HIDE DEF f
  <2>2. IsFiniteSet({f[p] : p \in DOMAIN f})
    BY <2>1, ObjectConstants, FiniteImage
  <2>3. QED
    BY <1>1, <2>1, <2>2, FS_UNION
<1> HIDE DEF used
<1>5. \E n \in 1..(1 + Cardinality(used)) : n \notin used
  <2> DEFINE N == 1 + Cardinality(used)
  <2>1. Cardinality(used) \in Nat
    BY <1>4, FS_CardinalityType
  <2>2. Cardinality(1..N) = N
    BY <2>1, FS_Interval
  <2>3. ~(1..N \subseteq used)
    BY <1>4, <2>1, <2>2, FS_Subset
  <2>4. QED
    BY <2>3
<1>6. QED
  BY <1>2, <1>3, <1>4, <1>5, FS_CardinalityType

\* The stream of own is src, and gives c, as lazy parts need it.
Backed(l, own, files, c, src) ==
    l => own # NoStream /\ own.id = src /\ files[own.file] = c /\ c # Missing

\* What load() makes of a section of the file.
LEMMA FromFileFacts ==
    ASSUME NEW c, Object!SoundFile(c), NEW i \in DOMAIN c.secs, NEW l \in BOOLEAN,
           NEW src \in Nat
    PROVE  LET t == Object!FromFile(c, c.secs[i], l, src)
           IN  /\ t \in SecT /\ t.size = c.secs[i].size /\ t.src = src
               /\ \A own, files : Backed(l, own, files, c, src) => SecFine(t, own, files)
<1> DEFINE s == c.secs[i]
           raw == [off |-> s.off, size |-> s.size, bytes |-> "none", loaded |-> FALSE,
                   can |-> TRUE, lazy |-> l, src |-> src, ssize |-> c.len, meant |-> s.bytes]
           got == IF s.off + s.size > c.len THEN "none" ELSE Object!FileBytes(c, s.off, s.size)
           t == Object!FromFile(c, s, l, src)
<1>1. s \in [off : Nat, size : Nat, bytes : Texts] /\ c.len \in Nat
  <2>1. c.secs \in Seq([off : Nat, size : Nat, bytes : Texts]) /\ c.len \in Nat
    BY DEF Object!SoundFile
  <2>2. QED
    BY <2>1, ElementOfSeq, LenProperties
<1>2. t = IF l THEN raw ELSE Object!SectionLoaded(raw, got)
  BY DEF Object!FromFile
<1>3. FromPlace(raw, c)
  BY DEF FromPlace
<1> HIDE DEF s
<1>4. /\ raw \in SecT /\ raw.bytes = "none" /\ raw.size = s.size /\ raw.off = s.off
      /\ raw.lazy = l /\ raw.src = src /\ raw.meant = s.bytes
  BY <1>1, TextsAre DEF SecT
<1> HIDE DEF raw
<1>5. got \in Texts /\ (Object!Reads(raw) => got \in {"none", raw.meant})
  BY <1>3, <1>4, PlaceHolds, TextsAre DEF Object!Reads
<1> HIDE DEF got, t
<1>6. CASE l
  BY <1>2, <1>3, <1>4, <1>6 DEF Backed, SecFine, FromPlace, s, t
<1>7. CASE ~l
  <2> DEFINE u == Object!SectionLoaded(raw, got)
  <2>1. /\ u \in SecT
        /\ raw.bytes \in {"none", "empty", raw.meant} => u.bytes \in {"none", "empty", raw.meant}
        /\ u.size = raw.size /\ u.lazy = raw.lazy /\ u.src = raw.src
        /\ u.meant = raw.meant /\ (u.bytes # "none" \/ u.size = 0 \/ u.loaded \/ ~u.can)
    BY <1>4, <1>5, SectionLoads
  <2> HIDE DEF u
  <2>2. t = u
    BY <1>2, <1>7 DEF u
  <2>3. QED
    BY <1>4, <1>7, <2>1, <2>2 DEF SecFine, s, t
<1>8. QED
  BY <1>6, <1>7

\* The segments before the first that cannot be loaded.
LEMMA GoodFacts ==
    ASSUME NEW c, Object!SoundFile(c), NEW l \in BOOLEAN
    PROVE  LET good == Object!GoodSegments(c, l)
           IN  /\ Len(good) \in Nat /\ DOMAIN good = 1..Len(good)
               /\ \A g \in DOMAIN good :
                    g \in DOMAIN c.segs /\ good[g] = c.segs[g] /\ Object!SegmentGood(c, c.segs[g], l)
<1> DEFINE T == [off : Nat, size : Nat, list : Seq(Nat)]
           bad == {i \in DOMAIN c.segs : ~Object!SegmentGood(c, c.segs[i], l)}
           good == Object!GoodSegments(c, l)
<1>1. c.segs \in Seq(T) /\ DOMAIN c.segs = 1..Len(c.segs) /\ Len(c.segs) \in Nat
  BY LenProperties DEF Object!SoundFile
<1>2. CASE bad = {}
  <2>1. good = c.segs
    BY <1>2 DEF Object!GoodSegments
  <2>2. QED
    BY <1>1, <1>2, <2>1
<1>3. CASE bad # {}
  <2> DEFINE first == CHOOSE i \in bad : \A k \in bad : i <= k
  <2>1. bad \in SUBSET Nat
    BY <1>1
  <2>2. \E i \in bad : \A k \in bad : i <= k
    BY <1>3, <2>1, LeastNumber
  <2>3. first \in bad /\ \A k \in bad : first <= k
    BY <2>2
  <2>4. good = SubSeq(c.segs, 1, first - 1)
    BY <1>3 DEF Object!GoodSegments
  <2>5. first \in DOMAIN c.segs /\ first \in 1..Len(c.segs)
    BY <1>1, <2>3
  <2> HIDE DEF first
  <2>6. \A i \in 1..(first - 1) : i \in DOMAIN c.segs /\ Object!SegmentGood(c, c.segs[i], l)
    <3> SUFFICES ASSUME NEW i \in 1..(first - 1)
                 PROVE  i \in DOMAIN c.segs /\ Object!SegmentGood(c, c.segs[i], l)
      OBVIOUS
    <3>1. i \in DOMAIN c.segs /\ ~(first <= i)
      BY <1>1, <2>5
    <3>2. i \notin bad
      BY <2>3, <3>1
    <3>3. QED
      BY <3>1, <3>2
  <2>7. /\ good \in Seq(T) /\ Len(good) = first - 1
        /\ \A i \in 1..(first - 1) : good[i] = c.segs[i]
    <3>1. \A i \in 1..(first - 1) : c.segs[i] \in T
      BY <1>1, <2>6, ElementOfSeq
    <3>2. first - 1 \in Int /\ 1 \in Int /\ first \in Nat /\ first >= 1
      BY <1>1, <2>5
    <3> HIDE DEF T
    <3>3. /\ SubSeq(c.segs, 1, first - 1) \in Seq(T)
          /\ Len(SubSeq(c.segs, 1, first - 1)) = IF 1 <= first - 1 THEN (first - 1) - 1 + 1 ELSE 0
          /\ \A i \in 1..((first - 1) - 1 + 1) : SubSeq(c.segs, 1, first - 1)[i] = c.segs[1 + i - 1]
      BY <3>1, <3>2, SubSeqProperties
    <3>4. QED
      BY <2>4, <3>2, <3>3
  <2>8. DOMAIN good = 1..Len(good) /\ Len(good) \in Nat
    BY <2>7, LenProperties
  <2>9. QED
    BY <2>6, <2>7, <2>8
<1>4. QED
  BY <1>2, <1>3

LEMMA SegmentFromFileFacts ==
    ASSUME NEW c, Object!SoundFile(c), NEW g \in DOMAIN c.segs, NEW l \in BOOLEAN,
           NEW src \in Nat, Object!SegmentGood(c, c.segs[g], l)
    PROVE  LET t == Object!SegmentFromFile(c, c.segs[g], l, src)
           IN  /\ t \in SegT /\ t.src = src /\ t.lazy = l /\ t.size = c.segs[g].size
               /\ t.list = IF c.kind = "entries" THEN <<>> ELSE c.segs[g].list
               /\ ~l /\ ~t.loaded => t.size = 0
<1> DEFINE s == c.segs[g]
           raw == [off |-> s.off, size |-> s.size, bytes |-> "none", loaded |-> FALSE,
                   lazy |-> l, src |-> src, ssize |-> c.len,
                   list |-> IF c.kind = "entries" THEN <<>> ELSE s.list]
           got == IF s.off + s.size > c.len THEN "none" ELSE "segment"
           t == Object!SegmentFromFile(c, s, l, src)
<1>1. s \in [off : Nat, size : Nat, list : Seq(Nat)] /\ c.len \in Nat
  <2>1. c.segs \in Seq([off : Nat, size : Nat, list : Seq(Nat)]) /\ c.len \in Nat
    BY DEF Object!SoundFile
  <2>2. QED
    BY <2>1, ElementOfSeq, LenProperties
<1>2. t = IF l THEN raw ELSE Object!SegmentLoaded(raw, got)
  BY DEF Object!SegmentFromFile
<1>3. l \/ s.size = 0 \/ s.off + s.size <= c.len
  BY DEF Object!SegmentGood
<1> HIDE DEF s
<1> DEFINE list == IF c.kind = "entries" THEN <<>> ELSE s.list
<1>4. list \in Seq(Nat)
  BY <1>1, EmptySeq
<1> HIDE DEF list
<1>5. /\ raw \in SegT /\ raw.size = s.size /\ raw.off = s.off /\ raw.ssize = c.len
      /\ raw.lazy = l /\ raw.src = src /\ raw.list = list
  BY <1>1, <1>4, TextsAre DEF SegT, list
<1>6. got \in Texts
  BY TextsAre
<1> HIDE DEF raw, t
<1>7. CASE l
  BY <1>2, <1>5, <1>7 DEF list, s, t
<1>8. CASE ~l
  <2> DEFINE u == Object!SegmentLoaded(raw, got)
  <2>1. /\ u \in SegT /\ u.size = raw.size /\ u.lazy = raw.lazy /\ u.src = raw.src
        /\ u.list = raw.list
        /\ raw.size > 0 /\ ~Object!Outside(raw) /\ got # "none" => u.loaded
    BY <1>5, <1>6, SegmentLoads
  <2>2. s.size > 0 => ~Object!Outside(raw) /\ got # "none"
    BY <1>1, <1>3, <1>5, <1>8 DEF Object!Outside
  <2> HIDE DEF u, got
  <2>3. t = u
    BY <1>2, <1>8 DEF u
  <2>4. ~u.loaded => u.size = 0
    BY <1>1, <1>5, <2>1, <2>2
  <2>5. QED
    BY <1>5, <1>8, <2>1, <2>3, <2>4 DEF list, s, t
<1>9. QED
  BY <1>7, <1>8

\* An object whose parts are those of one load.
LoadedFrom(ob, c, l, src) ==
    /\ ob \in ObjT /\ Object!SoundFile(c) /\ l \in BOOLEAN /\ src \in Nat
    /\ ob.header /\ ob.parts /\ (ob.names \/ "names" \in ob.risk)
    /\ DOMAIN ob.secs = IF c.kind = "entries" THEN {} ELSE DOMAIN c.secs
    /\ \A i \in DOMAIN ob.secs : ob.secs[i] = Object!FromFile(c, c.secs[i], l, src)
    /\ \A g \in DOMAIN ob.segs :
         /\ g \in DOMAIN c.segs /\ Object!SegmentGood(c, c.segs[g], l)
         /\ ob.segs[g] = Object!SegmentFromFile(c, c.segs[g], l, src)

LEMMA LoadFits ==
    ASSUME NEW ob, NEW files, NEW c, NEW l, NEW src,
           LoadedFrom(ob, c, l, src), Backed(l, ob.own, files, c, src)
    PROVE  Fine(ob, files) /\ \A i \in DOMAIN ob.secs : ob.secs[i].src = src
<1>1. ASSUME NEW i \in DOMAIN ob.secs
      PROVE  SecFine(ob.secs[i], ob.own, files) /\ ob.secs[i].src = src
             /\ ob.secs[i].size = c.secs[i].size
  <2> DEFINE t == Object!FromFile(c, c.secs[i], l, src)
  <2>1. i \in DOMAIN c.secs /\ Object!SoundFile(c) /\ l \in BOOLEAN /\ src \in Nat
    BY <1>1 DEF LoadedFrom
  <2>2. /\ t.size = c.secs[i].size /\ t.src = src
        /\ Backed(l, ob.own, files, c, src) => SecFine(t, ob.own, files)
    BY <2>1, FromFileFacts
  <2> HIDE DEF t
  <2>3. ob.secs[i] = t
    BY <1>1 DEF LoadedFrom, t
  <2>4. QED
    BY <2>2, <2>3
<1>2. ASSUME NEW g \in DOMAIN ob.segs
      PROVE  SegFine(ob.segs[g], ob.secs, ob.own) /\ ListFits(ob.segs[g], ob.secs)
  <2> DEFINE t == ob.segs[g]
  <2>1. /\ t.src = src /\ t.lazy = l /\ t.size = c.segs[g].size
        /\ t.list = IF c.kind = "entries" THEN <<>> ELSE c.segs[g].list
        /\ ~l /\ ~t.loaded => t.size = 0
    <3>1. /\ g \in DOMAIN c.segs /\ Object!SegmentGood(c, c.segs[g], l)
          /\ t = Object!SegmentFromFile(c, c.segs[g], l, src)
          /\ Object!SoundFile(c) /\ l \in BOOLEAN /\ src \in Nat
      BY <1>2 DEF LoadedFrom
    <3> HIDE DEF t
    <3>2. QED
      BY <3>1, SegmentFromFileFacts
  <2>2. ASSUME NEW k \in DOMAIN t.list
        PROVE  /\ t.list[k] \in DOMAIN ob.secs
               /\ t.size = 0 => ob.secs[t.list[k]].size = 0
    <3>1. c.kind # "entries" /\ t.list = c.segs[g].list
      BY <2>1
    <3>2. /\ c.segs[g].list[k] \in DOMAIN c.secs
          /\ c.segs[g].size = 0 => c.secs[c.segs[g].list[k]].size = 0
      BY <3>1 DEF LoadedFrom, Object!SoundFile
    <3>3. QED
      BY <1>1, <2>1, <3>1, <3>2 DEF LoadedFrom
  <2> HIDE DEF t
  <2>3. SegFine(t, ob.secs, ob.own) /\ ListFits(t, ob.secs)
    BY <2>1, <2>2 DEF SegFine, ListFits, Backed
  <2>4. QED
    BY <2>3 DEF t
<1>3. OneSource(ob.secs)
  BY <1>1 DEF OneSource
<1>4. QED
  BY <1>1, <1>2, <1>3 DEF Fine, Shaped, LoadedFrom

LEMMA LoadFileKeeps ==
    ASSUME ObjectInv, NEW o \in Objs, NEW f \in DiskFiles, NEW l \in LazyModes,
           Object!LoadFile(o, f, l)
    PROVE  ObjectInv'
<1> DEFINE src == Object!Fresh
           c == fs[f]
           kept == Object!Noted(objs[o], "stream", Object!Lazily(objs[o]))
           ob == IF c = Missing THEN kept ELSE Object!Loaded(objs[o], c, l, src)
           own == IF l /\ c # Missing THEN [id |-> src, file |-> f] ELSE NoStream
           new == [ob EXCEPT !.own = own]
<1>1. crash = {} /\ objs' = [objs EXCEPT ![o] = new] /\ UNCHANGED <<fs, crash, saves>>
  BY DEF Object!LoadFile, Object!MayCall
<1>2. l \in BOOLEAN /\ NoStream \notin [id : Nat, file : DiskFiles]
  BY ObjectConstants
<1>3. /\ src \in Nat \ {0}
      /\ \A p \in Objs : /\ objs[p].own # NoStream => objs[p].own.id # src
                         /\ \A i \in DOMAIN objs[p].secs : objs[p].secs[i].src # src
  BY FreshIsNew
<1>4. /\ objs[o] \in ObjT /\ objs[o].secs \in Seq(SecT) /\ objs[o].segs \in Seq(SegT)
      /\ Fine(objs[o], fs)
  BY PartFacts
<1> HIDE DEF src, c
<1>5. own \in OwnT /\ (own # NoStream => own.id = src)
  BY <1>2, <1>3 DEF OwnT
<1>6. CASE c = Missing
  <2>1. ob = kept /\ own = NoStream
    BY <1>6
  <2> DEFINE lazily == Object!Lazily(objs[o])
  <2>2. lazily \in BOOLEAN /\ "stream" \in Risks /\ kept = Object!Noted(objs[o], "stream", lazily)
    BY DEF Object!Lazily, Risks
  <2> HIDE DEF lazily, kept
  <2>3. /\ kept \in ObjT /\ kept.secs = objs[o].secs /\ kept.segs = objs[o].segs
        /\ kept.header = objs[o].header /\ kept.parts = objs[o].parts
        /\ kept.names = objs[o].names
        /\ kept.risk = IF lazily THEN objs[o].risk \cup {"stream"} ELSE objs[o].risk
    BY <1>4, <2>2, NotedFacts
  <2> HIDE DEF ob, own
  <2>4. /\ new \in ObjT /\ new.secs = objs[o].secs /\ new.segs = objs[o].segs
        /\ new.own = NoStream /\ new.header = objs[o].header /\ new.parts = objs[o].parts
        /\ new.names = objs[o].names
        /\ new.risk = IF lazily THEN objs[o].risk \cup {"stream"} ELSE objs[o].risk
    BY <2>1, <2>3 DEF ObjT, OwnT
  <2> HIDE DEF new
  <2>5. Fine(new, fs)
    <3>1. CASE lazily
      BY <1>4, <2>4, <3>1 DEF Fine, Shaped
    <3>2. CASE ~lazily
      <4>1. ~Object!Lazily(objs[o])
        BY <3>2 DEF lazily
      <4>2. QED
        BY <1>4, <2>4, <3>2, <4>1, EagerFine
    <3>3. QED
      BY <3>1, <3>2
  <2>6. \A p \in Objs : p # o => Apart(new, objs[p])
    BY <2>4 DEF ObjectInv, Apart
  <2>7. QED
    BY <1>1, <2>5, <2>6, OneChanges
<1>7. CASE c # Missing /\ c.kind \in {"other", "cut"}
  <2>1. ob = Object!Cleared(objs[o])
    BY <1>7 DEF Object!Loaded
  <2> HIDE DEF ob
  <2>2. /\ new \in ObjT /\ new.secs = <<>> /\ new.segs = <<>> /\ new.own = own
        /\ new.header = objs[o].header /\ new.parts = objs[o].parts /\ new.names = FALSE
        /\ new.risk = {"names"}
    BY <1>4, <1>5, <2>1, EmptySeq DEF ObjT, Object!Cleared, Risks
  <2> HIDE DEF new, own
  <2>3. Fine(new, fs)
    BY <1>4, <2>2, EmptyFine DEF Fine, Shaped
  <2>4. \A p \in Objs : p # o => Apart(new, objs[p])
    BY <1>3, <1>5, <2>2, EmptyApart
  <2>5. QED
    BY <1>1, <2>3, <2>4, OneChanges
<1>8. CASE c # Missing /\ c.kind \notin {"other", "cut"}
  <2> DEFINE secs == IF c.kind = "entries" THEN <<>>
                     ELSE [i \in DOMAIN c.secs |-> Object!FromFile(c, c.secs[i], l, src)]
             good == Object!GoodSegments(c, l)
             segs == [g \in DOMAIN good |-> Object!SegmentFromFile(c, good[g], l, src)]
             risk == IF c.kind = "elf" THEN {} ELSE {"names"}
  <2>1. ob = [Object!Cleared(objs[o]) EXCEPT !.header = TRUE, !.names = c.kind = "elf",
                                             !.secs = secs, !.segs = segs, !.risk = risk]
    BY <1>8 DEF Object!Loaded
  <2> HIDE DEF ob
  <2>2. Object!SoundFile(c)
    BY <1>8 DEF ObjectInv, c
  <2>3. /\ secs \in Seq(SecT) /\ DOMAIN secs = IF c.kind = "entries" THEN {} ELSE DOMAIN c.secs
        /\ \A i \in DOMAIN secs : secs[i] = Object!FromFile(c, c.secs[i], l, src)
    <3>1. CASE c.kind = "entries"
      BY <3>1, EmptySeq
    <3>2. CASE c.kind # "entries"
      <4>1. DOMAIN c.secs = 1..Len(c.secs) /\ Len(c.secs) \in Nat
        BY <2>2, LenProperties DEF Object!SoundFile
      <4>2. \A i \in DOMAIN c.secs : Object!FromFile(c, c.secs[i], l, src) \in SecT
        BY <1>2, <1>3, <2>2, FromFileFacts
      <4>3. secs \in [1..Len(c.secs) -> SecT]
        BY <3>2, <4>1, <4>2
      <4>4. QED
        BY <3>2, <4>1, <4>3, SeqDef
    <3>3. QED
      BY <3>1, <3>2
  <2>4. /\ Len(good) \in Nat /\ DOMAIN good = 1..Len(good)
        /\ \A g \in DOMAIN good :
             g \in DOMAIN c.segs /\ good[g] = c.segs[g] /\ Object!SegmentGood(c, c.segs[g], l)
    BY <1>2, <2>2, GoodFacts
  <2> HIDE DEF good
  <2>5. /\ segs \in Seq(SegT) /\ DOMAIN segs = DOMAIN good
        /\ \A g \in DOMAIN good : segs[g] = Object!SegmentFromFile(c, c.segs[g], l, src)
    <3>1. \A g \in DOMAIN good : Object!SegmentFromFile(c, good[g], l, src) \in SegT
      BY <1>2, <1>3, <2>2, <2>4, SegmentFromFileFacts
    <3>2. segs \in [1..Len(good) -> SegT]
      BY <2>4, <3>1
    <3>3. QED
      BY <2>4, <3>2, SeqDef
  <2> HIDE DEF secs, segs
  <2>6. /\ new \in ObjT /\ new.secs = secs /\ new.segs = segs /\ new.own = own
        /\ new.header /\ new.parts = objs[o].parts /\ (new.names \/ "names" \in new.risk)
    BY <1>4, <1>5, <2>1, <2>3, <2>5 DEF ObjT, Object!Cleared, Risks
  <2>7. new.parts
    BY <2>6 DEF Object!LoadFile, Object!MayCall
  <2>8. l => own # NoStream /\ own.id = src /\ own.file = f
    BY <1>2, <1>3, <1>8
  <2> HIDE DEF new, own
  <2>9. Fine(new, fs) /\ \A i \in DOMAIN new.secs : new.secs[i].src = src
    <3>1. \A g \in DOMAIN new.segs :
             /\ g \in DOMAIN c.segs /\ Object!SegmentGood(c, c.segs[g], l)
             /\ new.segs[g] = Object!SegmentFromFile(c, c.segs[g], l, src)
      BY <2>4, <2>5, <2>6
    <3>2. Backed(l, new.own, fs, c, src)
      BY <1>8, <2>6, <2>8 DEF Backed, c
    <3>3. LoadedFrom(new, c, l, src)
      BY <1>2, <1>3, <2>2, <2>3, <2>6, <2>7, <3>1 DEF LoadedFrom
    <3>4. QED
      BY <3>2, <3>3, LoadFits
  <2>10. \A p \in Objs : p # o => Apart(new, objs[p])
    BY <1>3, <1>5, <2>6, <2>9 DEF Apart
  <2>11. QED
    BY <1>1, <2>9, <2>10, OneChanges
<1>9. QED
  BY <1>6, <1>7, <1>8

LEMMA AddSectionKeeps ==
    ASSUME ObjectInv, NEW o \in Objs, Object!AddSection(o)
    PROVE  ObjectInv'
<1> DEFINE ob == objs[o]
           s == [off |-> 0, size |-> 1, bytes |-> "new", loaded |-> FALSE, can |-> TRUE,
                 lazy |-> FALSE, src |-> 0, ssize |-> 1, meant |-> "new"]
           n == Len(ob.secs) + 1
           new == [ob EXCEPT !.secs = Append(ob.secs, s)]
<1>1. /\ crash = {} /\ ob.parts
      /\ IF ob.names THEN UNCHANGED crash /\ objs' = [objs EXCEPT ![o] = new]
                     ELSE crash' = Object!Crash("names", o) /\ UNCHANGED objs
      /\ UNCHANGED <<fs, saves>>
  BY DEF Object!AddSection, Object!MayCall
<1>2. ob \in ObjT /\ ob.secs \in Seq(SecT) /\ Fine(ob, fs)
  BY PartFacts
<1>13. CASE ~ob.names
  <2>1. "names" \in objs[o].risk /\ "names" \in Risks
    BY <1>1, <1>2, <1>13 DEF Fine, Shaped, Risks
  <2>2. QED
    BY <1>1, <1>13, <2>1, CrashKeeps
<1>14. SUFFICES ASSUME ob.names PROVE ObjectInv'
  BY <1>13
<1>3. s \in SecT /\ s.src = 0 /\ SecFine(s, ob.own, fs)
  BY TextsAre DEF SecT, SecFine
<1> HIDE DEF s
<1>4. /\ Append(ob.secs, s) \in Seq(SecT) /\ DOMAIN Append(ob.secs, s) = 1..n
      /\ DOMAIN ob.secs = 1..(n - 1) /\ n \in Nat \ {0}
      /\ \A i \in DOMAIN ob.secs : Append(ob.secs, s)[i] = ob.secs[i]
      /\ Append(ob.secs, s)[n] = s
  BY <1>2, <1>3, AppendProperties, LenProperties
<1>5. /\ new \in ObjT /\ new.secs = Append(ob.secs, s) /\ new.segs = ob.segs /\ new.own = ob.own
      /\ new.header = ob.header /\ new.parts = ob.parts /\ new.names = ob.names
      /\ new.risk = ob.risk
  BY <1>2, <1>4 DEF ObjT
<1> HIDE DEF n, new
<1>6. /\ \A i \in DOMAIN new.secs : i \in DOMAIN ob.secs \/ i = n
      /\ \A i \in DOMAIN ob.secs : i \in DOMAIN new.secs /\ new.secs[i] = ob.secs[i]
      /\ new.secs[n] = s
  BY <1>4, <1>5
<1> HIDE DEF ob
<1>7. "stream" \notin ob.risk => \A i \in DOMAIN new.secs : SecFine(new.secs[i], new.own, fs)
  BY <1>2, <1>3, <1>5, <1>6 DEF Fine
<1>8. \A g \in DOMAIN new.segs :
        /\ ListFits(new.segs[g], new.secs)
        /\ "stream" \notin ob.risk => SegFine(new.segs[g], new.secs, new.own)
  <2> SUFFICES ASSUME NEW g \in DOMAIN ob.segs
               PROVE  /\ ListFits(ob.segs[g], new.secs)
                      /\ "stream" \notin ob.risk => SegFine(ob.segs[g], new.secs, ob.own)
    BY <1>5
  <2>1. /\ ListFits(ob.segs[g], ob.secs)
        /\ "stream" \notin ob.risk => SegFine(ob.segs[g], ob.secs, ob.own)
    BY <1>2 DEF Fine, Shaped
  <2>2. QED
    BY <1>2, <1>6, <2>1 DEF SegFine, ListFits, Fine, Shaped
<1>9. OneSource(new.secs)
  BY <1>2, <1>3, <1>6 DEF Fine, Shaped, OneSource
<1>10. Fine(new, fs)
  BY <1>2, <1>5, <1>7, <1>8, <1>9 DEF Fine, Shaped
<1>11. \A p \in Objs : p # o => Apart(new, objs[p])
  <2> SUFFICES ASSUME NEW p \in Objs, p # o PROVE Apart(new, objs[p])
    OBVIOUS
  <2>1. Apart(ob, objs[p])
    BY DEF ObjectInv, ob
  <2>2. QED
    BY <1>3, <1>5, <1>6, <2>1 DEF Apart
<1>12. QED
  BY <1>1, <1>10, <1>11, <1>14, OneChanges DEF ob

LEMMA CreateKeeps ==
    ASSUME ObjectInv, NEW o \in Objs, Object!Create(o)
    PROVE  ObjectInv'
<1> DEFINE new == [objs[o] EXCEPT !.header = TRUE, !.names = TRUE, !.secs = <<>>, !.segs = <<>>,
                                  !.risk = {}]
<1>1. /\ objs[o].parts /\ objs' = [objs EXCEPT ![o] = new] /\ UNCHANGED <<fs, crash, saves>>
      /\ crash = {}
  BY DEF Object!Create, Object!MayCall
<1>2. /\ new \in ObjT /\ new.secs = <<>> /\ new.segs = <<>> /\ new.own = objs[o].own
      /\ new.header /\ new.parts = objs[o].parts /\ new.names
  BY PartFacts, EmptySeq DEF ObjT
<1> HIDE DEF new
<1>3. Fine(new, fs)
  BY <1>1, <1>2, EmptyFine
<1>4. \A p \in Objs : p # o => Apart(new, objs[p])
  BY <1>2 DEF ObjectInv, Apart
<1>5. QED
  BY <1>1, <1>3, <1>4, OneChanges

\* Objects that are new, or no more.
LEMMA NewFacts ==
    /\ \A files : Fine(Object!Gone, files) /\ Fine(Object!Constructed, files)
    /\ \A b : Apart(Object!Gone, b) /\ Apart(Object!Constructed, b)
    /\ \A b : Apart(b, Object!Gone) /\ Apart(b, Object!Constructed)
<1>1. /\ Object!Gone \in ObjT /\ Object!Gone.own = NoStream /\ Object!Gone.secs = <<>>
      /\ Object!Gone.segs = <<>> /\ ~Object!Gone.header /\ ~Object!Gone.names /\ ~Object!Gone.parts
  BY EmptySeq DEF ObjT, OwnT, Object!Gone
<1>2. /\ Object!Constructed \in ObjT /\ Object!Constructed.own = NoStream
      /\ Object!Constructed.secs = <<>> /\ Object!Constructed.segs = <<>>
      /\ Object!Constructed.header /\ Object!Constructed.parts /\ Object!Constructed.names
  BY EmptySeq DEF ObjT, OwnT, Object!Gone, Object!Constructed
<1>3. \A files : Fine(Object!Gone, files) /\ Fine(Object!Constructed, files)
  BY <1>1, <1>2, EmptyFine
<1>4. QED
  BY <1>1, <1>2, <1>3 DEF Apart

LEMMA DestroyKeeps ==
    ASSUME ObjectInv, NEW o \in Objs, Object!Destroy(o)
    PROVE  ObjectInv'
BY NewFacts, OneChanges DEF Object!Destroy

LEMMA ConstructKeeps ==
    ASSUME ObjectInv, NEW o \in Objs, Object!Construct(o)
    PROVE  ObjectInv'
BY NewFacts, OneChanges DEF Object!Construct

LEMMA MoveKeeps ==
    ASSUME ObjectInv, NEW to \in Objs, NEW from \in Objs, Object!Move(to, from)
    PROVE  ObjectInv'
<1> DEFINE own == IF objs[to].alive THEN objs[to].own ELSE NoStream
           moved == [objs[from] EXCEPT !.own = own]
           lazily == Object!Lazily(objs[from])
           new == Object!Noted(moved, "stream", lazily)
           left == Object!MovedFrom(objs[from])
<1>1. /\ to # from /\ crash = {} /\ UNCHANGED <<fs, crash, saves>>
      /\ objs' = [objs EXCEPT ![to] = new, ![from] = left]
  BY DEF Object!Move
<1>2. /\ objs[to] \in ObjT /\ objs[from] \in ObjT /\ Fine(objs[from], fs)
  BY PartFacts
<1>3. /\ moved \in ObjT /\ moved.secs = objs[from].secs /\ moved.segs = objs[from].segs
      /\ moved.header = objs[from].header /\ moved.parts = objs[from].parts
      /\ moved.names = objs[from].names /\ moved.risk = objs[from].risk
      /\ (moved.own # NoStream => moved.own = objs[to].own)
  BY <1>2 DEF ObjT, OwnT
<1>4. /\ left \in ObjT /\ left.secs = <<>> /\ left.segs = <<>> /\ ~left.header /\ ~left.names
      /\ ~left.parts /\ left.own = objs[from].own
  BY <1>2, EmptySeq DEF ObjT, OwnT, Object!MovedFrom, Object!Gone
<1>5. lazily \in BOOLEAN /\ "stream" \in Risks
  BY DEF Object!Lazily, Risks
<1>6. Shaped(moved) /\ (lazily \/ Fine(moved, fs))
  <2> HIDE DEF moved
  <2>1. Shaped(moved)
    BY <1>2, <1>3 DEF Fine, Shaped
  <2>2. ASSUME ~lazily PROVE Fine(moved, fs)
    BY <1>2, <1>3, <2>2, EagerFine
  <2>3. QED
    BY <2>1, <2>2
<1> HIDE DEF moved, lazily, left
<1>7. Fine(new, fs) /\ Fine(left, fs)
  BY <1>4, <1>5, <1>6, NotedFine, EmptyFine
<1>8. new \in ObjT /\ new.secs = objs[from].secs /\ (new.own # NoStream => new.own = objs[to].own)
  BY <1>3, <1>5, NotedFacts
<1> HIDE DEF new
<1>9. /\ objs' \in [Objs -> ObjT] /\ objs'[to] = new /\ objs'[from] = left
      /\ \A p \in Objs : p # to /\ p # from => objs'[p] = objs[p]
  <2>1. objs \in [Objs -> ObjT]
    BY DEF ObjectInv
  <2>2. QED
    BY <1>1, <1>4, <1>8, <2>1
<1>10. \A p \in Objs : Fine(objs'[p], fs')
  BY <1>1, <1>7, <1>9 DEF ObjectInv
<1>11. Apart(new, left) /\ Apart(left, new)
  BY <1>1, <1>4, <1>8 DEF ObjectInv, Apart
<1>12. \A p \in Objs : p # to /\ p # from =>
        /\ Apart(new, objs[p]) /\ Apart(objs[p], new)
        /\ Apart(left, objs[p]) /\ Apart(objs[p], left)
  BY <1>4, <1>8 DEF ObjectInv, Apart
<1>13. \A p, q \in Objs : p # q => Apart(objs'[p], objs'[q])
  BY <1>9, <1>11, <1>12 DEF ObjectInv
<1>14. QED
  BY <1>1, <1>9, <1>10, <1>13 DEF ObjectInv

\* The sections before one, and the place behind them.
LEMMA PlaceFacts ==
    ASSUME NEW secs \in Seq(SecT), NEW a \in DOMAIN secs
    PROVE  /\ IsFiniteSet(1..(a - 1))
           /\ \A j \in 1..(a - 1) : j \in DOMAIN secs /\ secs[j].size \in Nat
           /\ Object!Room(secs, 1..(a - 1)) \in Nat
           /\ Object!OffsetIn(secs, a) = 1 + Object!Room(secs, 1..(a - 1))
<1>1. /\ DOMAIN secs = 1..Len(secs) /\ Len(secs) \in Nat
      /\ \A j \in DOMAIN secs : secs[j] \in SecT
  BY ElementOfSeq, LenProperties
<1>2. a - 1 \in Int /\ 1 \in Int /\ 1..(a - 1) \subseteq DOMAIN secs
  BY <1>1
<1> DEFINE S == 1..(a - 1)
<1>3. IsFiniteSet(S)
  BY <1>2, FS_Interval
<1> HIDE DEF S
<1>4. \A j \in S : j \in DOMAIN secs /\ secs[j].size \in Nat
  BY <1>1, <1>2 DEF SecT, S
<1>5. Object!Room(secs, S) \in Nat
  BY <1>3, <1>4, RoomFacts
<1>6. QED
  BY <1>3, <1>4, <1>5 DEF S, Object!OffsetIn, Object!HeaderLen

\* The sections keep what they hold and get places.
LEMMA PlacedFacts ==
    ASSUME NEW ob, Shaped(ob)
    PROVE  LET secs == Object!Placed(ob.secs)
           IN  /\ secs \in Seq(SecT) /\ DOMAIN secs = DOMAIN ob.secs
               /\ \A i \in DOMAIN secs :
                    /\ secs[i].off = Object!OffsetIn(ob.secs, i)
                    /\ secs[i].size = ob.secs[i].size /\ secs[i].src = ob.secs[i].src
                    /\ secs[i].lazy = ob.secs[i].lazy
                    /\ \A files : ~ob.secs[i].lazy /\ SecFine(ob.secs[i], ob.own, files)
                                 => SecFine(secs[i], ob.own, files)
<1> DEFINE Moved(i) == [ob.secs[i] EXCEPT !.off = Object!OffsetIn(ob.secs, i)]
           Now(i) == IF Moved(i).bytes # "none" /\ Moved(i).size > 0 /\ Object!Asked(Moved(i))
                       THEN Object!SectionLoaded(Moved(i), "none") ELSE Moved(i)
           secs == Object!Placed(ob.secs)
<1>1. ob.secs \in Seq(SecT) /\ DOMAIN ob.secs = 1..Len(ob.secs) /\ Len(ob.secs) \in Nat
      /\ \A i \in DOMAIN ob.secs : ob.secs[i] \in SecT
  <2>1. ob.secs \in Seq(SecT)
    BY DEF Shaped, ObjT
  <2>2. QED
    BY <2>1, ElementOfSeq, LenProperties
<1>2. secs = [i \in DOMAIN ob.secs |-> Now(i)]
  BY DEF Object!Placed
<1>3. ASSUME NEW i \in DOMAIN ob.secs
      PROVE  /\ Now(i) \in SecT /\ Now(i).off = Object!OffsetIn(ob.secs, i)
             /\ Now(i).size = ob.secs[i].size /\ Now(i).src = ob.secs[i].src
             /\ Now(i).lazy = ob.secs[i].lazy
             /\ \A files : ~ob.secs[i].lazy /\ SecFine(ob.secs[i], ob.own, files)
                          => SecFine(Now(i), ob.own, files)
  <2> DEFINE s == ob.secs[i]
             m == Moved(i)
             t == Object!SectionLoaded(m, "none")
  <2>1. s \in SecT
    BY <1>1
  <2>2. Object!OffsetIn(ob.secs, i) \in Nat
    BY <1>1, PlaceFacts
  <2> HIDE DEF s
  <2>3. m = [s EXCEPT !.off = Object!OffsetIn(ob.secs, i)]
    BY DEF s
  <2> HIDE DEF m, Moved
  <2>4. /\ m \in SecT /\ m.off = Object!OffsetIn(ob.secs, i) /\ m.size = s.size
        /\ m.src = s.src /\ m.lazy = s.lazy /\ m.meant = s.meant /\ m.bytes = s.bytes
        /\ m.loaded = s.loaded /\ m.can = s.can
    BY <2>1, <2>2, <2>3 DEF SecT
  <2>5. \A files : ~s.lazy /\ SecFine(s, ob.own, files) => SecFine(m, ob.own, files)
    BY <2>1, <2>4 DEF SecFine
  <2>6. CASE m.bytes # "none" /\ m.size > 0 /\ Object!Asked(m)
    <3>1. /\ t \in SecT
          /\ t.off = m.off /\ t.size = m.size /\ t.lazy = m.lazy /\ t.src = m.src
          /\ t.meant = m.meant /\ (t.bytes # "none" \/ t.size = 0 \/ t.loaded \/ ~t.can)
          /\ m.bytes \in {"none", "empty", m.meant} => t.bytes \in {"none", "empty", m.meant}
      BY <2>4, TextsAre, SectionLoads
    <3> HIDE DEF t
    <3>2. \A files : ~s.lazy /\ SecFine(m, ob.own, files) => SecFine(t, ob.own, files)
      BY <2>4, <3>1 DEF SecFine
    <3>3. Now(i) = t
      BY <2>6 DEF m, t
    <3>4. QED
      BY <2>4, <2>5, <3>1, <3>2, <3>3 DEF s
  <2>7. CASE ~(m.bytes # "none" /\ m.size > 0 /\ Object!Asked(m))
    <3>1. Now(i) = m
      BY <2>7 DEF m
    <3>2. QED
      BY <2>4, <2>5, <3>1 DEF s
  <2>8. QED
    BY <2>6, <2>7
<1> HIDE DEF Now, secs
<1>4. secs \in [1..Len(ob.secs) -> SecT]
  BY <1>1, <1>2, <1>3
<1>5. secs \in Seq(SecT)
  BY <1>1, <1>4, SeqDef
<1>6. QED
  BY <1>2, <1>3, <1>5 DEF secs

\* Places do not overlap: what stands before one that holds bytes is before it.
LEMMA PlacesApart ==
    ASSUME NEW secs \in Seq(SecT), NEW i \in DOMAIN secs, NEW k \in DOMAIN secs,
           Object!OffsetIn(secs, i) = Object!OffsetIn(secs, k),
           secs[i].size > 0, secs[k].size > 0
    PROVE  i = k
<1>1. /\ DOMAIN secs = 1..Len(secs) /\ Len(secs) \in Nat
      /\ \A j \in DOMAIN secs : secs[j].size \in Nat
  <2>1. \A j \in DOMAIN secs : secs[j] \in SecT
    BY ElementOfSeq, LenProperties
  <2>2. QED
    BY <2>1, LenProperties DEF SecT
<1>2. ASSUME NEW a \in DOMAIN secs, NEW b \in DOMAIN secs, a < b, secs[a].size > 0
      PROVE  Object!OffsetIn(secs, a) < Object!OffsetIn(secs, b)
  <2>1. 1..(a - 1) \in SUBSET (1..(b - 1)) /\ a \in (1..(b - 1)) \ (1..(a - 1))
    BY <1>1, <1>2
  <2> DEFINE S == 1..(b - 1)
             T == 1..(a - 1)
  <2>2. IsFiniteSet(S) /\ \A j \in S : secs[j].size \in Nat
    BY PlaceFacts
  <2>3. T \in SUBSET S /\ a \in S \ T
    BY <2>1
  <2> HIDE DEF S, T
  <2>4. Object!Room(secs, T) < Object!Room(secs, S)
    BY <1>2, <2>2, <2>3, RoomFacts
  <2>5. QED
    BY <2>4, PlaceFacts DEF S, T
<1>3. \A a \in DOMAIN secs : Object!OffsetIn(secs, a) \in Nat
  BY PlaceFacts
<1>4. ~(i < k) /\ ~(k < i)
  BY <1>2, <1>3
<1>5. QED
  BY <1>1, <1>4

\* A segment spans the sections it lists.
LEMMA PlacedSegmentFacts ==
    ASSUME NEW secs \in Seq(SecT), NEW g \in SegT, ListFits(g, secs)
    PROVE  LET t == Object!PlacedSegment(g, secs)
           IN  /\ t \in SegT /\ t.lazy = g.lazy /\ t.list = g.list
               /\ ListFits(t, secs)
               /\ t.size = 0 => \A k \in DOMAIN t.list : secs[t.list[k]].size = 0
               /\ \A own : ~t.lazy /\ SegFine(g, secs, own) => SegFine(t, secs, own)
<1> DEFINE S == {g.list[k] : k \in DOMAIN g.list}
           off == IF g.list = <<>> THEN Object!HeaderLen ELSE Object!OffsetIn(secs, g.list[1])
           size1 == Object!Room(secs, S)
           t == Object!PlacedSegment(g, secs)
<1>1. /\ g.list \in Seq(Nat) /\ DOMAIN g.list = 1..Len(g.list) /\ Len(g.list) \in Nat
      /\ \A k \in DOMAIN g.list : g.list[k] \in DOMAIN secs
      /\ \A j \in DOMAIN secs : secs[j].size \in Nat
      /\ DOMAIN secs = 1..Len(secs) /\ Len(secs) \in Nat
  <2>1. g.list \in Seq(Nat)
    BY DEF SegT
  <2>2. \A j \in DOMAIN secs : secs[j] \in SecT
    BY ElementOfSeq, LenProperties
  <2>3. QED
    BY <2>1, <2>2, LenProperties DEF SecT, ListFits
<1>2. IsFiniteSet(S) /\ \A j \in S : secs[j].size \in Nat
  <2>1. IsFiniteSet(DOMAIN g.list)
    <3>1. IsFiniteSet(1..Len(g.list))
      <4> DEFINE n == Len(g.list)
      <4>1. n \in Int
        BY <1>1
      <4> HIDE DEF n
      <4>2. IsFiniteSet(1..n)
        BY <4>1, FS_Interval
      <4>3. QED
        BY <4>2 DEF n
    <3>2. QED
      BY <1>1, <3>1
  <2>2. IsFiniteSet(S)
    BY <2>1, FiniteImage
  <2>3. QED
    BY <1>1, <2>2
<1>3. /\ size1 \in Nat
      /\ size1 = 0 => \A j \in S : secs[j].size = 0
  BY <1>2, RoomFacts
<1>4. off \in Nat
  <2>1. CASE g.list = <<>>
    BY <2>1 DEF Object!HeaderLen
  <2>2. CASE g.list # <<>>
    <3>1. 1 \in DOMAIN g.list
      BY <1>1, <2>2, EmptySeq
    <3>2. g.list[1] \in 1..Len(secs)
      BY <1>1, <3>1
    <3> DEFINE b == g.list[1]
    <3> HIDE DEF b
    <3>3. b \in 1..Len(secs)
      BY <3>2 DEF b
    <3>4. b \in DOMAIN secs
      BY <1>1, <3>3
    <3>5. Object!OffsetIn(secs, b) \in Nat
      BY <3>4, PlaceFacts
    <3>6. QED
      BY <2>2, <3>5 DEF b
  <2>3. QED
    BY <2>1, <2>2
<1>5. t = [g EXCEPT !.off = off, !.size = size1]
  BY DEF Object!PlacedSegment
<1>6. \A k \in DOMAIN g.list : g.list[k] \in S
  OBVIOUS
<1> HIDE DEF off, size1, S, t
<1>7. /\ t \in SegT /\ t.lazy = g.lazy /\ t.loaded = g.loaded /\ t.list = g.list
      /\ t.src = g.src /\ t.size = size1
  BY <1>3, <1>4, <1>5 DEF SegT
<1>8. t.size = 0 => \A k \in DOMAIN t.list : secs[t.list[k]].size = 0
  BY <1>3, <1>6, <1>7
<1>9. ASSUME NEW own, SegFine(g, secs, own), ~t.lazy, ~t.loaded PROVE t.size = 0
  <2>1. \A j \in S : secs[j].size = 0
    BY <1>7, <1>9 DEF SegFine, S
  <2>2. UNION {{j} \X (1..secs[j].size) : j \in S} = {}
    BY <2>1
  <2>3. QED
    BY <1>7, <2>2, ObjectCardinality, FS_EmptySet DEF size1, Object!Room
<1>10. \A own : ~t.lazy /\ SegFine(g, secs, own) => SegFine(t, secs, own)
  BY <1>7, <1>8, <1>9 DEF SegFine
<1>11. QED
  BY <1>1, <1>7, <1>8, <1>10 DEF ListFits, t

\* What a save leaves is a file that can be loaded.
LEMMA WrittenIsSound ==
    ASSUME NEW ob, ob \in ObjT, NEW old \in Seq(SecT), DOMAIN ob.secs = DOMAIN old,
           \A i \in DOMAIN ob.secs : /\ ob.secs[i].off = Object!OffsetIn(old, i)
                                     /\ ob.secs[i].size = old[i].size,
           \A g \in DOMAIN ob.segs : \A k \in DOMAIN ob.segs[g].list :
             /\ ob.segs[g].list[k] \in DOMAIN ob.secs
             /\ ob.segs[g].size = 0 => ob.secs[ob.segs[g].list[k]].size = 0
    PROVE  Object!SoundFile(Object!Written(ob))
<1> DEFINE ST == [off : Nat, size : Nat, bytes : Texts]
           GT == [off : Nat, size : Nat, list : Seq(Nat)]
           S(i) == [off |-> ob.secs[i].off, size |-> ob.secs[i].size,
                    bytes |-> IF ob.secs[i].bytes = "none" THEN "hole" ELSE ob.secs[i].bytes]
           G(g) == [off |-> ob.segs[g].off, size |-> ob.segs[g].size, list |-> ob.segs[g].list]
           n == Object!HeaderLen + Object!Room(ob.secs, DOMAIN ob.secs)
           c == Object!Written(ob)
<1>1. /\ ob.secs \in Seq(SecT) /\ ob.segs \in Seq(SegT)
      /\ DOMAIN ob.secs = 1..Len(ob.secs) /\ Len(ob.secs) \in Nat
      /\ DOMAIN ob.segs = 1..Len(ob.segs) /\ Len(ob.segs) \in Nat
      /\ \A i \in DOMAIN ob.secs : ob.secs[i] \in SecT
      /\ \A g \in DOMAIN ob.segs : ob.segs[g] \in SegT
  <2>1. ob.secs \in Seq(SecT) /\ ob.segs \in Seq(SegT)
    BY DEF ObjT
  <2>2. QED
    BY <2>1, ElementOfSeq, LenProperties
<1>2. c = [kind |-> "elf", len |-> n, secs |-> [i \in DOMAIN ob.secs |-> S(i)],
           segs |-> [g \in DOMAIN ob.segs |-> G(g)]]
  BY DEF Object!Written
<1>3. n \in Nat
  <2>1. IsFiniteSet(DOMAIN ob.secs)
    <3> DEFINE m == Len(ob.secs)
    <3> HIDE DEF m
    <3>1. DOMAIN ob.secs = 1..m /\ m \in Nat
      BY <1>1 DEF m
    <3>2. IsFiniteSet(1..m)
      BY <3>1, FS_Interval
    <3>3. QED
      BY <3>1, <3>2
  <2>2. \A i \in DOMAIN ob.secs : ob.secs[i].size \in Nat
    BY <1>1 DEF SecT
  <2>3. QED
    BY <2>1, <2>2, RoomFacts DEF Object!HeaderLen
<1>4. ASSUME NEW i \in DOMAIN ob.secs PROVE S(i) \in ST
  BY <1>1, TextsAre DEF SecT
<1>5. ASSUME NEW g \in DOMAIN ob.segs PROVE G(g) \in GT
  BY <1>1 DEF SegT
<1>6. /\ \A i \in DOMAIN ob.secs : S(i).off = ob.secs[i].off /\ S(i).size = ob.secs[i].size
      /\ \A g \in DOMAIN ob.segs : G(g).size = ob.segs[g].size /\ G(g).list = ob.segs[g].list
  OBVIOUS
<1> HIDE DEF n, S, G, ST, GT
<1>7. /\ c.len = n /\ DOMAIN c.secs = DOMAIN ob.secs /\ DOMAIN c.segs = DOMAIN ob.segs
      /\ \A i \in DOMAIN ob.secs : c.secs[i] = S(i)
      /\ \A g \in DOMAIN ob.segs : c.segs[g] = G(g)
      /\ c.secs = [i \in DOMAIN ob.secs |-> S(i)] /\ c.segs = [g \in DOMAIN ob.segs |-> G(g)]
  BY <1>2
<1> HIDE DEF c
<1>8. c.secs \in Seq(ST) /\ c.segs \in Seq(GT)
  <2>1. c.secs \in [1..Len(ob.secs) -> ST] /\ c.segs \in [1..Len(ob.segs) -> GT]
    BY <1>1, <1>4, <1>5, <1>7
  <2> HIDE DEF c
  <2>2. c.secs \in Seq(ST)
    BY <1>1, <2>1, SeqOf
  <2>3. c.segs \in Seq(GT)
    BY <1>1, <2>1, SeqOf
  <2>4. QED
    BY <2>2, <2>3
<1>9. ASSUME NEW i \in DOMAIN c.secs, NEW k \in DOMAIN c.secs,
             c.secs[i].off = c.secs[k].off, c.secs[i].size = c.secs[k].size, c.secs[i].size > 0
      PROVE  c.secs[i].bytes = c.secs[k].bytes
  <2>1. /\ i \in DOMAIN old /\ k \in DOMAIN old
        /\ Object!OffsetIn(old, i) = Object!OffsetIn(old, k)
        /\ old[i].size > 0 /\ old[k].size > 0
    BY <1>6, <1>7, <1>9
  <2>2. QED
    BY <2>1, PlacesApart
<1>10. ASSUME NEW g \in DOMAIN c.segs, NEW k \in DOMAIN c.segs[g].list
       PROVE  /\ c.segs[g].list[k] \in DOMAIN c.secs
              /\ c.segs[g].size = 0 => c.secs[c.segs[g].list[k]].size = 0
  BY <1>6, <1>7
<1>11. QED
  BY <1>3, <1>7, <1>8, <1>9, <1>10 DEF Object!SoundFile, ST, GT, c

\* The object that is saved: its parts at their places.
LEMMA LaidFacts ==
    ASSUME NEW ob, Shaped(ob)
    PROVE  LET laid == Object!Laid(ob)
           IN  /\ Shaped(laid)
               /\ \A files : ~Object!Lazily(ob) /\ Fine(ob, files) => Fine(laid, files)
               /\ Object!Lazily(laid) = Object!Lazily(ob)
               /\ Object!SoundFile(Object!Written(laid))
               /\ \A b : Apart(ob, b) => Apart(laid, b)
<1> DEFINE secs == Object!Placed(ob.secs)
           P(g) == Object!PlacedSegment(ob.segs[g], secs)
           segs == [g \in DOMAIN ob.segs |-> P(g)]
           laid == [ob EXCEPT !.secs = secs, !.segs = segs]
<1>1. /\ secs \in Seq(SecT) /\ DOMAIN secs = DOMAIN ob.secs
      /\ \A i \in DOMAIN secs :
           /\ secs[i].off = Object!OffsetIn(ob.secs, i)
           /\ secs[i].size = ob.secs[i].size /\ secs[i].src = ob.secs[i].src
           /\ secs[i].lazy = ob.secs[i].lazy
           /\ \A files : ~ob.secs[i].lazy /\ SecFine(ob.secs[i], ob.own, files)
                        => SecFine(secs[i], ob.own, files)
  BY PlacedFacts
<1>11. laid = Object!Laid(ob)
  BY DEF Object!Laid
<1> HIDE DEF secs
<1>2. /\ ob \in ObjT /\ ob.secs \in Seq(SecT) /\ ob.segs \in Seq(SegT)
      /\ DOMAIN ob.segs = 1..Len(ob.segs) /\ Len(ob.segs) \in Nat
      /\ \A g \in DOMAIN ob.segs : ob.segs[g] \in SegT
  <2>1. ob \in ObjT /\ ob.segs \in Seq(SegT) /\ ob.secs \in Seq(SecT)
    BY DEF Shaped, ObjT
  <2>2. QED
    BY <2>1, ElementOfSeq, LenProperties
<1>3. ASSUME NEW g \in DOMAIN ob.segs
      PROVE  /\ P(g) \in SegT /\ P(g).lazy = ob.segs[g].lazy /\ ListFits(P(g), secs)
             /\ P(g).size = 0 => \A k \in DOMAIN P(g).list : secs[P(g).list[k]].size = 0
             /\ ~ob.segs[g].lazy /\ SegFine(ob.segs[g], ob.secs, ob.own)
                => SegFine(P(g), secs, ob.own)
  <2> DEFINE s == ob.segs[g]
             t == Object!PlacedSegment(s, secs)
  <2>1. s \in SegT /\ ListFits(s, ob.secs)
    BY <1>2 DEF Shaped
  <2>2. ListFits(s, secs) /\ (SegFine(s, ob.secs, ob.own) => SegFine(s, secs, ob.own))
    BY <1>1, <2>1 DEF SegFine, ListFits
  <2>3. P(g) = t
    OBVIOUS
  <2> HIDE DEF s, P
  <2>4. /\ t \in SegT /\ t.lazy = s.lazy /\ ListFits(t, secs)
        /\ t.size = 0 => \A k \in DOMAIN t.list : secs[t.list[k]].size = 0
        /\ \A own : ~t.lazy /\ SegFine(s, secs, own) => SegFine(t, secs, own)
    BY <1>1, <2>1, <2>2, PlacedSegmentFacts
  <2> HIDE DEF t
  <2>5. QED
    BY <2>2, <2>3, <2>4 DEF s
<1> HIDE DEF P
<1>4. /\ segs \in Seq(SegT) /\ DOMAIN segs = DOMAIN ob.segs
      /\ \A g \in DOMAIN segs : segs[g] = P(g)
  <2>1. segs \in [1..Len(ob.segs) -> SegT]
    BY <1>2, <1>3
  <2>2. QED
    BY <1>2, <2>1, SeqDef
<1> HIDE DEF segs
<1>5. /\ laid \in ObjT /\ laid.secs = secs /\ laid.segs = segs /\ laid.own = ob.own
      /\ laid.header = ob.header /\ laid.parts = ob.parts /\ laid.names = ob.names
      /\ laid.risk = ob.risk
  BY <1>1, <1>2, <1>4 DEF ObjT
<1> HIDE DEF laid
<1>6. Shaped(laid)
  <2>1. OneSource(secs)
    BY <1>1 DEF Shaped, OneSource
  <2>2. \A g \in DOMAIN laid.segs : ListFits(laid.segs[g], laid.secs)
    BY <1>3, <1>4, <1>5
  <2>3. QED
    BY <1>5, <2>1, <2>2 DEF Shaped
<1>7. ASSUME NEW files, ~Object!Lazily(ob), Fine(ob, files) PROVE Fine(laid, files)
  <2>1. /\ \A i \in DOMAIN ob.secs : ~ob.secs[i].lazy
        /\ \A g \in DOMAIN ob.segs : ~ob.segs[g].lazy
    BY <1>7 DEF Object!Lazily
  <2>2. "stream" \notin ob.risk =>
          /\ \A i \in DOMAIN laid.secs : SecFine(laid.secs[i], laid.own, files)
          /\ \A g \in DOMAIN laid.segs : SegFine(laid.segs[g], laid.secs, laid.own)
    BY <1>1, <1>3, <1>4, <1>5, <1>7, <2>1 DEF Fine
  <2>3. QED
    BY <1>5, <1>6, <2>2 DEF Fine
<1>8. Object!Lazily(laid) = Object!Lazily(ob)
  BY <1>1, <1>3, <1>4, <1>5 DEF Object!Lazily
<1>9. Object!SoundFile(Object!Written(laid))
  <2>1. \A g \in DOMAIN laid.segs : \A k \in DOMAIN laid.segs[g].list :
             /\ laid.segs[g].list[k] \in DOMAIN laid.secs
             /\ laid.segs[g].size = 0 => laid.secs[laid.segs[g].list[k]].size = 0
    BY <1>3, <1>4, <1>5 DEF ListFits
  <2>2. QED
    BY <1>1, <1>2, <1>5, <2>1, WrittenIsSound
<1>10. \A b : Apart(ob, b) => Apart(laid, b)
  BY <1>1, <1>5 DEF Apart
<1>12. QED
  BY <1>6, <1>7, <1>8, <1>9, <1>10, <1>11

(* The object that is saved has its parts elsewhere, and others that read    *)
(* the file lose it; of both that is noted if they still need it.           *)
LEMMA SaveKeeps ==
    ASSUME ObjectInv, NEW o \in Objs, NEW f \in DiskFiles, Object!Save(o, f)
    PROVE  ObjectInv'
<1> DEFINE ob == objs[o]
           laid == IF ob.header THEN Object!Laid(ob) ELSE ob
           now == IF ob.header THEN Object!Written(laid) ELSE Object!Empty
           reads(p) == objs[p].own # NoStream /\ objs[p].own.file = f
           base(p) == IF p = o THEN laid ELSE objs[p]
           lost(p) == Object!Lazily(objs[p]) /\ (p = o \/ reads(p))
           new(p) == Object!Noted(base(p), "stream", lost(p))
<1>1. /\ crash = {} /\ saves < MaxSaves /\ saves' = saves + 1 /\ UNCHANGED crash
      /\ fs' = [fs EXCEPT ![f] = now]
      /\ objs' = [p \in Objs |-> new(p)]
  BY DEF Object!Save
<1>2. ob \in ObjT /\ Fine(ob, fs) /\ Shaped(ob)
  BY PartFacts DEF Fine
<1>3. /\ Shaped(laid) /\ (~Object!Lazily(ob) /\ Fine(ob, fs) => Fine(laid, fs))
      /\ Object!Lazily(laid) = Object!Lazily(ob)
      /\ Object!SoundFile(now) /\ \A b : Apart(ob, b) => Apart(laid, b)
  <2>1. Object!SoundFile(Object!Empty)
    BY EmptySeq DEF Object!SoundFile, Object!Empty
  <2>2. QED
    BY <1>2, <2>1, LaidFacts
<1> HIDE DEF laid, now
<1>4. /\ fs' = [x \in DiskFiles |-> fs'[x]] /\ \A x \in DiskFiles : x # f => fs'[x] = fs[x]
      /\ \A x \in DiskFiles : fs'[x] # Missing => Object!SoundFile(fs'[x])
  BY <1>1, <1>3 DEF ObjectInv
<1>5. ASSUME NEW p \in Objs PROVE Shaped(base(p)) /\ (lost(p) \/ Fine(base(p), fs'))
  <2>1. CASE lost(p)
    BY <1>3, <2>1, PartFacts DEF Fine
  <2>2. CASE ~lost(p) /\ ~Object!Lazily(objs[p])
    <3>1. Fine(base(p), fs) /\ ~Object!Lazily(base(p)) /\ base(p) \in ObjT
      BY <1>2, <1>3, <2>2, PartFacts DEF Shaped
    <3> HIDE DEF base
    <3>2. Fine(base(p), fs')
      BY <3>1, EagerFine
    <3>3. QED
      BY <3>2 DEF Fine
  <2>3. CASE ~lost(p) /\ Object!Lazily(objs[p])
    <3>1. p # o /\ ~reads(p) /\ base(p) = objs[p]
      BY <2>3
    <3>2. Fine(objs[p], fs) /\ objs[p] \in ObjT
      BY PartFacts
    <3>3. objs[p].own # NoStream => objs[p].own.file \in DiskFiles
      BY <3>2 DEF ObjT, OwnT
    <3>4. objs[p].own # NoStream => fs'[objs[p].own.file] = fs[objs[p].own.file]
      BY <1>4, <3>1, <3>3
    <3>5. Fine(objs[p], fs')
      BY <3>2, <3>4, OtherFile
    <3>6. QED
      BY <3>1, <3>5 DEF Fine
  <2>4. QED
    BY <2>1, <2>2, <2>3
<1>6. ASSUME NEW p \in Objs
      PROVE  /\ Fine(new(p), fs') /\ new(p) \in ObjT
             /\ \A b : Apart(base(p), b) => Apart(new(p), b)
             /\ \A b : Apart(b, base(p)) => Apart(b, new(p))
  <2>1. lost(p) \in BOOLEAN
    OBVIOUS
  <2> DEFINE b1 == base(p)
             l1 == lost(p)
  <2>2. Shaped(b1) /\ (l1 \/ Fine(b1, fs')) /\ l1 \in BOOLEAN
    BY <1>5, <2>1
  <2>3. new(p) = Object!Noted(b1, "stream", l1)
    OBVIOUS
  <2> HIDE DEF b1, l1, base, lost, new
  <2>4. /\ Fine(Object!Noted(b1, "stream", l1), fs')
        /\ \A b : /\ Apart(b1, b) => Apart(Object!Noted(b1, "stream", l1), b)
                  /\ Apart(b, b1) => Apart(b, Object!Noted(b1, "stream", l1))
    BY <2>2, NotedFine
  <2>5. QED
    BY <2>3, <2>4 DEF Fine, Shaped, b1
<1> HIDE DEF new
<1>7. objs' \in [Objs -> ObjT] /\ \A p \in Objs : objs'[p] = new(p) /\ Fine(objs'[p], fs')
  BY <1>1, <1>6
<1>8. \A p, q \in Objs : p # q => Apart(base(p), base(q))
  <2>1. \A p \in Objs : p # o => Apart(laid, objs[p])
    BY <1>3 DEF ObjectInv
  <2>2. \A p \in Objs : p # o => Apart(objs[p], laid)
    BY <2>1 DEF Apart
  <2>3. QED
    BY <2>1, <2>2 DEF ObjectInv
<1> HIDE DEF base, lost
<1>9. \A p, q \in Objs : p # q => Apart(objs'[p], objs'[q])
  BY <1>6, <1>7, <1>8
<1>10. saves' \in 0..MaxSaves
  BY <1>1, ObjectConstants DEF ObjectInv
<1>11. QED
  BY <1>1, <1>4, <1>7, <1>9, <1>10 DEF ObjectInv

LEMMA ObjectStarts == Object!Init => ObjectInv
<1> SUFFICES ASSUME Object!Init PROVE ObjectInv
  OBVIOUS
<1>1. objs = [o \in Objs |-> Object!Constructed] /\ fs = Disk /\ crash = {} /\ saves = 0
  BY DEF Object!Init
<1>2. Object!Constructed \in ObjT
  BY NewFacts DEF Fine, Shaped
<1>3. saves \in 0..MaxSaves /\ fs = [f \in DiskFiles |-> fs[f]]
      /\ \A f \in DiskFiles : fs[f] # Missing => Object!SoundFile(fs[f])
  BY <1>1, ObjectConstants
<1>4. objs \in [Objs -> ObjT] /\ \A o \in Objs : objs[o] = Object!Constructed
  BY <1>1, <1>2
<1>5. QED
  BY <1>1, <1>3, <1>4, NewFacts DEF ObjectInv

LEMMA ObjectStepKeeps ==
    ASSUME ObjectInv, [Object!Next]_objectVars
    PROVE  ObjectInv'
<1>1. CASE UNCHANGED objectVars
  BY <1>1 DEF ObjectInv, objectVars
<1>2. CASE Object!Next
  BY <1>2, CreateKeeps, DestroyKeeps, ConstructKeeps, AddSectionKeeps, LoadFileKeeps,
     GetDataKeeps, FreeDataKeeps, GetSegmentDataKeeps, FreeSegmentDataKeeps,
     AddToSegmentKeeps, MoveKeeps, SaveKeeps DEF Object!Next
<1>3. QED
  BY <1>1, <1>2

(* What get_data() gives is what the file held when it was loaded, all of   *)
(* it from one load and never from that of another object, and no stream is *)
(* read that is gone, for any number of objects, files and parts, however   *)
(* they are loaded, freed, moved and saved, of every object but those with  *)
(* lazy parts that were themselves moved, saved, loaded again from a        *)
(* missing file or had their file saved over, or given a section for a      *)
(* segment that holds no bytes: what an object of these suffers it suffers  *)
(* alone.  And a section is added where there is no table only to an object *)
(* that loaded none (elfio.hpp 89-260, 1117-1129, elfio_section.hpp         *)
(* 232-312).                                                                *)
THEOREM ObjectIsRight == DataSpec => []ObjectReadsRight
<1>1. DataInit => ObjectInv
  BY ObjectStarts DEF DataInit
<1>2. [DataNext]_dataVars => [Object!Next]_objectVars
  BY DEF DataNext, SectionStep, ObjectStep, ArchiveStep, TableStep, dataVars
<1>3. ObjectInv /\ [DataNext]_dataVars => ObjectInv'
  BY <1>2, ObjectStepKeeps
<1>4. ObjectInv => ObjectReadsRight
  BY ObjectInvMeans DEF ObjectReadsRight
<1>5. QED
  BY <1>1, <1>3, <1>4, PTL DEF DataSpec

-----------------------------------------------------------------------------
(* Archives: functions by recursion.                                        *)

\* What holds at zero and is kept by each step holds up to n.
LEMMA UpTo ==
    ASSUME NEW n \in Nat, NEW P, 0 \in P, \A i \in 1..n : i - 1 \in P => i \in P
    PROVE  \A i \in 0..n : i \in P
<1> DEFINE Bad == {i \in 0..n : i \notin P}
<1>1. ASSUME Bad # {} PROVE FALSE
  <2>1. Bad \in SUBSET Nat
    OBVIOUS
  <2>2. PICK m \in Bad : \A k \in Bad : m <= k
    BY <1>1, <2>1, LeastNumber
  <2>3. m \in 1..n /\ m - 1 \in 0..n /\ ~(m <= m - 1)
    OBVIOUS
  <2>4. m - 1 \in P
    BY <2>2, <2>3
  <2>5. QED
    BY <2>3, <2>4
<1>2. QED
  BY <1>1

\* A set of numbers up to n has a greatest one.
LEMMA GreatestNumber ==
    ASSUME NEW n \in Nat, NEW S \in SUBSET (1..n), S # {}
    PROVE  \E m \in S : \A k \in S : k <= m
<1> DEFINE T == {n - k : k \in S}
<1>1. T \in SUBSET Nat /\ T # {}
  <2>1. \A k \in S : n - k \in Nat
    OBVIOUS
  <2>2. PICK k \in S : TRUE
    OBVIOUS
  <2>3. n - k \in T
    OBVIOUS
  <2>4. QED
    BY <2>1, <2>3
<1>2. PICK t \in T : \A k \in T : t <= k
  <2> HIDE DEF T
  <2>1. QED
    BY <1>1, LeastNumber
<1>3. PICK m \in S : t = n - m
  OBVIOUS
<1>4. \A k \in S : n - m <= n - k
  BY <1>2, <1>3
<1>5. QED
  BY <1>4

\* A function over 0..n by recursion with a given step.
Steps(step, n, S, first) ==
    n \in Nat /\ first \in S /\ step \in [(1..n) \X S -> S]
Iterates(f, step, n, S, first) ==
    /\ f \in [0..n -> S] /\ f[0] = first
    /\ \A i \in 1..n : f[i] = step[<<i, f[i - 1]>>]

\* There is one.
LEMMA RecursionExists ==
    ASSUME NEW n, NEW S, NEW first, NEW step, Steps(step, n, S, first)
    PROVE  \E f : Iterates(f, step, n, S, first)
<1> USE DEF Steps
<1> DEFINE Follows(k, f) == f[0] = first /\ \A i \in 1..k : f[i] = step[<<i, f[i - 1]>>]
           P == {k \in 0..n : \E f \in [0..k -> S] : Follows(k, f)}
<1>1. 0 \in P
  <2> DEFINE g == [i \in 0..0 |-> first]
  <2>1. g \in [0..0 -> S] /\ g[0] = first
    OBVIOUS
  <2>2. Follows(0, g)
    BY <2>1
  <2>3. \E f \in [0..0 -> S] : Follows(0, f)
    BY <2>1, <2>2
  <2>4. 0 \in 0..n
    OBVIOUS
  <2>5. QED
    BY <2>3, <2>4
<1>2. ASSUME NEW k \in 1..n, k - 1 \in P
      PROVE  k \in P
  <2>1. PICK f \in [0..(k - 1) -> S] : Follows(k - 1, f)
    BY <1>2
  <2> DEFINE g == [i \in 0..k |-> IF i = k THEN step[<<k, f[k - 1]>>] ELSE f[i]]
  <2>2. f[k - 1] \in S /\ step[<<k, f[k - 1]>>] \in S
    OBVIOUS
  <2>3. g \in [0..k -> S]
    BY <2>2
  <2>4. \A i \in 0..(k - 1) : g[i] = f[i]
    OBVIOUS
  <2>5. g[k] = step[<<k, g[k - 1]>>]
    <3>1. k \in 0..k /\ k - 1 \in 0..(k - 1)
      OBVIOUS
    <3>2. g[k - 1] = f[k - 1]
      BY <2>4, <3>1
    <3>3. g[k] = step[<<k, f[k - 1]>>]
      BY <3>1
    <3>4. QED
      BY <3>2, <3>3
  <2>6. \A i \in 1..k : g[i] = step[<<i, g[i - 1]>>]
    <3> TAKE i \in 1..k
    <3>1. CASE i = k
      BY <2>5, <3>1
    <3>2. CASE i # k
      <4>1. i \in 1..(k - 1) /\ i - 1 \in 0..(k - 1) /\ i \in 0..(k - 1)
        BY <3>2
      <4>2. QED
        BY <2>1, <2>4, <4>1
    <3>3. QED
      BY <3>1, <3>2
  <2>7. g[0] = first
    <3>1. 0 \in 0..(k - 1)
      OBVIOUS
    <3>2. QED
      BY <2>1, <2>4, <3>1
  <2>8. k \in 0..n
    OBVIOUS
  <2> HIDE DEF g
  <2>9. QED
    BY <2>3, <2>6, <2>7, <2>8
<1>3. n \in P
  <2> HIDE DEF P
  <2>1. QED
    BY <1>1, <1>2, UpTo
<1>4. QED
  BY <1>3 DEF Iterates

\* And only one.
LEMMA RecursionUnique ==
    ASSUME NEW n \in Nat, NEW f, NEW g, f[0] = g[0],
           \A i \in 1..n : f[i - 1] = g[i - 1] => f[i] = g[i]
    PROVE  \A i \in 0..n : f[i] = g[i]
<1> DEFINE P == {i \in 0..n : f[i] = g[i]}
<1>1. 0 \in P
  OBVIOUS
<1>2. \A i \in 1..n : i - 1 \in P => i \in P
  OBVIOUS
<1> HIDE DEF P
<1>3. \A i \in 0..n : i \in P
  BY <1>1, <1>2, UpTo
<1>4. QED
  BY <1>3 DEF P

-----------------------------------------------------------------------------
(* Sums.                                                                    *)

LEMMA SumsFacts ==
    ASSUME NEW q \in Seq(Nat)
    PROVE  /\ Archive!Sums(q) \in [0..Len(q) -> Nat] /\ Archive!Sums(q)[0] = 0
           /\ \A i \in 1..Len(q) : Archive!Sums(q)[i] = Archive!Sums(q)[i - 1] + q[i]
<1> DEFINE n == Len(q)
           step == [x \in (1..n) \X Nat |-> x[2] + q[x[1]]]
           Eq(f) == f = [i \in 0..n |-> IF i = 0 THEN 0 ELSE f[i - 1] + q[i]]
           f0 == Archive!Sums(q)
<1>1. n \in Nat /\ \A i \in 1..n : q[i] \in Nat
  BY LenProperties, ElementOfSeq
<1>2. step \in [(1..n) \X Nat -> Nat]
  BY <1>1
<1>3. PICK f : Iterates(f, step, n, Nat, 0)
  <2>1. Steps(step, n, Nat, 0)
    <3> HIDE DEF step, n
    <3>1. QED
      BY <1>1, <1>2 DEF Steps
  <2> HIDE DEF step, n
  <2>2. QED
    BY <2>1, RecursionExists
<1>4. f \in [0..n -> Nat] /\ f[0] = 0 /\ \A i \in 1..n : f[i] = step[<<i, f[i - 1]>>]
  <2> HIDE DEF step, n
  <2>1. QED
    BY <1>3 DEF Iterates
<1>5. \A i \in 1..n : f[i] = f[i - 1] + q[i]
  <2> TAKE i \in 1..n
  <2>1. f[i - 1] \in Nat
    BY <1>1, <1>4
  <2>2. step[<<i, f[i - 1]>>] = f[i - 1] + q[i]
    BY <2>1
  <2>3. QED
    BY <1>4, <2>2
<1>6. Eq(f)
  <2> HIDE DEF n
  <2>1. \A i \in 0..n : f[i] = IF i = 0 THEN 0 ELSE f[i - 1] + q[i]
    BY <1>1, <1>4, <1>5
  <2>2. f = [i \in 0..n |-> f[i]]
    BY <1>4
  <2>3. QED
    BY <2>1, <2>2
<1>7. f0 = CHOOSE g : Eq(g)
  BY DEF Archive!Sums
<1>8. Eq(f0)
  <2> HIDE DEF f0, Eq
  <2>1. QED
    BY <1>6, <1>7
<1> HIDE DEF f0, n
<1>9. f0[0] = 0 /\ \A i \in 1..n : f0[i] = f0[i - 1] + q[i]
  <2>1. \A i \in 0..n : f0[i] = IF i = 0 THEN 0 ELSE f0[i - 1] + q[i]
    BY <1>8
  <2>2. 0 \in 0..n /\ \A i \in 1..n : i \in 0..n /\ i # 0
    BY <1>1
  <2>3. QED
    BY <2>1, <2>2
<1>10. \A i \in 0..n : f0[i] = f[i]
  <2> HIDE DEF Eq, step
  <2>1. f0[0] = f[0] /\ \A i \in 1..n : f0[i - 1] = f[i - 1] => f0[i] = f[i]
    BY <1>1, <1>4, <1>5, <1>9
  <2>2. QED
    BY <1>1, <2>1, RecursionUnique
<1>11. f0 \in [0..n -> Nat]
  BY <1>4, <1>8, <1>10
<1>12. QED
  BY <1>9, <1>11 DEF f0, n

LEMMA ArchiveConstants ==
    /\ Archive!Names = DOMAIN NameLength /\ Archive!Symbols = DOMAIN SymbolLength
    /\ Garbage \notin Archive!Contents /\ NoName \notin Archive!Names
    /\ \A n \in Archive!Names : NameLength[n] \in Nat
    /\ \A s \in Archive!Symbols : SymbolLength[s] \in Nat
    /\ \A c \in Archive!Contents : Size[c] \in Nat
    /\ Archive!IsFiniteSet(Archive!Symbols)
    /\ \A f \in DOMAIN Given : Given[f] # Absent => Archive!WellFormed(Given[f]) /\ Archive!Orderly(Given[f])
    /\ Targets \subseteq DOMAIN Given /\ MaxMembers \in Nat /\ MaxReloads \in Nat
<1> USE ArchiveAssumption DEF Archive!ArioAssumption
<1>1. \A n \in Archive!Names : NameLength[n] \in Nat
  BY DEF Archive!Names
<1>2. \A s \in Archive!Symbols : SymbolLength[s] \in Nat
  BY DEF Archive!Symbols
<1>3. \A c \in Archive!Contents : Size[c] \in Nat
  BY DEF Archive!Contents
<1>4. QED
  BY <1>1, <1>2, <1>3 DEF Archive!Names, Archive!Symbols

LEMMA Increasing ==
    ASSUME NEW n \in Nat, NEW f, \A i \in 0..n : f[i] \in Nat, \A i \in 1..n : f[i - 1] < f[i]
    PROVE  \A i, j \in 0..n : i < j => f[i] < f[j]
<1> DEFINE P == {j \in 0..n : \A i \in 0..n : i < j => f[i] < f[j]}
<1>1. 0 \in P
  OBVIOUS
<1>2. ASSUME NEW j \in 1..n, j - 1 \in P PROVE j \in P
  <2>1. j \in 0..n /\ j - 1 \in 0..n /\ f[j - 1] < f[j] /\ f[j] \in Nat /\ f[j - 1] \in Nat
    OBVIOUS
  <2>2. ASSUME NEW i \in 0..n, i < j PROVE f[i] < f[j]
    <3>1. CASE i = j - 1
      BY <2>1, <3>1
    <3>2. CASE i # j - 1
      <4>1. i < j - 1 /\ f[i] \in Nat
        BY <2>2, <3>2
      <4>2. f[i] < f[j - 1]
        BY <1>2, <4>1
      <4>3. QED
        BY <2>1, <4>1, <4>2
    <3>3. QED
      BY <3>1, <3>2
  <2>3. QED
    BY <2>1, <2>2
<1> HIDE DEF P
<1>3. \A j \in 0..n : j \in P
  BY <1>1, <1>2, UpTo
<1>4. QED
  BY <1>3 DEF P

-----------------------------------------------------------------------------
(* The long names and their places.                                         *)

\* What a directory holds: names, or the text of a read that failed.
DirNames == Archive!Names \cup {NoName}

LEMMA WidthFacts ==
    ASSUME NEW n \in DirNames
    PROVE  Archive!Width(n) \in Nat /\ Archive!Width(n) > 0
BY ArchiveConstants DEF DirNames, Archive!Width

LEMMA EndsFacts ==
    ASSUME NEW d \in Seq(DirNames)
    PROVE  /\ Len(d) \in Nat /\ DOMAIN d = 1..Len(d) /\ \A i \in 1..Len(d) : d[i] \in DirNames
           /\ Archive!Ends(d) \in [0..Len(d) -> Nat] /\ Archive!Ends(d)[0] = 0
           /\ \A i \in 1..Len(d) : Archive!Ends(d)[i] = Archive!Ends(d)[i - 1] + Archive!Width(d[i])
           /\ \A i, j \in 0..Len(d) : i < j => Archive!Ends(d)[i] < Archive!Ends(d)[j]
<1> DEFINE n == Len(d)
           q == [i \in DOMAIN d |-> Archive!Width(d[i])]
           e == Archive!Ends(d)
<1>1. n \in Nat /\ DOMAIN d = 1..n /\ \A i \in 1..n : d[i] \in DirNames
  BY LenProperties, ElementOfSeq
<1>2. q \in [1..n -> Nat]
  BY <1>1, WidthFacts
<1>3. q \in Seq(Nat) /\ Len(q) = n
  <2> HIDE DEF q, n
  <2>1. QED
    BY <1>1, <1>2, SeqOf
<1>4. e \in [0..n -> Nat] /\ e[0] = 0 /\ \A i \in 1..n : e[i] = e[i - 1] + q[i]
  <2>1. e = Archive!Sums(q)
    BY DEF Archive!Ends
  <2> HIDE DEF q, n, e
  <2>2. QED
    BY <1>3, <2>1, SumsFacts
<1>5. \A i \in 1..n : q[i] = Archive!Width(d[i]) /\ Archive!Width(d[i]) \in Nat /\ Archive!Width(d[i]) > 0
  BY <1>1, WidthFacts
<1> HIDE DEF q, n, e
<1>6. (\A i \in 0..n : e[i] \in Nat) /\ \A i \in 1..n : e[i - 1] < e[i]
  <2>1. \A i \in 0..n : e[i] \in Nat
    BY <1>4
  <2>2. ASSUME NEW i \in 1..n PROVE e[i - 1] < e[i]
    <3>1. i - 1 \in 0..n /\ e[i - 1] \in Nat
      BY <1>1, <2>1
    <3>2. e[i] = e[i - 1] + q[i] /\ q[i] = Archive!Width(d[i]) /\ Archive!Width(d[i]) \in Nat
            /\ Archive!Width(d[i]) > 0
      BY <1>4, <1>5
    <3>3. QED
      BY <3>1, <3>2
  <2>3. QED
    BY <2>1, <2>2
<1>7. \A i, j \in 0..n : i < j => e[i] < e[j]
  BY <1>1, <1>6, Increasing
<1>8. QED
  BY <1>1, <1>4, <1>5, <1>7 DEF n, e

LEMMA NameAtFacts ==
    ASSUME NEW d \in Seq(DirNames)
    PROVE  /\ \A i \in 1..Len(d) : Archive!NameAt(d, Archive!Ends(d)[i - 1]) = d[i]
           /\ \A at : \/ Archive!NameAt(d, at) = NoName
                      \/ \E i \in 1..Len(d) : Archive!Ends(d)[i - 1] = at /\ Archive!NameAt(d, at) = d[i]
           /\ \A at : Archive!NameAt(d, at) \in Archive!Names \cup {NoName}
           /\ Archive!DirSize(d) \in Nat
<1> DEFINE e == Archive!Ends(d)
           n == Len(d)
<1>1. /\ n \in Nat /\ DOMAIN d = 1..n /\ \A i \in 1..n : d[i] \in DirNames
      /\ e \in [0..n -> Nat] /\ \A i, j \in 0..n : i < j => e[i] < e[j]
  BY EndsFacts
<1>2. \A at : Archive!NameAt(d, at) = IF \E i \in 1..n : e[i - 1] = at
                THEN d[CHOOSE i \in 1..n : e[i - 1] = at] ELSE NoName
  BY <1>1 DEF Archive!NameAt
<1> HIDE DEF e, n
<1>3. \A i, j \in 1..n : e[i - 1] = e[j - 1] => i = j
  <2> SUFFICES ASSUME NEW i \in 1..n, NEW j \in 1..n, e[i - 1] = e[j - 1] PROVE i = j
    OBVIOUS
  <2>1. i - 1 \in 0..n /\ j - 1 \in 0..n /\ e[i - 1] \in Nat /\ e[j - 1] \in Nat
    BY <1>1
  <2>2. ~(i - 1 < j - 1) /\ ~(j - 1 < i - 1)
    BY <1>1, <2>1
  <2>3. QED
    BY <2>1, <2>2, <1>1
<1>4. \A at : \/ Archive!NameAt(d, at) = NoName
              \/ \E i \in 1..n : e[i - 1] = at /\ Archive!NameAt(d, at) = d[i]
  <2> TAKE at
  <2>1. CASE \E i \in 1..n : e[i - 1] = at
    <3> DEFINE k == CHOOSE i \in 1..n : e[i - 1] = at
    <3>1. k \in 1..n /\ e[k - 1] = at
      BY <2>1
    <3>2. Archive!NameAt(d, at) = d[k]
      BY <1>2, <2>1
    <3>3. QED
      BY <3>1, <3>2
  <2>2. CASE ~\E i \in 1..n : e[i - 1] = at
    BY <1>2, <2>2
  <2>3. QED
    BY <2>1, <2>2
<1>5. \A i \in 1..n : Archive!NameAt(d, e[i - 1]) = d[i]
  <2> TAKE i \in 1..n
  <2> DEFINE k == CHOOSE j \in 1..n : e[j - 1] = e[i - 1]
  <2>1. k \in 1..n /\ e[k - 1] = e[i - 1]
    OBVIOUS
  <2>2. k = i
    BY <1>3, <2>1
  <2>3. Archive!NameAt(d, e[i - 1]) = d[k]
    BY <1>2
  <2>4. QED
    BY <2>2, <2>3
<1>6. Archive!DirSize(d) \in Nat
  <2>1. n \in 0..n
    BY <1>1
  <2>2. QED
    BY <1>1, <2>1 DEF Archive!DirSize, e, n
<1>7. \A at : Archive!NameAt(d, at) \in Archive!Names \cup {NoName}
  BY <1>1, <1>4 DEF DirNames
<1>8. QED
  BY <1>4, <1>5, <1>6, <1>7 DEF e, n

\* A new name leaves the others where they are.
LEMMA AppendedName ==
    ASSUME NEW d \in Seq(DirNames), NEW n \in DirNames
    PROVE  /\ Append(d, n) \in Seq(DirNames)
           /\ Archive!NameAt(Append(d, n), Archive!DirSize(d)) = n
           /\ \A at : Archive!NameAt(d, at) # NoName =>
                Archive!NameAt(Append(d, n), at) = Archive!NameAt(d, at)
<1> DEFINE g == Append(d, n)
           m == Len(d)
           e == Archive!Ends(d)
           h == Archive!Ends(g)
<1>1. /\ g \in Seq(DirNames) /\ Len(g) = m + 1 /\ g[m + 1] = n
      /\ m \in Nat /\ \A i \in 1..m : g[i] = d[i]
  BY AppendProperties, LenProperties
<1>2. /\ e[0] = 0 /\ \A i \in 1..m : e[i] = e[i - 1] + Archive!Width(d[i])
  BY EndsFacts
<1>3. /\ h[0] = 0 /\ \A i \in 1..(m + 1) : h[i] = h[i - 1] + Archive!Width(g[i])
  BY <1>1, EndsFacts
<1>4. \A i \in 0..m : h[i] = e[i]
  <2> HIDE DEF e, h, m, g
  <2>1. ASSUME NEW i \in 1..m, h[i - 1] = e[i - 1] PROVE h[i] = e[i]
    <3>1. i \in 1..(m + 1) /\ g[i] = d[i]
      BY <1>1
    <3>2. h[i] = h[i - 1] + Archive!Width(g[i]) /\ e[i] = e[i - 1] + Archive!Width(d[i])
      BY <1>2, <1>3, <3>1
    <3>3. QED
      BY <2>1, <3>1, <3>2
  <2>2. h[0] = e[0] /\ m \in Nat
    BY <1>1, <1>2, <1>3
  <2>3. QED
    BY <2>1, <2>2, RecursionUnique
<1>5. \A i \in 1..(m + 1) : Archive!NameAt(g, h[i - 1]) = g[i]
  BY <1>1, NameAtFacts
<1>6. Archive!DirSize(d) = e[m]
  BY DEF Archive!DirSize
<1>7. \A at : \/ Archive!NameAt(d, at) = NoName
              \/ \E i \in 1..m : e[i - 1] = at /\ Archive!NameAt(d, at) = d[i]
  BY NameAtFacts
<1> HIDE DEF e, h, m, g
<1>8. Archive!NameAt(g, e[m]) = n
  <2>1. m \in 0..m /\ m + 1 \in 1..(m + 1) /\ (m + 1) - 1 = m
    BY <1>1
  <2>2. QED
    BY <1>1, <1>4, <1>5, <2>1
<1>9. ASSUME NEW at, Archive!NameAt(d, at) # NoName
      PROVE  Archive!NameAt(g, at) = Archive!NameAt(d, at)
  <2>1. PICK i \in 1..m : e[i - 1] = at /\ Archive!NameAt(d, at) = d[i]
    BY <1>7, <1>9
  <2>2. i \in 1..(m + 1) /\ i - 1 \in 0..m
    BY <1>1
  <2>3. QED
    BY <1>1, <1>4, <1>5, <2>1, <2>2
<1>10. QED
  BY <1>1, <1>6, <1>8, <1>9 DEF g

-----------------------------------------------------------------------------
(* Where entries and members start.                                         *)

Sized(es) == Len(es) \in Nat /\ DOMAIN es = 1..Len(es) /\ \A i \in DOMAIN es : es[i].size \in Nat

LEMMA EvenFacts ==
    ASSUME NEW n \in Nat
    PROVE  Archive!Even(n) \in Nat /\ Archive!Even(n) >= n /\ Archive!Even(n) % 2 = 0
BY DEF Archive!Even

LEMMA EvenOfEven ==
    ASSUME NEW n \in Nat, n % 2 = 0
    PROVE  Archive!Even(n) = n
BY DEF Archive!Even

LEMMA PositionsFacts ==
    ASSUME NEW es, Sized(es), NEW start \in Nat
    PROVE  LET p == Archive!Positions(es, start)
           IN  /\ p[1] = start
               /\ \A i \in 1..(Len(es) + 1) : p[i] \in Nat
               /\ \A i \in 1..Len(es) : p[i + 1] = p[i] + (60 + Archive!Even(es[i].size))
               /\ \A i, j \in 1..Len(es) : p[i] = p[j] => i = j
<1> DEFINE p == Archive!Positions(es, start)
           n == Len(es)
           q == [i \in DOMAIN es |-> Archive!HeaderSize + Archive!Even(es[i].size)]
           before == Archive!Sums(q)
<1>1. n \in Nat /\ DOMAIN es = 1..n /\ \A i \in 1..n : es[i].size \in Nat
  BY DEF Sized
<1>2. \A i \in 1..n : Archive!Even(es[i].size) \in Nat
  BY <1>1, EvenFacts
<1>3. q \in [1..n -> Nat] /\ \A i \in 1..n : q[i] = 60 + Archive!Even(es[i].size)
  BY <1>1, <1>2 DEF Archive!HeaderSize
<1>4. q \in Seq(Nat) /\ Len(q) = n
  <2> HIDE DEF q, n
  <2>1. QED
    BY <1>1, <1>3, SeqOf
<1>5. before \in [0..n -> Nat] /\ before[0] = 0 /\ \A i \in 1..n : before[i] = before[i - 1] + q[i]
  <2> HIDE DEF q, n
  <2>1. QED
    BY <1>4, SumsFacts
<1>6. p = [i \in 1..(n + 1) |-> start + before[i - 1]]
  BY DEF Archive!Positions
<1> HIDE DEF p, n, before, q
<1>7. \A i \in 0..n : before[i] \in Nat
  BY <1>5
<1>8. ASSUME NEW i \in 1..n PROVE before[i - 1] < before[i]
  <2>1. i - 1 \in 0..n /\ i \in 0..n
    BY <1>1
  <2>2. before[i - 1] \in Nat /\ before[i] = before[i - 1] + q[i]
    BY <1>5, <1>7, <2>1
  <2>3. q[i] = 60 + Archive!Even(es[i].size) /\ Archive!Even(es[i].size) \in Nat
    BY <1>2, <1>3
  <2>4. QED
    BY <2>2, <2>3
<1>9. \A i, j \in 0..n : i < j => before[i] < before[j]
  BY <1>1, <1>7, <1>8, Increasing
<1>10. \A i \in 1..(n + 1) : p[i] \in Nat /\ p[i] = start + before[i - 1]
  <2> TAKE i \in 1..(n + 1)
  <2>1. i - 1 \in 0..n
    BY <1>1
  <2>2. QED
    BY <1>6, <1>7, <2>1
<1>11. p[1] = start
  BY <1>1, <1>5, <1>10
<1>12. ASSUME NEW i \in 1..n PROVE p[i + 1] = p[i] + (60 + Archive!Even(es[i].size))
  <2>1. i \in 1..(n + 1) /\ i + 1 \in 1..(n + 1) /\ (i + 1) - 1 = i /\ i - 1 \in 0..n
    BY <1>1
  <2>2. p[i] = start + before[i - 1] /\ p[i + 1] = start + before[i] /\ before[i - 1] \in Nat
    BY <1>7, <1>10, <2>1
  <2>3. before[i] = before[i - 1] + (60 + Archive!Even(es[i].size))
    BY <1>3, <1>5
  <2>4. QED
    BY <1>2, <2>2, <2>3
<1>13. ASSUME NEW i \in 1..n, NEW j \in 1..n, p[i] = p[j] PROVE i = j
  <2>1. i \in 1..(n + 1) /\ j \in 1..(n + 1) /\ i - 1 \in 0..n /\ j - 1 \in 0..n
    BY <1>1
  <2>2. before[i - 1] = before[j - 1] /\ before[i - 1] \in Nat
    BY <1>7, <1>10, <1>13, <2>1
  <2>3. ~(i - 1 < j - 1) /\ ~(j - 1 < i - 1)
    BY <1>9, <2>1, <2>2
  <2>4. QED
    BY <1>1, <2>3
<1>14. QED
  BY <1>10, <1>11, <1>12, <1>13 DEF p, n

\* The last entries of a file are where they would be on their own.
Behind(es, ms, k) == Len(es) = k + Len(ms) /\ \A i \in 1..Len(ms) : es[k + i].size = ms[i].size
SamePlaces(f, g, k, n) == \A i \in 1..n : f[k + i] = g[i]

LEMMA PositionsBehind ==
    ASSUME NEW es, Sized(es), NEW ms, Sized(ms), NEW start \in Nat, NEW from \in Nat, NEW k \in Nat,
           Behind(es, ms, k), Archive!Positions(es, start)[k + 1] = from
    PROVE  SamePlaces(Archive!Positions(es, start), Archive!Positions(ms, from), k, Len(ms))
<1> DEFINE p == Archive!Positions(es, start)
           r == Archive!Positions(ms, from)
           n == Len(ms)
           f == [i \in 0..n |-> p[k + i + 1]]
           g == [i \in 0..n |-> r[i + 1]]
<1>1. n \in Nat /\ Len(es) = k + n
  BY DEF Sized, Behind
<1>2. \A i \in 1..(k + n) : p[i + 1] = p[i] + (60 + Archive!Even(es[i].size))
  <2>1. \A i \in 1..Len(es) : p[i + 1] = p[i] + (60 + Archive!Even(es[i].size))
    BY PositionsFacts
  <2> HIDE DEF p, n
  <2>2. QED
    BY <1>1, <2>1
<1>3. r[1] = from /\ \A i \in 1..n : r[i + 1] = r[i] + (60 + Archive!Even(ms[i].size))
  BY PositionsFacts
<1>4. p[k + 1] = from /\ \A i \in 1..n : es[k + i].size = ms[i].size
  BY DEF Behind
<1> HIDE DEF p, r, n
<1>5. f[0] = g[0]
  BY <1>1, <1>3, <1>4
<1>6. ASSUME NEW i \in 1..n, f[i - 1] = g[i - 1] PROVE f[i] = g[i]
  <2>1. i \in 0..n /\ i - 1 \in 0..n /\ k + i \in 1..(k + n) /\ k + (i - 1) + 1 = k + i /\ (i - 1) + 1 = i
    BY <1>1
  <2>2. f[i - 1] = p[k + i] /\ g[i - 1] = r[i] /\ f[i] = p[k + i + 1] /\ g[i] = r[i + 1]
    BY <2>1
  <2>3. p[(k + i) + 1] = p[k + i] + (60 + Archive!Even(es[k + i].size))
    BY <1>2, <2>1
  <2>4. QED
    BY <1>3, <1>4, <1>6, <2>2, <2>3
<1> HIDE DEF f, g
<1>7. \A i \in 0..n : f[i] = g[i]
  <2> DEFINE P == {i \in 0..n : f[i] = g[i]}
  <2>1. n \in Nat /\ 0 \in P
    BY <1>1, <1>5
  <2>2. \A i \in 1..n : i - 1 \in P => i \in P
    BY <1>1, <1>6
  <2> HIDE DEF P
  <2>3. \A i \in 0..n : i \in P
    BY <2>1, <2>2, UpTo
  <2>4. QED
    BY <2>3 DEF P
<1>8. ASSUME NEW i \in 1..n PROVE p[k + i] = r[i]
  <2>1. i - 1 \in 0..n /\ k + (i - 1) + 1 = k + i /\ (i - 1) + 1 = i
    BY <1>1
  <2>2. QED
    BY <1>7, <2>1 DEF f, g
<1>9. QED
  BY <1>8 DEF p, r, n, SamePlaces

-----------------------------------------------------------------------------
(* Reading the entries of a file.                                           *)

Shorts == [long : BOOLEAN, name : Archive!Names \cup {NoName}, at : Nat]
Members ==
    [name : Archive!Names, short : Shorts, size : Nat, pos : Nat,
     data : Archive!Contents \cup {Garbage}, new : BOOLEAN, cut : {FALSE}]
SymMaps == UNION {[D -> Nat] : D \in SUBSET Archive!Symbols}
StateForms ==
    [ok : BOOLEAN, failed : BOOLEAN, members : Seq(Members), sym : SymMaps, dir : Seq(DirNames)]

\* A stream that fails ends the load.
States == {x \in StateForms : x.failed => ~x.ok}

NameOf(d, short) == IF short.long THEN Archive!NameAt(d, short.at) ELSE short.name

LEMMA SymMapIs ==
    ASSUME NEW f
    PROVE  f \in SymMaps <=> /\ DOMAIN f \subseteq Archive!Symbols
                             /\ f \in [DOMAIN f -> Nat]
BY DEF SymMaps

LEMMA NoMapIs == Archive!NoMap \in SymMaps /\ DOMAIN Archive!NoMap = {}
<1>1. DOMAIN Archive!NoMap = {} /\ Archive!NoMap \in [{} -> Nat]
  BY DEF Archive!NoMap
<1>2. QED
  BY <1>1, SymMapIs

LEMMA AddTableFacts ==
    ASSUME NEW sym \in SymMaps, NEW t \in Seq([symbol : Archive!Symbols, at : Nat])
    PROVE  LET r == Archive!AddTable(sym, t)
           IN  /\ r \in SymMaps
               /\ DOMAIN r = DOMAIN sym \cup {t[i].symbol : i \in 1..Len(t)}
               /\ \A s \in DOMAIN r : \/ s \in DOMAIN sym /\ r[s] = sym[s]
                                      \/ \E i \in 1..Len(t) : t[i].symbol = s /\ r[s] = t[i].at
               /\ \A s \in {t[i].symbol : i \in 1..Len(t)} :
                      \E i \in 1..Len(t) : t[i].symbol = s /\ r[s] = t[i].at
<1> DEFINE r == Archive!AddTable(sym, t)
           n == Len(t)
           of(s) == {i \in 1..n : t[i].symbol = s}
           last(s) == CHOOSE i \in of(s) : \A j \in of(s) : j <= i
           D == DOMAIN sym \cup {t[i].symbol : i \in 1..n}
<1>1. n \in Nat /\ DOMAIN t = 1..n /\ \A i \in 1..n : t[i].symbol \in Archive!Symbols /\ t[i].at \in Nat
  <2>1. n \in Nat /\ DOMAIN t = 1..n /\ \A i \in 1..n : t[i] \in [symbol : Archive!Symbols, at : Nat]
    BY LenProperties, ElementOfSeq
  <2> HIDE DEF n
  <2>2. QED
    BY <2>1
<1>2. r = [s \in D |-> IF of(s) # {} THEN t[last(s)].at ELSE sym[s]]
  BY <1>1 DEF Archive!AddTable
<1>3. DOMAIN sym \subseteq Archive!Symbols /\ \A s \in DOMAIN sym : sym[s] \in Nat
  BY SymMapIs
<1>4. \A s : of(s) # {} => last(s) \in of(s)
  <2> TAKE s
  <2>1. CASE of(s) # {}
    <3>1. of(s) \in SUBSET (1..n)
      OBVIOUS
    <3> HIDE DEF of
    <3>2. \E i \in of(s) : \A j \in of(s) : j <= i
      BY <1>1, <2>1, <3>1, GreatestNumber
    <3>3. QED
      BY <3>2
  <2>2. QED
    BY <2>1
<1> HIDE DEF r, n, last
<1>5. \A s \in D : /\ of(s) # {} => last(s) \in 1..n /\ t[last(s)].symbol = s /\ r[s] = t[last(s)].at
                   /\ of(s) = {} => s \in DOMAIN sym /\ r[s] = sym[s]
  BY <1>2, <1>4
<1>6. DOMAIN r = D /\ \A s \in D : r[s] \in Nat
  BY <1>1, <1>2, <1>3, <1>5
<1>7. r \in SymMaps
  <2>1. D \subseteq Archive!Symbols
    BY <1>1, <1>3
  <2>2. r \in [D -> Nat]
    BY <1>2, <1>6
  <2>3. QED
    BY <1>6, <2>1, <2>2, SymMapIs
<1>8. \A s \in DOMAIN r : \/ s \in DOMAIN sym /\ r[s] = sym[s]
                          \/ \E i \in 1..n : t[i].symbol = s /\ r[s] = t[i].at
  BY <1>5, <1>6
<1>9. \A s \in {t[i].symbol : i \in 1..n} : \E i \in 1..n : t[i].symbol = s /\ r[s] = t[i].at
  <2> TAKE s \in {t[i].symbol : i \in 1..n}
  <2>1. s \in D /\ of(s) # {}
    OBVIOUS
  <2> HIDE DEF of, D
  <2>2. QED
    BY <1>5, <2>1
<1>10. QED
  BY <1>6, <1>7, <1>8, <1>9 DEF r, n

\* What reading an entry does, by its kind.
LEMMA ReadEntryFacts ==
    ASSUME NEW st \in States, NEW e \in Archive!EntryForms, NEW pos \in Nat,
           e.kind = "member" => ~e.cut
    PROVE  LET r == Archive!ReadEntry(st, e, pos)
               name == NameOf(st.dir, e.short)
           IN  /\ r \in States
               /\ r.ok => st.ok
               /\ ~st.ok => r = st
               /\ st.ok /\ e.kind = "symbols" => r.members = st.members /\ r.dir = st.dir
               /\ st.ok /\ e.kind = "symbols" /\ (e.cut \/ e.bad) => ~r.ok /\ r.sym = st.sym
               /\ st.ok /\ e.kind = "symbols" /\ ~e.cut /\ ~e.bad =>
                    r.ok /\ r.sym = Archive!AddTable(st.sym, e.table)
               /\ st.ok /\ e.kind = "names" => r.members = st.members /\ r.sym = st.sym
               /\ st.ok /\ e.kind = "names" /\ ~e.cut /\ ~e.bad => r.ok /\ r.dir = e.names
               /\ st.ok /\ e.kind = "member" => r.sym = st.sym /\ r.dir = st.dir
               /\ st.ok /\ e.kind = "member" /\ (e.bad \/ name = NoName) => ~r.ok /\ r.members = st.members
               /\ st.ok /\ e.kind = "member" /\ ~e.bad /\ name # NoName =>
                    /\ r.ok
                    /\ r.members = Append(st.members,
                         [name |-> name, short |-> e.short, size |-> e.size, pos |-> pos,
                          data |-> e.data, new |-> FALSE, cut |-> FALSE])
               /\ st.ok /\ e.kind = "part" =>
                    ~r.ok /\ r.members = st.members /\ r.sym = st.sym /\ r.dir = st.dir
<1> DEFINE r == Archive!ReadEntry(st, e, pos)
           name == NameOf(st.dir, e.short)
           m == [name |-> name, short |-> e.short, size |-> e.size, pos |-> pos,
                 data |-> e.data, new |-> FALSE, cut |-> FALSE]
<1>1. /\ st.ok \in BOOLEAN /\ st.members \in Seq(Members) /\ st.sym \in SymMaps
      /\ st.dir \in Seq(DirNames)
      /\ st.failed \in BOOLEAN /\ (st.failed => ~st.ok)
      /\ DOMAIN st = {"ok", "failed", "members", "sym", "dir"}
  BY DEF States, StateForms
<1>2. /\ e.kind \in {"symbols", "names", "member", "part"} /\ e.short \in Shorts /\ e.size \in Nat
      /\ e.data \in Archive!Contents \cup {Garbage} /\ e.names \in Seq(DirNames)
      /\ e.table \in Seq([symbol : Archive!Symbols, at : Nat])
      /\ e.bad \in BOOLEAN /\ e.cut \in BOOLEAN
  BY DEF Archive!EntryForms, Shorts, DirNames
<1>3. name \in Archive!Names \cup {NoName}
  <2>1. e.short.long \in BOOLEAN /\ e.short.name \in Archive!Names \cup {NoName}
    BY <1>2 DEF Shorts
  <2>2. Archive!NameAt(st.dir, e.short.at) \in Archive!Names \cup {NoName}
    BY <1>1, NameAtFacts
  <2>3. QED
    BY <2>1, <2>2 DEF NameOf
<1>4. CASE ~st.ok
  <2>1. r = st
    BY <1>4 DEF Archive!ReadEntry
  <2>2. QED
    BY <1>4, <2>1
<1>5. CASE st.ok /\ e.kind = "symbols"
  <2>1. Archive!Torn(e) <=> e.cut /\ ~e.bad
    BY <1>5 DEF Archive!Torn
  <2>2. Archive!AddTable(st.sym, e.table) \in SymMaps
    BY <1>1, <1>2, AddTableFacts
  <2>3. CASE e.cut \/ e.bad
    <3>1. r = [st EXCEPT !.ok = FALSE, !.failed = TRUE] \/ r = [st EXCEPT !.ok = FALSE]
      BY <1>2, <1>5, <2>1, <2>3 DEF Archive!ReadEntry
    <3> HIDE DEF r
    <3>2. /\ r \in States /\ r.ok = FALSE /\ r.members = st.members /\ r.dir = st.dir
          /\ r.sym = st.sym
      BY <1>1, <1>5, <3>1 DEF States, StateForms
    <3>3. QED
      BY <1>5, <2>3, <3>2 DEF r
  <2>4. CASE ~e.cut /\ ~e.bad
    <3>1. r = [st EXCEPT !.sym = Archive!AddTable(st.sym, e.table)]
      BY <1>5, <2>1, <2>4 DEF Archive!ReadEntry
    <3> HIDE DEF r
    <3>2. /\ r \in States /\ r.ok = TRUE /\ r.members = st.members /\ r.dir = st.dir
          /\ r.sym = Archive!AddTable(st.sym, e.table)
      BY <1>1, <1>5, <2>2, <3>1 DEF States, StateForms
    <3>3. QED
      BY <1>5, <2>4, <3>2 DEF r
  <2>5. QED
    BY <2>3, <2>4
<1>6. CASE st.ok /\ e.kind = "names"
  <2>1. ~Archive!Torn(e)
    BY <1>6 DEF Archive!Torn
  <2>2. <<NoName>> \in Seq(DirNames)
    BY DEF DirNames
  <2>3. CASE e.bad
    <3>1. r = [st EXCEPT !.ok = FALSE]
      BY <1>6, <2>1, <2>3 DEF Archive!ReadEntry
    <3> HIDE DEF r
    <3>2. r \in States /\ r.ok = FALSE /\ r.members = st.members /\ r.sym = st.sym
      BY <1>1, <1>6, <3>1 DEF States, StateForms
    <3>3. QED
      BY <1>6, <2>3, <3>2 DEF r
  <2>4. CASE ~e.bad
    <3> DEFINE d == IF e.cut THEN <<NoName>> ELSE e.names
    <3>1. r = [st EXCEPT !.dir = d] /\ d \in Seq(DirNames) /\ (~e.cut => d = e.names)
      BY <1>2, <1>6, <2>1, <2>2, <2>4 DEF Archive!ReadEntry
    <3> HIDE DEF r, d
    <3>2. r \in States /\ r.ok = TRUE /\ r.members = st.members /\ r.sym = st.sym /\ r.dir = d
      BY <1>1, <1>6, <3>1 DEF States, StateForms
    <3>3. QED
      BY <1>6, <2>4, <3>1, <3>2 DEF r
  <2>5. QED
    BY <2>3, <2>4
<1>7. CASE st.ok /\ e.kind = "member"
  <2>1. r = IF e.bad \/ name = NoName THEN [st EXCEPT !.ok = FALSE]
            ELSE [st EXCEPT !.members = Append(st.members, m)]
    BY <1>2, <1>7 DEF Archive!ReadEntry, Archive!ReadMember, Archive!Torn, NameOf
  <2> HIDE DEF r, name
  <2>2. CASE e.bad \/ name = NoName
    BY <1>1, <1>7, <2>1, <2>2 DEF States, StateForms, r, name
  <2>3. CASE ~e.bad /\ name # NoName
    <3>1. m \in Members
      BY <1>2, <1>3, <2>3 DEF Members
    <3>2. Append(st.members, m) \in Seq(Members)
      BY <1>1, <3>1, AppendProperties
    <3> HIDE DEF m
    <3>3. r = [st EXCEPT !.members = Append(st.members, m)]
      BY <2>1, <2>3
    <3>4. r \in States /\ r.ok = TRUE /\ r.sym = st.sym /\ r.dir = st.dir /\ r.members = Append(st.members, m)
      BY <1>1, <1>7, <3>2, <3>3 DEF States, StateForms
    <3>5. QED
      BY <1>7, <2>3, <3>4 DEF r, m, name
  <2>4. QED
    BY <2>2, <2>3
<1>8. CASE st.ok /\ e.kind = "part"
  <2>1. r = [st EXCEPT !.ok = FALSE, !.failed = TRUE]
    BY <1>8 DEF Archive!ReadEntry, Archive!Torn
  <2> HIDE DEF r
  <2>2. QED
    BY <1>1, <1>8, <2>1 DEF States, StateForms, r
<1>9. QED
  BY <1>1, <1>2, <1>4, <1>5, <1>6, <1>7, <1>8

\* The states while the entries of a file are read.
Reading(a, sym, names) ==
    LET st[i \in 0..Len(a.entries)] ==
          IF i = 0 THEN [ok |-> a.magic, failed |-> FALSE, members |-> <<>>, sym |-> sym, dir |-> names]
          ELSE Archive!ReadEntry(st[i - 1], a.entries[i],
                 Archive!Positions(a.entries, Archive!MagicSize)[i])
    IN  st

LEMMA WellFormedFacts ==
    ASSUME NEW a, Archive!WellFormed(a)
    PROVE  /\ Sized(a.entries) /\ a.magic \in BOOLEAN
           /\ \A i \in 1..Len(a.entries) :
                /\ a.entries[i] \in Archive!EntryForms
                /\ a.entries[i].kind = "member" => ~a.entries[i].cut
                /\ Archive!Positions(a.entries, Archive!MagicSize)[i] \in Nat
           /\ \A i, j \in 1..Len(a.entries) :
                a.entries[i].kind = "member" /\ a.entries[j].kind = "names" => j < i
<1>1. a.entries \in Seq(Archive!EntryForms)
  BY DEF Archive!WellFormed
<1>2. /\ Len(a.entries) \in Nat /\ DOMAIN a.entries = 1..Len(a.entries)
      /\ \A i \in 1..Len(a.entries) : a.entries[i] \in Archive!EntryForms
  BY <1>1, LenProperties, ElementOfSeq
<1>3. Sized(a.entries)
  BY <1>2 DEF Sized, Archive!EntryForms
<1>4. \A i \in 1..Len(a.entries) : Archive!Positions(a.entries, Archive!MagicSize)[i] \in Nat
  <2>1. \A i \in 1..(Len(a.entries) + 1) : Archive!Positions(a.entries, Archive!MagicSize)[i] \in Nat
    BY <1>3, PositionsFacts DEF Archive!MagicSize
  <2>2. QED
    BY <1>2, <2>1
<1>5. QED
  BY <1>2, <1>3, <1>4 DEF Archive!WellFormed

LEMMA ReadingFacts ==
    ASSUME NEW a, Archive!WellFormed(a), NEW sym \in SymMaps, NEW names \in Seq(DirNames)
    PROVE  LET st == Reading(a, sym, names)
               n == Len(a.entries)
           IN  /\ st \in [0..n -> States]
               /\ st[0] = [ok |-> a.magic, failed |-> FALSE, members |-> <<>>, sym |-> sym, dir |-> names]
               /\ \A i \in 1..n : st[i] = Archive!ReadEntry(st[i - 1], a.entries[i],
                    Archive!Positions(a.entries, Archive!MagicSize)[i])
<1> DEFINE n == Len(a.entries)
           pos(i) == Archive!Positions(a.entries, Archive!MagicSize)[i]
           first == [ok |-> a.magic, failed |-> FALSE, members |-> <<>>, sym |-> sym, dir |-> names]
           step == [x \in (1..n) \X States |-> Archive!ReadEntry(x[2], a.entries[x[1]], pos(x[1]))]
           Eq(f) == f = [i \in 0..n |-> IF i = 0 THEN first
                                        ELSE Archive!ReadEntry(f[i - 1], a.entries[i], pos(i))]
           f0 == Reading(a, sym, names)
<1>1. /\ n \in Nat /\ a.magic \in BOOLEAN
      /\ \A i \in 1..n : /\ a.entries[i] \in Archive!EntryForms /\ pos(i) \in Nat
                         /\ a.entries[i].kind = "member" => ~a.entries[i].cut
  BY WellFormedFacts DEF Sized
<1>2. first \in States
  BY <1>1, EmptySeq DEF States, StateForms
<1> HIDE DEF n, pos, first
<1>3. step \in [(1..n) \X States -> States]
  <2>1. ASSUME NEW i \in 1..n, NEW s \in States PROVE Archive!ReadEntry(s, a.entries[i], pos(i)) \in States
    BY <1>1, ReadEntryFacts
  <2>2. QED
    BY <2>1
<1>4. PICK f : Iterates(f, step, n, States, first)
  <2>1. Steps(step, n, States, first)
    <3> HIDE DEF step
    <3>1. QED
      BY <1>1, <1>2, <1>3 DEF Steps
  <2> HIDE DEF step
  <2>2. QED
    BY <2>1, RecursionExists
<1>5. f \in [0..n -> States] /\ f[0] = first /\ \A i \in 1..n : f[i] = step[<<i, f[i - 1]>>]
  <2> HIDE DEF step
  <2>1. QED
    BY <1>4 DEF Iterates
<1>6. \A i \in 1..n : f[i] = Archive!ReadEntry(f[i - 1], a.entries[i], pos(i))
  <2> TAKE i \in 1..n
  <2>1. f[i - 1] \in States
    BY <1>1, <1>5
  <2>2. step[<<i, f[i - 1]>>] = Archive!ReadEntry(f[i - 1], a.entries[i], pos(i))
    BY <2>1
  <2>3. QED
    BY <1>5, <2>2
<1>7. Eq(f)
  <2>1. \A i \in 0..n : f[i] = IF i = 0 THEN first ELSE Archive!ReadEntry(f[i - 1], a.entries[i], pos(i))
    BY <1>1, <1>5, <1>6
  <2>2. f = [i \in 0..n |-> f[i]]
    BY <1>5
  <2>3. QED
    BY <2>1, <2>2
<1>8. f0 = CHOOSE g : Eq(g)
  BY DEF Reading, n, pos, first
<1>9. Eq(f0)
  <2> HIDE DEF f0, Eq
  <2>1. QED
    BY <1>7, <1>8
<1> HIDE DEF f0
<1>10. f0[0] = first /\ \A i \in 1..n : f0[i] = Archive!ReadEntry(f0[i - 1], a.entries[i], pos(i))
  <2>1. \A i \in 0..n : f0[i] = IF i = 0 THEN first ELSE Archive!ReadEntry(f0[i - 1], a.entries[i], pos(i))
    BY <1>9
  <2>2. 0 \in 0..n /\ \A i \in 1..n : i \in 0..n /\ i # 0
    BY <1>1
  <2>3. QED
    BY <2>1, <2>2
<1>11. \A i \in 0..n : f0[i] = f[i]
  <2> HIDE DEF Eq, step
  <2>1. f0[0] = f[0] /\ \A i \in 1..n : f0[i - 1] = f[i - 1] => f0[i] = f[i]
    BY <1>5, <1>6, <1>10
  <2>2. QED
    BY <1>1, <2>1, RecursionUnique
<1>12. f0 \in [0..n -> States]
  BY <1>5, <1>9, <1>11
<1>13. QED
  BY <1>10, <1>12 DEF f0, n, pos, first

\* A table of the file has this line.
Listed(l, a) ==
    \E k \in 1..Len(a.entries) : /\ a.entries[k].kind = "symbols"
                                 /\ \E x \in 1..Len(a.entries[k].table) : l = a.entries[k].table[x]

LEMMA LocationsAre ==
    ASSUME NEW a, Archive!WellFormed(a)
    PROVE  \A l : l \in Archive!Locations(a) <=> Listed(l, a)
<1>1. DOMAIN a.entries = 1..Len(a.entries) /\ \A i \in 1..Len(a.entries) : a.entries[i] \in Archive!EntryForms
  BY WellFormedFacts DEF Sized
<1>2. \A k \in 1..Len(a.entries) : DOMAIN a.entries[k].table = 1..Len(a.entries[k].table)
  <2> TAKE k \in 1..Len(a.entries)
  <2>1. a.entries[k].table \in Seq([symbol : Archive!Symbols, at : Nat])
    BY <1>1 DEF Archive!EntryForms
  <2>2. QED
    BY <2>1, LenProperties
<1>3. \A f : Archive!Range(f) = {f[x] : x \in DOMAIN f}
  BY DEF Archive!Range
<1>4. QED
  BY <1>1, <1>2, <1>3 DEF Archive!Locations, Listed

Coherent(d, ms) == \A j \in 1..Len(ms) : NameOf(d, ms[j].short) = ms[j].name

\* While a file is read, the names are those in the directory, and the
\* symbols those of the tables.
HoldsSoFar(a, sym, x, i) ==
    /\ Coherent(x.dir, x.members)
    /\ \A j \in 1..Len(x.members) : ~x.members[j].new
    /\ \A s \in DOMAIN x.sym :
         s \in DOMAIN sym \/ \E l \in Archive!Locations(a) : l.symbol = s /\ l.at = x.sym[s]
    /\ x.ok => \A k \in 1..i : a.entries[k].kind = "symbols" =>
         \A y \in 1..Len(a.entries[k].table) : a.entries[k].table[y].symbol \in DOMAIN x.sym

LEMMA ReadingHolds ==
    ASSUME NEW a, Archive!WellFormed(a), NEW sym \in SymMaps, NEW names \in Seq(DirNames)
    PROVE  \A i \in 0..Len(a.entries) : HoldsSoFar(a, sym, Reading(a, sym, names)[i], i)
<1> DEFINE st == Reading(a, sym, names)
           n == Len(a.entries)
           es == a.entries
           pos == Archive!Positions(a.entries, Archive!MagicSize)
           Named(i) == Coherent(st[i].dir, st[i].members)
           Old(i) == \A j \in 1..Len(st[i].members) : ~st[i].members[j].new
           Started(i) == Len(st[i].members) > 0 => \E k \in 1..i : es[k].kind = "member"
           From(i) == \A s \in DOMAIN st[i].sym :
                        \/ s \in DOMAIN sym
                        \/ \E l \in Archive!Locations(a) : l.symbol = s /\ l.at = st[i].sym[s]
           All(i) == st[i].ok => \A k \in 1..i : es[k].kind = "symbols" =>
                       \A x \in 1..Len(es[k].table) : es[k].table[x].symbol \in DOMAIN st[i].sym
           P == {i \in 0..n : Named(i) /\ Old(i) /\ Started(i) /\ From(i) /\ All(i)}
<1>1. /\ n \in Nat
      /\ \A i \in 1..n : es[i] \in Archive!EntryForms /\ pos[i] \in Nat /\ (es[i].kind = "member" => ~es[i].cut)
      /\ \A i, j \in 1..n : es[i].kind = "member" /\ es[j].kind = "names" => j < i
  BY WellFormedFacts DEF Sized
<1>2. /\ st \in [0..n -> States]
      /\ st[0] = [ok |-> a.magic, failed |-> FALSE, members |-> <<>>, sym |-> sym, dir |-> names]
      /\ \A i \in 1..n : st[i] = Archive!ReadEntry(st[i - 1], es[i], pos[i])
  BY ReadingFacts
<1>3. \A l : l \in Archive!Locations(a) <=>
             \E k \in 1..n : es[k].kind = "symbols" /\ \E x \in 1..Len(es[k].table) : l = es[k].table[x]
  <2>1. \A l : l \in Archive!Locations(a) <=> Listed(l, a)
    BY LocationsAre
  <2>2. QED
    BY <2>1 DEF Listed
<1> HIDE DEF st, n, es, pos
<1>4. 0 \in P
  <2>1. /\ Len(st[0].members) = 0 /\ st[0].sym = sym
    BY <1>2
  <2>2. \A k \in 1..0 : FALSE
    OBVIOUS
  <2>3. \A j \in 1..Len(st[0].members) : FALSE
    BY <2>1
  <2>4. Named(0) /\ Old(0) /\ Started(0)
    BY <2>1, <2>3 DEF Coherent
  <2>5. From(0) /\ All(0)
    BY <2>1, <2>2
  <2>6. 0 \in 0..n
    BY <1>1
  <2>7. QED
    BY <2>4, <2>5, <2>6
<1>5. ASSUME NEW i \in 1..n, i - 1 \in P PROVE i \in P
  <2> DEFINE b == st[i - 1]
             r == st[i]
             e == es[i]
  <2>1. b \in States /\ r \in States /\ i - 1 \in 0..n /\ i \in 0..n
    BY <1>1, <1>2
  <2>2. r = Archive!ReadEntry(b, e, pos[i]) /\ e \in Archive!EntryForms /\ pos[i] \in Nat
        /\ (e.kind = "member" => ~e.cut)
    BY <1>1, <1>2
  <2>3. b.members \in Seq(Members) /\ Len(b.members) \in Nat /\ b.sym \in SymMaps /\ b.dir \in Seq(DirNames)
    BY <2>1, LenProperties DEF States, StateForms
  <2>4. Named(i - 1) /\ Old(i - 1) /\ Started(i - 1) /\ From(i - 1) /\ All(i - 1)
    BY <1>5
  <2>5. e.kind \in {"symbols", "names", "member", "part"}
        /\ e.table \in Seq([symbol : Archive!Symbols, at : Nat])
    BY <2>2 DEF Archive!EntryForms
  <2> HIDE DEF b, r, e
  <2>6. Coherent(b.dir, b.members) /\ (\A j \in 1..Len(b.members) : ~b.members[j].new)
    BY <2>4 DEF b
  <2>10. /\ b.ok \in BOOLEAN
         /\ ~b.ok => r = b
         /\ b.ok /\ e.kind = "symbols" => r.members = b.members /\ r.dir = b.dir
         /\ b.ok /\ e.kind = "symbols" /\ (e.cut \/ e.bad) => ~r.ok /\ r.sym = b.sym
         /\ b.ok /\ e.kind = "names" => r.members = b.members /\ r.sym = b.sym
         /\ b.ok /\ e.kind = "member" => r.sym = b.sym /\ r.dir = b.dir
         /\ b.ok /\ e.kind = "member" /\ (e.bad \/ NameOf(b.dir, e.short) = NoName) => r.members = b.members
         /\ b.ok /\ e.kind = "part" => r.members = b.members /\ r.sym = b.sym /\ r.dir = b.dir
    <3>1. b.ok \in BOOLEAN
      BY <2>1 DEF States, StateForms
    <3>2. b \in States /\ e \in Archive!EntryForms /\ pos[i] \in Nat /\ (e.kind = "member" => ~e.cut)
      BY <2>1, <2>2
    <3> DEFINE t == Archive!ReadEntry(b, e, pos[i])
    <3>7. ~b.ok => t = b
      BY DEF Archive!ReadEntry
    <3>8. b.ok /\ e.kind = "symbols" => t.members = b.members /\ t.dir = b.dir
      BY <3>2, ReadEntryFacts
    <3>9. b.ok /\ e.kind = "symbols" /\ (e.cut \/ e.bad) => ~t.ok /\ t.sym = b.sym
      BY <3>2, ReadEntryFacts
    <3>3. b.ok /\ e.kind = "names" => t.members = b.members /\ t.sym = b.sym
      BY <3>2, ReadEntryFacts
    <3>4. b.ok /\ e.kind = "member" => t.sym = b.sym /\ t.dir = b.dir
      BY <3>2, ReadEntryFacts
    <3>10. b.ok /\ e.kind = "member" /\ (e.bad \/ NameOf(b.dir, e.short) = NoName) => t.members = b.members
      BY <3>2, ReadEntryFacts
    <3>11. b.ok /\ e.kind = "part" => t.members = b.members /\ t.sym = b.sym /\ t.dir = b.dir
      BY <3>2 DEF Archive!ReadEntry, Archive!Torn, States, StateForms
    <3>5. r = t
      BY <2>2
    <3> HIDE DEF t
    <3>6. QED
      BY <3>1, <3>3, <3>4, <3>5, <3>7, <3>8, <3>9, <3>10, <3>11
  <2>7. Named(i) /\ Old(i) /\ Started(i)
    <3>1. CASE r.members = b.members /\ r.dir = b.dir
      <4>1. Started(i)
        BY <1>1, <2>4, <3>1 DEF b, r
      <4>2. QED
        BY <2>6, <3>1, <4>1 DEF b, r
    <3>2. CASE b.ok /\ e.kind = "names"
      <4>1. r.members = b.members
        BY <2>1, <2>2, <3>2, ReadEntryFacts
      <4>2. ~\E k \in 1..(i - 1) : es[k].kind = "member"
        <5>1. ASSUME NEW k \in 1..(i - 1), es[k].kind = "member" PROVE FALSE
          <6>1. k \in 1..n /\ es[i].kind = "names" /\ ~(i < k)
            BY <1>1, <3>2 DEF e
          <6>2. QED
            BY <1>1, <5>1, <6>1
        <5>2. QED
          BY <5>1
      <4>3. Len(b.members) = 0
        BY <2>3, <2>4, <4>2 DEF b
      <4>4. Len(r.members) = 0 /\ \A j \in 1..Len(r.members) : FALSE
        BY <4>1, <4>3
      <4>5. QED
        BY <4>4 DEF r, Coherent
    <3>3. CASE b.ok /\ e.kind = "member" /\ ~e.bad /\ NameOf(b.dir, e.short) # NoName
      <4> DEFINE m == [name |-> NameOf(b.dir, e.short), short |-> e.short, size |-> e.size, pos |-> pos[i],
                       data |-> e.data, new |-> FALSE, cut |-> FALSE]
      <4>1. r.members = Append(b.members, m) /\ r.dir = b.dir /\ r.ok
        BY <2>1, <2>2, <3>3, ReadEntryFacts
      <4>2. m.name = NameOf(b.dir, m.short) /\ ~m.new
        OBVIOUS
      <4> HIDE DEF m
      <4>3. /\ Len(r.members) = Len(b.members) + 1 /\ r.members[Len(b.members) + 1] = m
            /\ \A j \in 1..Len(b.members) : r.members[j] = b.members[j]
        BY <2>3, <4>1, AppendProperties
      <4>4. \A j \in 1..Len(r.members) : j \in 1..Len(b.members) \/ j = Len(b.members) + 1
        BY <2>3, <4>3
      <4>5. Coherent(r.dir, r.members)
        BY <2>6, <4>1, <4>2, <4>3, <4>4 DEF Coherent
      <4>6. \A j \in 1..Len(r.members) : ~r.members[j].new
        BY <2>6, <4>2, <4>3, <4>4
      <4>7. i \in 1..i /\ es[i].kind = "member"
        BY <1>1, <3>3 DEF e
      <4>8. QED
        BY <4>5, <4>6, <4>7 DEF r
    <3>4. \/ r.members = b.members /\ r.dir = b.dir
          \/ b.ok /\ e.kind = "names"
          \/ b.ok /\ e.kind = "member" /\ ~e.bad /\ NameOf(b.dir, e.short) # NoName
      BY <2>10, <2>5
    <3>5. QED
      BY <3>1, <3>2, <3>3, <3>4
  <2>8. From(i) /\ All(i)
    <3>1. CASE r.sym = b.sym /\ (e.kind = "symbols" => ~r.ok)
      <4>1. r.ok => b.ok
        BY <2>1, <2>2, ReadEntryFacts
      <4>2. From(i)
        BY <2>4, <3>1 DEF b, r
      <4>3. ASSUME r.ok, NEW k \in 1..i, es[k].kind = "symbols",
                   NEW x \in 1..Len(es[k].table)
            PROVE  es[k].table[x].symbol \in DOMAIN r.sym
        <5>1. k \in 1..(i - 1)
          BY <1>1, <3>1, <4>3 DEF e
        <5>2. QED
          BY <2>4, <3>1, <4>1, <4>3, <5>1 DEF b
      <4>4. QED
        BY <4>2, <4>3 DEF r
    <3>2. CASE b.ok /\ e.kind = "symbols" /\ ~e.cut /\ ~e.bad
      <4>1. r.sym = Archive!AddTable(b.sym, e.table) /\ r.ok
        BY <2>1, <2>2, <3>2, ReadEntryFacts
      <4>2. /\ DOMAIN r.sym = DOMAIN b.sym \cup {e.table[x].symbol : x \in 1..Len(e.table)}
            /\ \A s \in DOMAIN r.sym : \/ s \in DOMAIN b.sym /\ r.sym[s] = b.sym[s]
                                       \/ \E x \in 1..Len(e.table) : e.table[x].symbol = s /\ r.sym[s] = e.table[x].at
        <5> DEFINE t == Archive!AddTable(b.sym, e.table)
        <5>1. /\ DOMAIN t = DOMAIN b.sym \cup {e.table[x].symbol : x \in 1..Len(e.table)}
              /\ \A s \in DOMAIN t : \/ s \in DOMAIN b.sym /\ t[s] = b.sym[s]
                                     \/ \E x \in 1..Len(e.table) : e.table[x].symbol = s /\ t[s] = e.table[x].at
          BY <2>3, <2>5, AddTableFacts
        <5> HIDE DEF t
        <5>2. r.sym = t
          BY <4>1 DEF t
        <5>3. QED
          BY <5>1, <5>2
      <4>3. \A x \in 1..Len(e.table) : e.table[x] \in Archive!Locations(a)
        BY <1>3, <3>2 DEF e
      <4>4. From(i)
        <5> TAKE s \in DOMAIN st[i].sym
        <5>1. CASE s \in DOMAIN b.sym /\ r.sym[s] = b.sym[s]
          BY <2>4, <5>1 DEF b, r
        <5>2. CASE \E x \in 1..Len(e.table) : e.table[x].symbol = s /\ r.sym[s] = e.table[x].at
          BY <4>3, <5>2 DEF r
        <5>3. QED
          BY <4>2, <5>1, <5>2 DEF r
      <4>5. ASSUME NEW k \in 1..i, es[k].kind = "symbols", NEW x \in 1..Len(es[k].table)
            PROVE  es[k].table[x].symbol \in DOMAIN r.sym
        <5>1. CASE k = i
          BY <4>2, <5>1 DEF e
        <5>2. CASE k # i
          <6>1. k \in 1..(i - 1)
            BY <1>1, <5>2
          <6>2. es[k].table[x].symbol \in DOMAIN b.sym
            BY <2>4, <3>2, <4>5, <6>1 DEF b
          <6>3. QED
            BY <4>2, <6>2
        <5>3. QED
          BY <5>1, <5>2
      <4>6. QED
        BY <4>4, <4>5 DEF r
    <3>3. \/ r.sym = b.sym /\ (e.kind = "symbols" => ~r.ok)
          \/ b.ok /\ e.kind = "symbols" /\ ~e.cut /\ ~e.bad
      BY <2>10, <2>5
    <3>4. QED
      BY <3>1, <3>2, <3>3
  <2>9. QED
    BY <2>1, <2>7, <2>8
<1>6. \A i \in 0..n : i \in P
  <2> HIDE DEF P
  <2>1. \A i \in 1..n : i - 1 \in P => i \in P
    BY <1>5
  <2>2. QED
    BY <1>1, <1>4, <2>1, UpTo
<1>7. QED
  BY <1>6 DEF st, n, es, HoldsSoFar

LEMMA IndexOfFacts ==
    ASSUME NEW ms \in Seq(Members), NEW at
    PROVE  /\ Archive!IndexOf(ms, at) \in Nat
           /\ (\E i \in 1..Len(ms) : ms[i].pos = at) =>
                /\ Archive!IndexOf(ms, at) = Archive!MemberAt(ms, {at}) - 1
                /\ Archive!MemberAt(ms, {at}) \in 1..Len(ms)
                /\ ms[Archive!MemberAt(ms, {at})].pos = at
<1> DEFINE i == Archive!MemberAt(ms, {at})
<1>1. Len(ms) \in Nat /\ DOMAIN ms = 1..Len(ms)
  BY LenProperties
<1>2. CASE \E k \in 1..Len(ms) : ms[k].pos = at
  <2>1. i = CHOOSE k \in 1..Len(ms) : ms[k].pos \in {at}
    BY <1>1 DEF Archive!MemberAt
  <2>2. \E k \in 1..Len(ms) : ms[k].pos \in {at}
    BY <1>2
  <2>3. i \in 1..Len(ms) /\ ms[i].pos \in {at}
    BY <2>1, <2>2
  <2>4. Archive!IndexOf(ms, at) = i - 1
    BY <1>1, <1>2 DEF Archive!IndexOf
  <2>5. QED
    BY <1>1, <2>3, <2>4
<1>3. CASE ~\E k \in 1..Len(ms) : ms[k].pos = at
  BY <1>1, <1>3 DEF Archive!IndexOf
<1>4. QED
  BY <1>2, <1>3

LEMMA ReadAllIs ==
    ASSUME NEW a, Archive!WellFormed(a), NEW sym \in SymMaps, NEW names \in Seq(DirNames)
    PROVE  LET e == Reading(a, sym, names)[Len(a.entries)]
               r == Archive!ReadAll(a, sym, names)
           IN  /\ e \in States /\ r.ok = e.ok /\ r.members = e.members /\ r.dir = e.dir
               /\ r.failed = e.failed
               /\ ~r.ok => r.sym = e.sym
               /\ r.ok => r.sym = [s \in DOMAIN e.sym |-> Archive!IndexOf(e.members, e.sym[s])]
<1> DEFINE e == Reading(a, sym, names)[Len(a.entries)]
           r == Archive!ReadAll(a, sym, names)
<1>1. e \in States
  <2>1. Len(a.entries) \in 0..Len(a.entries)
    BY WellFormedFacts DEF Sized
  <2>2. Reading(a, sym, names) \in [0..Len(a.entries) -> States]
    BY ReadingFacts
  <2>3. QED
    BY <2>1, <2>2
<1>2. r = IF e.ok THEN [e EXCEPT !.sym = [s \in DOMAIN e.sym |-> Archive!IndexOf(e.members, e.sym[s])]] ELSE e
  BY DEF Archive!ReadAll, Reading
<1> HIDE DEF e, r
<1>3. DOMAIN e = {"ok", "failed", "members", "sym", "dir"} /\ e.ok \in BOOLEAN
  BY <1>1 DEF States, StateForms
<1>4. r.ok = e.ok /\ r.members = e.members /\ r.dir = e.dir /\ r.failed = e.failed
  BY <1>2, <1>3
<1>5. ~r.ok => r.sym = e.sym
  BY <1>2, <1>4
<1>6. r.ok => r.sym = [s \in DOMAIN e.sym |-> Archive!IndexOf(e.members, e.sym[s])]
  BY <1>2, <1>3, <1>4
<1>7. QED
  BY <1>1, <1>4, <1>5, <1>6 DEF e, r

LEMMA ReadAllFacts ==
    ASSUME NEW a, Archive!WellFormed(a), NEW sym \in SymMaps, NEW names \in Seq(DirNames)
    PROVE  LET r == Archive!ReadAll(a, sym, names)
           IN  /\ r.ok \in BOOLEAN /\ r.members \in Seq(Members) /\ r.dir \in Seq(DirNames)
               /\ r.sym \in SymMaps /\ r.failed \in BOOLEAN /\ (r.failed => ~r.ok)
               /\ Coherent(r.dir, r.members)
               /\ \A j \in 1..Len(r.members) : ~r.members[j].new
<1> DEFINE n == Len(a.entries)
           e == Reading(a, sym, names)[n]
           r == Archive!ReadAll(a, sym, names)
<1>1. /\ e \in States /\ r.ok = e.ok /\ r.members = e.members /\ r.dir = e.dir
      /\ r.failed = e.failed /\ (~r.ok => r.sym = e.sym)
      /\ r.ok => r.sym = [s \in DOMAIN e.sym |-> Archive!IndexOf(e.members, e.sym[s])]
  BY ReadAllIs
<1>2. n \in 0..n
  BY WellFormedFacts DEF Sized
<1>3. Coherent(e.dir, e.members) /\ \A j \in 1..Len(e.members) : ~e.members[j].new
  <2>1. HoldsSoFar(a, sym, e, n)
    BY <1>2, ReadingHolds
  <2>2. QED
    BY <2>1 DEF HoldsSoFar
<1> HIDE DEF e, r, n
<1>4. /\ r.ok \in BOOLEAN /\ e.members \in Seq(Members) /\ e.dir \in Seq(DirNames) /\ e.sym \in SymMaps
      /\ r.failed \in BOOLEAN /\ (r.failed => ~r.ok)
  BY <1>1 DEF States, StateForms
<1>5. r.sym \in SymMaps
  <2>1. CASE ~r.ok
    BY <1>1, <1>4, <2>1
  <2>2. CASE r.ok
    <3>1. DOMAIN e.sym \subseteq Archive!Symbols
      BY <1>4, SymMapIs
    <3>2. \A s \in DOMAIN e.sym : Archive!IndexOf(e.members, e.sym[s]) \in Nat
      BY <1>4, IndexOfFacts
    <3>3. r.sym \in [DOMAIN e.sym -> Nat]
      BY <1>1, <2>2, <3>2
    <3>4. QED
      BY <3>1, <3>3, SymMapIs
  <2>3. QED
    BY <2>1, <2>2
<1>6. QED
  BY <1>1, <1>3, <1>4, <1>5 DEF r

\* An archive that can be read: its symbols are those its tables name, each
\* with its member.
LEMMA ToldFacts ==
    ASSUME NEW a, Archive!WellFormed(a), Archive!Orderly(a),
           Archive!ReadAll(a, Archive!NoMap, <<>>).ok
    PROVE  LET r == Archive!ReadAll(a, Archive!NoMap, <<>>)
               told == Archive!Told(a)
           IN  /\ DOMAIN told = DOMAIN r.sym /\ told = [s \in DOMAIN told |-> told[s]]
               /\ \A s \in DOMAIN told : told[s] \in 1..Len(r.members) /\ r.sym[s] + 1 = told[s]
               /\ \A i, j \in 1..Len(r.members) : r.members[i].name = r.members[j].name => i = j
<1> DEFINE n == Len(a.entries)
           e == Reading(a, Archive!NoMap, <<>>)[n]
           r == Archive!ReadAll(a, Archive!NoMap, <<>>)
           ms == r.members
           at(s) == {ms[i].pos : i \in DOMAIN ms} \cap
                      {l.at : l \in {l \in Archive!Locations(a) : l.symbol = s}}
           told == Archive!Told(a)
<1>1. Archive!NoMap \in SymMaps /\ DOMAIN Archive!NoMap = {} /\ <<>> \in Seq(DirNames)
  BY NoMapIs, EmptySeq
<1>2. /\ e \in States /\ r.ok /\ e.ok /\ r.members = e.members
      /\ r.sym = [s \in DOMAIN e.sym |-> Archive!IndexOf(e.members, e.sym[s])]
  <2> DEFINE no == Archive!NoMap
             x == Reading(a, no, <<>>)[Len(a.entries)]
             y == Archive!ReadAll(a, no, <<>>)
  <2>1. /\ x \in States /\ y.ok = x.ok /\ y.members = x.members
        /\ y.ok => y.sym = [s \in DOMAIN x.sym |-> Archive!IndexOf(x.members, x.sym[s])]
    <3> HIDE DEF no
    <3>1. no \in SymMaps /\ <<>> \in Seq(DirNames)
      BY <1>1 DEF no
    <3>2. QED
      BY <3>1, ReadAllIs
  <2>2. y.ok
    OBVIOUS
  <2> HIDE DEF x, y
  <2>3. x \in States /\ y.ok /\ x.ok /\ y.members = x.members
        /\ y.sym = [s \in DOMAIN x.sym |-> Archive!IndexOf(x.members, x.sym[s])]
    BY <2>1, <2>2
  <2>4. QED
    BY <2>3 DEF x, y
<1>3. /\ \A s \in DOMAIN e.sym : \E l \in Archive!Locations(a) : l.symbol = s /\ l.at = e.sym[s]
      /\ \A k \in 1..n : a.entries[k].kind = "symbols" =>
           \A x \in 1..Len(a.entries[k].table) : a.entries[k].table[x].symbol \in DOMAIN e.sym
  <2>1. n \in 0..n
    BY WellFormedFacts DEF Sized
  <2>2. HoldsSoFar(a, Archive!NoMap, e, n)
    BY <1>1, <2>1, ReadingHolds
  <2> HIDE DEF n, e, r
  <2>3. QED
    BY <1>1, <1>2, <2>2 DEF HoldsSoFar
<1>4. \A l : l \in Archive!Locations(a) <=>
        \E k \in 1..n : /\ a.entries[k].kind = "symbols"
                        /\ \E x \in 1..Len(a.entries[k].table) : l = a.entries[k].table[x]
  <2>1. \A l : l \in Archive!Locations(a) <=> Listed(l, a)
    BY LocationsAre
  <2>2. QED
    BY <2>1 DEF Listed
<1>5. ms \in Seq(Members) /\ DOMAIN ms = 1..Len(ms) /\ e.sym \in SymMaps
  BY <1>2, LenProperties DEF States, StateForms
<1>6. /\ \A i, j \in DOMAIN ms : ms[i].name = ms[j].name => i = j
      /\ \A l \in Archive!Locations(a) : \E i \in DOMAIN ms : ms[i].pos = l.at
      /\ \A l, k \in Archive!Locations(a) : l.symbol = k.symbol => l.at = k.at
  BY <1>2 DEF Archive!Orderly
<1>7. told = [s \in {s \in Archive!Symbols : at(s) # {}} |-> Archive!MemberAt(ms, at(s))]
  BY DEF Archive!Told
<1>8. DOMAIN e.sym \subseteq Archive!Symbols
  BY <1>5, SymMapIs
<1> HIDE DEF n, e, r, ms, told
<1>9. \A l \in Archive!Locations(a) : l.symbol \in DOMAIN e.sym
  BY <1>3, <1>4
<1>10. ASSUME NEW s \in DOMAIN e.sym
       PROVE  at(s) = {e.sym[s]} /\ \E i \in DOMAIN ms : ms[i].pos = e.sym[s]
  <2>1. PICK l \in Archive!Locations(a) : l.symbol = s /\ l.at = e.sym[s]
    BY <1>3
  <2>2. PICK i \in DOMAIN ms : ms[i].pos = e.sym[s]
    BY <1>6, <2>1
  <2>3. \A k \in Archive!Locations(a) : k.symbol = s => k.at = e.sym[s]
    BY <1>6, <2>1
  <2>4. QED
    BY <2>1, <2>2, <2>3
<1>11. \A s : at(s) # {} => s \in DOMAIN e.sym
  BY <1>9
<1> HIDE DEF at
<1>12. {s \in Archive!Symbols : at(s) # {}} = DOMAIN e.sym
  BY <1>8, <1>10, <1>11
<1>13. DOMAIN told = DOMAIN e.sym /\ DOMAIN r.sym = DOMAIN e.sym
  BY <1>2, <1>7, <1>12
<1>14. ASSUME NEW s \in DOMAIN e.sym
       PROVE  told[s] \in 1..Len(ms) /\ r.sym[s] + 1 = told[s]
  <2>1. told[s] = Archive!MemberAt(ms, {e.sym[s]})
    BY <1>7, <1>10, <1>12
  <2>2. r.sym[s] = Archive!IndexOf(ms, e.sym[s])
    BY <1>2 DEF ms
  <2>3. \E i \in 1..Len(ms) : ms[i].pos = e.sym[s]
    BY <1>5, <1>10
  <2>4. /\ Archive!IndexOf(ms, e.sym[s]) = Archive!MemberAt(ms, {e.sym[s]}) - 1
        /\ Archive!MemberAt(ms, {e.sym[s]}) \in 1..Len(ms)
    BY <1>5, <2>3, IndexOfFacts
  <2>5. Len(ms) \in Nat
    BY <1>5, LenProperties
  <2>6. QED
    BY <2>1, <2>2, <2>4, <2>5
<1>15. told = [s \in DOMAIN told |-> told[s]]
  BY <1>7
<1>16. QED
  BY <1>5, <1>6, <1>13, <1>14, <1>15 DEF r, ms, told

-----------------------------------------------------------------------------
(* A file that was saved, and what is read back of it.                      *)

BodyOf(ms) == [i \in DOMAIN ms |-> Archive!Entry("member", ms[i].short, ms[i].size, ms[i].data, <<>>, <<>>)]
NamesOf(d) == Archive!Entry("names", Archive!Short(NoName), Archive!DirSize(d), Garbage, <<>>, d)
SymbolsIn(sz, t) == Archive!Entry("symbols", Archive!Short(NoName), sz, Garbage, t, <<>>)
NamesIn(d) == IF d # <<>> THEN <<NamesOf(d)>> ELSE <<>>
FileOf(ms, d, x) == [magic |-> TRUE, entries |-> x \o NamesIn(d) \o BodyOf(ms)]
Ahead(x, d) == Len(x) + Len(NamesIn(d))

LEMMA EntryFacts ==
    /\ \A ms \in Seq(Members) :
         /\ BodyOf(ms) \in Seq(Archive!EntryForms) /\ Len(BodyOf(ms)) = Len(ms)
         /\ \A i \in 1..Len(ms) :
              /\ BodyOf(ms)[i].kind = "member" /\ ~BodyOf(ms)[i].bad /\ ~BodyOf(ms)[i].cut
              /\ BodyOf(ms)[i].short = ms[i].short /\ BodyOf(ms)[i].size = ms[i].size
              /\ BodyOf(ms)[i].data = ms[i].data
    /\ \A d \in Seq(DirNames) :
         /\ NamesOf(d) \in Archive!EntryForms /\ NamesOf(d).kind = "names" /\ NamesOf(d).names = d
         /\ NamesOf(d).size = Archive!DirSize(d) /\ ~NamesOf(d).cut /\ ~NamesOf(d).bad
<1>1. /\ <<>> \in Seq([symbol : Archive!Symbols, at : Nat]) /\ <<>> \in Seq(DirNames)
      /\ Archive!Short(NoName) \in Shorts
  BY EmptySeq DEF Shorts, Archive!Short
<1>2. ASSUME NEW ms \in Seq(Members)
      PROVE  /\ BodyOf(ms) \in Seq(Archive!EntryForms) /\ Len(BodyOf(ms)) = Len(ms)
             /\ \A i \in 1..Len(ms) :
                  /\ BodyOf(ms)[i].kind = "member" /\ ~BodyOf(ms)[i].bad /\ ~BodyOf(ms)[i].cut
                  /\ BodyOf(ms)[i].short = ms[i].short /\ BodyOf(ms)[i].size = ms[i].size
                  /\ BodyOf(ms)[i].data = ms[i].data
  <2>1. Len(ms) \in Nat /\ DOMAIN ms = 1..Len(ms) /\ \A i \in 1..Len(ms) : ms[i] \in Members
    BY LenProperties, ElementOfSeq
  <2> DEFINE b == BodyOf(ms)
  <2>2. ASSUME NEW i \in 1..Len(ms)
        PROVE  /\ b[i] \in Archive!EntryForms
               /\ b[i].kind = "member" /\ ~b[i].bad /\ ~b[i].cut
               /\ b[i].short = ms[i].short /\ b[i].size = ms[i].size /\ b[i].data = ms[i].data
    <3>1. ms[i].short \in Shorts /\ ms[i].size \in Nat /\ ms[i].data \in Archive!Contents \cup {Garbage}
      BY <2>1 DEF Members
    <3>2. b[i] = Archive!Entry("member", ms[i].short, ms[i].size, ms[i].data, <<>>, <<>>)
      BY <2>1 DEF BodyOf
    <3> HIDE DEF b
    <3>3. QED
      BY <1>1, <3>1, <3>2 DEF Archive!Entry, Archive!EntryForms, Shorts, DirNames
  <2>3. b \in [1..Len(ms) -> Archive!EntryForms]
    <3>1. b = [i \in 1..Len(ms) |-> b[i]]
      BY <2>1 DEF BodyOf
    <3> HIDE DEF b
    <3>2. QED
      BY <2>2, <3>1
  <2>4. b \in Seq(Archive!EntryForms) /\ Len(b) = Len(ms)
    BY <2>1, <2>3, SeqOf
  <2>5. QED
    BY <2>2, <2>4
<1>3. ASSUME NEW d \in Seq(DirNames)
      PROVE  /\ NamesOf(d) \in Archive!EntryForms /\ NamesOf(d).kind = "names" /\ NamesOf(d).names = d
             /\ NamesOf(d).size = Archive!DirSize(d) /\ ~NamesOf(d).cut /\ ~NamesOf(d).bad
  <2>1. Archive!DirSize(d) \in Nat
    BY NameAtFacts
  <2>2. QED
    BY <1>1, <2>1 DEF NamesOf, Archive!Entry, Archive!EntryForms, Shorts, DirNames
<1>4. QED
  BY <1>2, <1>3

LEMMA SymbolsInFacts ==
    ASSUME NEW sz \in Nat, NEW t \in Seq([symbol : Archive!Symbols, at : Nat])
    PROVE  /\ SymbolsIn(sz, t) \in Archive!EntryForms /\ SymbolsIn(sz, t).kind = "symbols"
           /\ ~SymbolsIn(sz, t).cut /\ ~SymbolsIn(sz, t).bad /\ SymbolsIn(sz, t).table = t /\ SymbolsIn(sz, t).size = sz
<1>1. <<>> \in Seq(DirNames) /\ Archive!Short(NoName) \in Shorts
  BY EmptySeq DEF Shorts, Archive!Short
<1>2. QED
  BY <1>1 DEF SymbolsIn, Archive!Entry, Archive!EntryForms, Shorts, DirNames

IsFileOf(a, ms, d, x, k) ==
    /\ Archive!WellFormed(a) /\ a.magic = TRUE
    /\ k \in Nat /\ Len(a.entries) = k + Len(ms)
    /\ \A i \in 1..Len(x) : a.entries[i] = x[i]
    /\ d # <<>> => a.entries[k] = NamesOf(d)
    /\ \A i \in 1..Len(ms) : a.entries[k + i] = BodyOf(ms)[i]
    /\ \A i \in 1..k : a.entries[i].kind = "names" => d # <<>>

LEMMA FileOfFacts ==
    ASSUME NEW ms \in Seq(Members), NEW d \in Seq(DirNames), 
           NEW x \in Seq(Archive!EntryForms), Len(x) <= 1, \A i \in 1..Len(x) : x[i].kind = "symbols"
    PROVE  IsFileOf(FileOf(ms, d, x), ms, d, x, Ahead(x, d))
<1> DEFINE y == NamesIn(d)
           b == BodyOf(ms)
           es == x \o y \o b
           k == Ahead(x, d)
           F == Archive!EntryForms
           a == FileOf(ms, d, x)
           n == Len(ms)
<1>1. /\ b \in Seq(F) /\ Len(b) = n /\ n \in Nat /\ \A i \in 1..n : b[i].kind = "member" /\ ~b[i].cut
  BY EntryFacts, LenProperties
<1>2. /\ NamesOf(d) \in F /\ NamesOf(d).kind = "names"
  BY EntryFacts
<1>3. x \in Seq(F) /\ Len(x) \in Nat
  BY LenProperties
<1>4. y \in Seq(F) /\ Len(y) = (IF d # <<>> THEN 1 ELSE 0) /\ (d # <<>> => y[1] = NamesOf(d))
  BY <1>2, EmptySeq DEF NamesIn
<1>5. a.magic = TRUE /\ a.entries = es
  BY DEF FileOf
<1>6. k = Len(x) + Len(y)
  BY DEF Ahead
<1> HIDE DEF y, b, k, F, a, n
<1>7. /\ x \o y \in Seq(F) /\ Len(x \o y) = k /\ k \in Nat
      /\ \A i \in 1..k : (x \o y)[i] = IF i <= Len(x) THEN x[i] ELSE y[i - Len(x)]
  <2>1. /\ x \o y \in Seq(F) /\ Len(x \o y) = Len(x) + Len(y)
        /\ \A i \in 1..(Len(x) + Len(y)) : (x \o y)[i] = IF i <= Len(x) THEN x[i] ELSE y[i - Len(x)]
    BY <1>3, <1>4, ConcatProperties
  <2>2. Len(x) + Len(y) = k /\ k \in Nat
    BY <1>3, <1>4, <1>6
  <2>3. QED
    BY <2>1, <2>2
<1>8. /\ es \in Seq(F) /\ Len(es) = k + n
      /\ \A i \in 1..(k + n) : es[i] = IF i <= k THEN (x \o y)[i] ELSE b[i - k]
  <2> DEFINE z == x \o y
  <2>1. z \in Seq(F) /\ Len(z) = k /\ es = z \o b
    BY <1>7
  <2> HIDE DEF z, es
  <2>2. /\ z \o b \in Seq(F) /\ Len(z \o b) = Len(z) + Len(b)
        /\ \A i \in 1..(Len(z) + Len(b)) : (z \o b)[i] = IF i <= Len(z) THEN z[i] ELSE b[i - Len(z)]
    BY <1>1, <2>1, ConcatProperties
  <2>3. /\ es \in Seq(F) /\ Len(es) = k + n
        /\ \A i \in 1..(k + n) : es[i] = IF i <= k THEN z[i] ELSE b[i - k]
    BY <1>1, <2>1, <2>2
  <2>4. QED
    BY <2>3 DEF z
<1> HIDE DEF es
<1>9. \A i \in 1..Len(x) : es[i] = x[i]
  BY <1>1, <1>3, <1>4, <1>6, <1>7, <1>8
<1>10. d # <<>> => es[k] = NamesOf(d)
  BY <1>1, <1>3, <1>4, <1>6, <1>7, <1>8
<1>11. ASSUME NEW i \in 1..n PROVE es[k + i] = b[i]
  <2>1. k + i \in 1..(k + n) /\ ~(k + i <= k) /\ (k + i) - k = i
    BY <1>1, <1>7
  <2>2. QED
    BY <1>8, <2>1
<1>12. \A i \in 1..k : /\ es[i].kind = "names" => d # <<>>
                       /\ es[i].kind \in {"names", "symbols"}
  <2> TAKE i \in 1..k
  <2>1. i \in 1..(k + n) /\ i <= k
    BY <1>1, <1>7
  <2>2. es[i] = IF i <= Len(x) THEN x[i] ELSE y[i - Len(x)]
    BY <1>7, <1>8, <2>1
  <2>3. CASE i <= Len(x)
    <3>1. i \in 1..Len(x)
      BY <1>3, <2>3
    <3>2. QED
      BY <2>2, <2>3, <3>1
  <2>4. CASE ~(i <= Len(x))
    <3>1. d # <<>> /\ i - Len(x) = 1
      BY <1>3, <1>4, <1>6, <2>1, <2>4
    <3>2. QED
      BY <1>2, <1>4, <2>2, <2>4, <3>1
  <2>5. QED
    BY <2>3, <2>4
<1>13. ASSUME NEW i \in 1..(k + n), es[i].kind = "member"
       PROVE  ~es[i].cut /\ \A j \in 1..(k + n) : es[j].kind = "names" => j < i
  <2>1. i > k /\ i - k \in 1..n
    <3>1. ~(i \in 1..k)
      BY <1>12, <1>13
    <3>2. QED
      BY <1>1, <1>7, <3>1
  <2>2. es[i] = b[i - k]
    BY <1>7, <1>8, <2>1
  <2>3. ASSUME NEW j \in 1..(k + n), es[j].kind = "names" PROVE j < i
    <3>1. CASE j <= k
      BY <1>7, <2>1, <3>1
    <3>2. CASE j > k
      <4>1. j - k \in 1..n /\ ~(j <= k)
        BY <1>1, <1>7, <3>2
      <4>2. es[j] = b[j - k]
        BY <1>8, <4>1
      <4>3. QED
        BY <1>1, <2>3, <4>1, <4>2
    <3>3. QED
      BY <1>7, <3>1, <3>2
  <2>4. QED
    BY <1>1, <2>1, <2>2, <2>3
<1>14. DOMAIN es = 1..(k + n)
  BY <1>8, LenProperties
<1>15. Archive!WellFormed(a)
  BY <1>5, <1>8, <1>13, <1>14 DEF Archive!WellFormed, F
<1>16. QED
  BY <1>5, <1>7, <1>8, <1>9, <1>10, <1>11, <1>12, <1>15 DEF a, k, b, n, IsFileOf

\* What is read has these members, in the file behind k entries, and these
\* symbols.
ReadsBack(a, ms, k, said) ==
    LET r == Archive!ReadAll(a, Archive!NoMap, <<>>)
    IN  /\ r.ok /\ Len(r.members) = Len(ms)
        /\ \A i \in 1..Len(ms) :
             /\ r.members[i].name = ms[i].name /\ r.members[i].data = ms[i].data
             /\ r.members[i].pos = Archive!Positions(a.entries, Archive!MagicSize)[k + i]
        /\ r.sym = [s \in DOMAIN said |-> Archive!IndexOf(r.members, said[s])]

\* Each member that was saved is read back, where it was put.
LEMMA MembersReadBack ==
    ASSUME NEW ms \in Seq(Members), NEW d \in Seq(DirNames), Coherent(d, ms),
           NEW sz \in Nat, NEW t \in Seq([symbol : Archive!Symbols, at : Nat]),
           NEW h \in {<<>>, <<SymbolsIn(sz, t)>>}
    PROVE  ReadsBack(FileOf(ms, d, h), ms, Ahead(h, d),
                     IF h # <<>> THEN Archive!AddTable(Archive!NoMap, t) ELSE Archive!NoMap)
<1> DEFINE e == SymbolsIn(sz, t)
           a == FileOf(ms, d, h)
           es == a.entries
           k == Ahead(h, d)
           n == Len(ms)
           no == Archive!NoMap
           st == Reading(a, no, <<>>)
           pos == Archive!Positions(a.entries, Archive!MagicSize)
           said == IF h # <<>> THEN Archive!AddTable(no, t) ELSE no
           r == Archive!ReadAll(a, no, <<>>)
           F == Archive!EntryForms
<1>1. e \in F /\ e.kind = "symbols" /\ ~e.cut /\ ~e.bad /\ e.table = t
  BY SymbolsInFacts
<1>2. /\ NamesOf(d) \in F /\ NamesOf(d).kind = "names" /\ NamesOf(d).names = d
      /\ ~NamesOf(d).cut /\ ~NamesOf(d).bad
  BY EntryFacts
<1>3. /\ n \in Nat
      /\ \A i \in 1..n : /\ ms[i] \in Members
                         /\ BodyOf(ms)[i].kind = "member" /\ ~BodyOf(ms)[i].bad /\ ~BodyOf(ms)[i].cut
                         /\ BodyOf(ms)[i].short = ms[i].short /\ BodyOf(ms)[i].data = ms[i].data
  BY EntryFacts, LenProperties, ElementOfSeq
<1> HIDE DEF e
<1>4. /\ Archive!WellFormed(a) /\ a.magic = TRUE /\ k \in Nat /\ Len(es) = k + n
      /\ h # <<>> => es[1] = e
      /\ d # <<>> => es[k] = NamesOf(d)
      /\ \A i \in 1..n : es[k + i] = BodyOf(ms)[i]
  <2>1. h = <<>> \/ h = <<e>>
    BY DEF e
  <2>2. e \in Archive!EntryForms /\ e.kind = "symbols"
    BY <1>1
  <2>3. /\ h \in Seq(Archive!EntryForms) /\ Len(h) <= 1 /\ \A i \in 1..Len(h) : h[i].kind = "symbols"
        /\ h # <<>> => 1 \in 1..Len(h) /\ h[1] = e
    <3>1. CASE h = <<>>
      BY <3>1, EmptySeq
    <3>2. CASE h = <<e>>
      BY <2>2, <3>2
    <3>3. QED
      BY <2>1, <3>1, <3>2
  <2>4. IsFileOf(a, ms, d, h, k)
    BY <2>3, FileOfFacts
  <2> HIDE DEF a, k, n
  <2>5. QED
    BY <2>3, <2>4 DEF IsFileOf, n
<1>5. no \in SymMaps /\ <<>> \in Seq(DirNames)
  BY NoMapIs, EmptySeq
<1> HIDE DEF a, no
<1>6. /\ st \in [0..(k + n) -> States]
      /\ st[0] = [ok |-> a.magic, failed |-> FALSE, members |-> <<>>, sym |-> no, dir |-> <<>>]
      /\ \A i \in 1..(k + n) : st[i] = Archive!ReadEntry(st[i - 1], es[i], pos[i])
  <2>1. /\ st \in [0..Len(es) -> States]
        /\ st[0] = [ok |-> a.magic, failed |-> FALSE, members |-> <<>>, sym |-> no, dir |-> <<>>]
        /\ \A i \in 1..Len(es) : st[i] = Archive!ReadEntry(st[i - 1], es[i], pos[i])
    BY <1>4, <1>5, ReadingFacts
  <2> HIDE DEF st, pos, es
  <2>2. QED
    BY <1>4, <2>1
<1>7. \A i \in 1..(k + n) : es[i] \in F /\ pos[i] \in Nat /\ (es[i].kind = "member" => ~es[i].cut)
  <2>1. \A i \in 1..Len(es) : es[i] \in F /\ pos[i] \in Nat /\ (es[i].kind = "member" => ~es[i].cut)
    BY <1>4, WellFormedFacts
  <2> HIDE DEF pos, es, F
  <2>2. QED
    BY <1>4, <2>1
<1>8. k = (IF h # <<>> THEN 1 ELSE 0) + (IF d # <<>> THEN 1 ELSE 0)
  BY DEF Ahead, NamesIn
<1> HIDE DEF es, k, n, st, pos, r, F
<1>9. /\ st[k] \in States /\ st[k].ok = TRUE /\ st[k].members = <<>> /\ st[k].sym = said /\ st[k].dir = d
  <2>1. /\ st[0] \in States /\ st[0].ok = TRUE /\ st[0].members = <<>> /\ st[0].sym = no /\ st[0].dir = <<>>
    <3>1. 0 \in 0..(k + n)
      BY <1>3, <1>4
    <3>2. st[0] \in States
      BY <1>6, <3>1
    <3>3. QED
      BY <1>4, <1>6, <3>2
  <2>2. ASSUME h # <<>>
        PROVE  /\ st[1] \in States /\ st[1].ok = TRUE /\ st[1].members = <<>> /\ st[1].dir = <<>>
               /\ st[1].sym = Archive!AddTable(no, t)
    <3>1. 1 \in 1..(k + n) /\ 1 - 1 = 0
      BY <1>3, <1>4, <1>8, <2>2
    <3>2. st[1] = Archive!ReadEntry(st[0], e, pos[1]) /\ e \in F /\ pos[1] \in Nat
          /\ (e.kind = "member" => ~e.cut)
      BY <1>1, <1>4, <1>6, <1>7, <2>2, <3>1
    <3>3. LET x == Archive!ReadEntry(st[0], e, pos[1])
          IN  /\ x \in States /\ x.ok /\ x.sym = Archive!AddTable(st[0].sym, e.table)
              /\ x.members = st[0].members /\ x.dir = st[0].dir
      <4> DEFINE b == st[0]
                 x == Archive!ReadEntry(b, e, pos[1])
      <4>1. /\ b \in States /\ b.ok /\ e \in Archive!EntryForms /\ pos[1] \in Nat
            /\ e.kind = "symbols" /\ e.kind # "member" /\ ~e.cut /\ ~e.bad
        BY <1>1, <2>1, <3>2 DEF F
      <4> HIDE DEF b
      <4>2. x \in States
        BY <4>1, ReadEntryFacts
      <4>3. x.ok /\ x.sym = Archive!AddTable(b.sym, e.table)
        BY <4>1, ReadEntryFacts
      <4>4. x.members = b.members /\ x.dir = b.dir
        BY <4>1, ReadEntryFacts
      <4>5. QED
        BY <4>2, <4>3, <4>4 DEF b
    <3>4. st[1] \in States /\ st[1].ok /\ st[1].sym = Archive!AddTable(st[0].sym, e.table)
          /\ st[1].members = st[0].members /\ st[1].dir = st[0].dir
      BY <3>2, <3>3
    <3>5. st[1].ok = TRUE
      BY <3>4 DEF States, StateForms
    <3>6. QED
      BY <1>1, <2>1, <3>4, <3>5
  <2>3. ASSUME d # <<>>, st[k - 1] \in States, st[k - 1].ok = TRUE
        PROVE  /\ st[k] \in States /\ st[k].ok = TRUE /\ st[k].members = st[k - 1].members /\ st[k].dir = d
               /\ st[k].sym = st[k - 1].sym
    <3>1. k \in 1..(k + n)
      BY <1>3, <1>4, <1>8, <2>3
    <3> DEFINE x == NamesOf(d)
    <3>2. st[k] = Archive!ReadEntry(st[k - 1], x, pos[k]) /\ x \in F /\ pos[k] \in Nat
          /\ x.kind = "names" /\ x.names = d /\ ~x.cut /\ ~x.bad
      BY <1>2, <1>4, <1>6, <1>7, <2>3, <3>1
    <3> HIDE DEF x
    <3>3. LET y == Archive!ReadEntry(st[k - 1], x, pos[k])
          IN  y \in States /\ y.ok /\ y.members = st[k - 1].members /\ y.sym = st[k - 1].sym /\ y.dir = x.names
      <4> DEFINE b == st[k - 1]
                 y == Archive!ReadEntry(b, x, pos[k])
      <4>1. b \in States /\ b.ok /\ x \in Archive!EntryForms /\ pos[k] \in Nat /\ x.kind = "names" /\ x.kind # "member"
            /\ ~x.cut /\ ~x.bad
        BY <2>3, <3>2 DEF F
      <4> HIDE DEF b
      <4>2. y \in States
        BY <4>1, ReadEntryFacts
      <4>3. y.ok /\ y.members = b.members /\ y.sym = b.sym /\ y.dir = x.names
        BY <4>1, ReadEntryFacts
      <4>4. QED
        BY <4>2, <4>3 DEF b
    <3>4. st[k] \in States /\ st[k].ok /\ st[k].members = st[k - 1].members /\ st[k].sym = st[k - 1].sym
          /\ st[k].dir = d
      BY <3>2, <3>3
    <3>5. st[k].ok = TRUE
      BY <3>4 DEF States, StateForms
    <3>6. QED
      BY <3>4, <3>5
  <2>4. CASE h # <<>> /\ d # <<>>
    <3>1. k = 2 /\ k - 1 = 1
      BY <1>8, <2>4
    <3>2. QED
      BY <2>2, <2>3, <2>4, <3>1
  <2>5. CASE h # <<>> /\ d = <<>>
    <3>1. k = 1
      BY <1>8, <2>5
    <3>2. QED
      BY <2>2, <2>5, <3>1
  <2>6. CASE h = <<>> /\ d # <<>>
    <3>1. k = 1 /\ k - 1 = 0
      BY <1>8, <2>6
    <3>2. QED
      BY <2>1, <2>3, <2>6, <3>1
  <2>7. CASE h = <<>> /\ d = <<>>
    <3>1. k = 0
      BY <1>8, <2>7
    <3>2. QED
      BY <2>1, <2>7, <3>1
  <2>8. QED
    BY <2>4, <2>5, <2>6, <2>7
<1> DEFINE Same(m, i) == m.name = ms[i].name /\ m.data = ms[i].data /\ m.pos = pos[k + i]
           P == {i \in 0..n : /\ st[k + i].ok = TRUE /\ st[k + i].sym = said /\ st[k + i].dir = d
                              /\ Len(st[k + i].members) = i
                              /\ \A j \in 1..i : Same(st[k + i].members[j], j)}
<1> HIDE DEF said, Same
<1>10. 0 \in P
  <2>1. k + 0 = k /\ 0 \in 0..n /\ Len(<<>>) = 0
    BY <1>3, <1>4
  <2>2. \A j \in 1..0 : FALSE
    OBVIOUS
  <2>3. QED
    BY <1>9, <2>1, <2>2
<1>11. ASSUME NEW i \in 1..n, i - 1 \in P PROVE i \in P
  <2> DEFINE b == st[k + (i - 1)]
             x == BodyOf(ms)[i]
             at == pos[k + i]
             m == [name |-> NameOf(d, x.short), short |-> x.short, size |-> x.size, pos |-> at,
                   data |-> x.data, new |-> FALSE, cut |-> FALSE]
  <2>1. k + i \in 1..(k + n) /\ (k + i) - 1 = k + (i - 1) /\ k + (i - 1) \in 0..(k + n) /\ i \in 0..n
    BY <1>3, <1>4
  <2>2. /\ b \in States /\ b.ok = TRUE /\ b.sym = said /\ b.dir = d /\ Len(b.members) = i - 1
        /\ \A j \in 1..(i - 1) : Same(b.members[j], j)
    BY <1>6, <1>11, <2>1
  <2>3. st[k + i] = Archive!ReadEntry(b, x, at) /\ x \in F /\ at \in Nat
    BY <1>4, <1>6, <1>7, <2>1
  <2>4. x.kind = "member" /\ ~x.bad /\ ~x.cut /\ x.short = ms[i].short /\ x.data = ms[i].data
    BY <1>3
  <2>5. NameOf(d, x.short) = ms[i].name /\ ms[i].name \in Archive!Names
    BY <1>3, <2>4 DEF Coherent, Members, n
  <2>6. m.name = ms[i].name /\ m.data = ms[i].data /\ m.pos = at
    BY <2>4, <2>5
  <2> HIDE DEF b, x, at
  <2>7. NameOf(b.dir, x.short) # NoName
    BY <2>2, <2>5, ArchiveConstants
  <2>8. LET y == Archive!ReadEntry(b, x, at)
        IN  /\ y \in States /\ y.ok /\ y.sym = b.sym /\ y.dir = b.dir
            /\ y.members = Append(b.members,
                 [name |-> NameOf(b.dir, x.short), short |-> x.short, size |-> x.size, pos |-> at,
                  data |-> x.data, new |-> FALSE, cut |-> FALSE])
    BY <2>2, <2>3, <2>4, <2>7, ReadEntryFacts DEF F
  <2>9. /\ st[k + i] \in States /\ st[k + i].ok /\ st[k + i].sym = said /\ st[k + i].dir = d
        /\ st[k + i].members = Append(b.members, m)
    BY <2>2, <2>3, <2>8
  <2>10. st[k + i].ok = TRUE
    BY <2>9 DEF States, StateForms
  <2>11. Same(m, i)
    BY <2>6 DEF Same, at
  <2> HIDE DEF m
  <2>12. /\ Len(st[k + i].members) = i /\ st[k + i].members[i] = m
         /\ \A j \in 1..(i - 1) : st[k + i].members[j] = b.members[j]
    <3> DEFINE z == b.members
    <3>1. z \in Seq(Members) /\ Len(z) = i - 1 /\ (i - 1) + 1 = i
      BY <2>2 DEF States, StateForms
    <3> HIDE DEF z
    <3>2. Append(z, m) \in Seq(Members \cup {m}) /\ Len(Append(z, m)) = Len(z) + 1
          /\ (\A j \in 1..Len(z) : Append(z, m)[j] = z[j]) /\ Append(z, m)[Len(z) + 1] = m
      <4>1. z \in Seq(Members \cup {m}) /\ m \in Members \cup {m}
        BY <3>1
      <4>2. QED
        BY <4>1, AppendProperties
    <3>3. QED
      BY <2>9, <3>1, <3>2 DEF z
  <2>13. \A j \in 1..i : Same(st[k + i].members[j], j)
    <3> TAKE j \in 1..i
    <3>1. j = i \/ j \in 1..(i - 1)
      OBVIOUS
    <3>2. QED
      BY <2>2, <2>11, <2>12, <3>1
  <2>14. QED
    BY <2>1, <2>9, <2>10, <2>12, <2>13
<1>12. n \in P
  <2> HIDE DEF P
  <2>1. \A i \in 1..n : i - 1 \in P => i \in P
    BY <1>11
  <2>2. \A i \in 0..n : i \in P
    BY <1>3, <1>10, <2>1, UpTo
  <2>3. n \in 0..n
    BY <1>3
  <2>4. QED
    BY <2>2, <2>3
<1>13. /\ r.ok = st[k + n].ok /\ r.members = st[k + n].members
       /\ r.ok => r.sym = [s \in DOMAIN st[k + n].sym |-> Archive!IndexOf(st[k + n].members, st[k + n].sym[s])]
  <2>1. LET y == Reading(a, no, <<>>)[Len(a.entries)]
            x == Archive!ReadAll(a, no, <<>>)
        IN  /\ x.ok = y.ok /\ x.members = y.members
            /\ x.ok => x.sym = [s \in DOMAIN y.sym |-> Archive!IndexOf(y.members, y.sym[s])]
    BY <1>4, <1>5, ReadAllIs
  <2>2. st[k + n] = Reading(a, no, <<>>)[Len(a.entries)]
    BY <1>4 DEF st, es
  <2>3. QED
    BY <2>1, <2>2 DEF r
<1>14. QED
  BY <1>12, <1>13 DEF r, n, k, pos, es, said, no, a, e, Same, ReadsBack

\* The table of symbols leads to the places of the members.
TableFor(t, sym, ms, start) ==
    /\ t \in Seq([symbol : Archive!Symbols, at : Nat])
    /\ {t[i].symbol : i \in 1..Len(t)} = DOMAIN sym
    /\ \A i \in 1..Len(t) : t[i].at = Archive!Positions(ms, start)[sym[t[i].symbol] + 1]

MembersStart(sz, d) == 8 + (60 + sz) + (60 + Archive!Even(Archive!DirSize(d)))

\* The entry before the others, where there are symbols.
IsHead(h, sz, t, ms, d, sym) ==
    /\ sz \in Nat /\ sz % 2 = 0 /\ TableFor(t, sym, ms, MembersStart(sz, d))
    /\ h = IF sym # Archive!NoMap THEN <<SymbolsIn(sz, t)>> ELSE <<>>

SameMap(f, g) == DOMAIN f = DOMAIN g /\ \A s \in DOMAIN g : f[s] = g[s]

\* With long names the members are where the table says.
LEMMA SymbolsReadBack ==
    ASSUME NEW ms \in Seq(Members), NEW d \in Seq(DirNames), Coherent(d, ms), d # <<>>,
           NEW sym \in SymMaps, \A s \in DOMAIN sym : sym[s] < Len(ms),
           NEW sz, NEW t, NEW h, IsHead(h, sz, t, ms, d, sym)
    PROVE  SameMap(Archive!ReadAll(FileOf(ms, d, h), Archive!NoMap, <<>>).sym, sym)
<1> DEFINE a == FileOf(ms, d, h)
           es == a.entries
           k == Ahead(h, d)
           n == Len(ms)
           no == Archive!NoMap
           r == Archive!ReadAll(a, no, <<>>)
           e == SymbolsIn(sz, t)
           p == Archive!Positions(es, Archive!MagicSize)
           start == MembersStart(sz, d)
           q == Archive!Positions(ms, start)
           add == Archive!AddTable(no, t)
           said == IF h # <<>> THEN add ELSE no
<1>1. /\ sz \in Nat /\ sz % 2 = 0
      /\ t \in Seq([symbol : Archive!Symbols, at : Nat])
      /\ {t[i].symbol : i \in 1..Len(t)} = DOMAIN sym
      /\ \A i \in 1..Len(t) : t[i].at = q[sym[t[i].symbol] + 1]
  BY DEF TableFor, IsHead
<1>2. h \in {<<>>, <<e>>} /\ (h = <<>> <=> sym = no)
  BY DEF IsHead
<1>3. /\ r.ok /\ Len(r.members) = n
      /\ \A i \in 1..n : r.members[i].pos = p[k + i]
      /\ r.sym = [s \in DOMAIN said |-> Archive!IndexOf(r.members, said[s])]
  <2>1. ReadsBack(a, ms, k, said)
    BY <1>1, <1>2, MembersReadBack
  <2>2. QED
    BY <2>1 DEF ReadsBack
<1>4. e \in Archive!EntryForms /\ e.kind = "symbols" /\ e.size = sz
  BY <1>1, SymbolsInFacts
<1> HIDE DEF e
<1>5. /\ h \in Seq(Archive!EntryForms) /\ Len(h) <= 1 /\ \A i \in 1..Len(h) : h[i].kind = "symbols"
      /\ h # <<>> => Len(h) = 1 /\ 1 \in 1..Len(h) /\ h[1] = e
  <2>1. CASE h = <<>>
    BY <2>1, EmptySeq
  <2>2. CASE h = <<e>>
    BY <1>4, <2>2
  <2>3. QED
    BY <1>2, <2>1, <2>2
<1>6. IsFileOf(a, ms, d, h, k)
  BY <1>5, FileOfFacts
<1>7. no \in SymMaps /\ DOMAIN no = {} /\ <<>> \in Seq(DirNames)
  BY NoMapIs, EmptySeq
<1>8. DOMAIN sym \subseteq Archive!Symbols /\ \A s \in DOMAIN sym : sym[s] \in Nat
  BY SymMapIs
<1>9. n \in Nat /\ Sized(ms)
  <2>1. n \in Nat /\ DOMAIN ms = 1..n /\ \A i \in 1..n : ms[i] \in Members
    BY LenProperties, ElementOfSeq
  <2>2. QED
    BY <2>1 DEF Members, Sized
<1>10. CASE h = <<>>
  <2>1. DOMAIN sym = {} /\ said = no
    BY <1>2, <1>7, <1>10
  <2>2. DOMAIN r.sym = {}
    BY <1>3, <1>7, <2>1
  <2>3. QED
    BY <2>1, <2>2 DEF SameMap
<1>11. CASE h # <<>>
  <2>1. k = 2
    BY <1>5, <1>11 DEF Ahead, NamesIn
  <2>2. /\ Archive!WellFormed(a) /\ Len(es) = 2 + n /\ es[1] = e /\ es[2] = NamesOf(d)
        /\ \A i \in 1..n : es[2 + i] = BodyOf(ms)[i]
    <3> HIDE DEF a, k, n
    <3>1. /\ Archive!WellFormed(a) /\ Len(es) = k + n /\ es[1] = e /\ es[k] = NamesOf(d)
          /\ \A i \in 1..n : es[k + i] = BodyOf(ms)[i]
      BY <1>5, <1>6, <1>11 DEF IsFileOf, n
    <3> HIDE DEF es
    <3>2. QED
      BY <2>1, <3>1
  <2>3. Sized(es)
    BY <2>2, WellFormedFacts
  <2>4. NamesOf(d).size = Archive!DirSize(d) /\ Archive!DirSize(d) \in Nat
    BY EntryFacts, NameAtFacts
  <2>5. /\ p[1] = 8 /\ \A i \in 1..Len(es) : p[i + 1] = p[i] + (60 + Archive!Even(es[i].size))
    <3> DEFINE start1 == Archive!MagicSize
    <3>1. start1 \in Nat /\ start1 = 8
      BY DEF Archive!MagicSize
    <3> HIDE DEF es, start1
    <3>2. LET z == Archive!Positions(es, start1)
          IN  z[1] = start1 /\ \A i \in 1..Len(es) : z[i + 1] = z[i] + (60 + Archive!Even(es[i].size))
      BY <2>3, <3>1, PositionsFacts
    <3>3. QED
      BY <3>1, <3>2 DEF start1
  <2>6. Archive!Even(sz) = sz /\ Archive!Even(Archive!DirSize(d)) \in Nat
    BY <1>1, <2>4, EvenFacts, EvenOfEven
  <2>7. start = 8 + (60 + sz) + (60 + Archive!Even(Archive!DirSize(d))) /\ start \in Nat
    BY <1>1, <2>6 DEF MembersStart
  <2>8. p[2 + 1] = start
    <3> HIDE DEF p, es, start, n
    <3>1. 1 \in 1..Len(es) /\ 2 \in 1..Len(es) /\ 1 + 1 = 2
      BY <1>9, <2>2
    <3>2. p[2] = 8 + (60 + sz)
      BY <1>4, <2>2, <2>5, <2>6, <3>1
    <3>3. p[2 + 1] = p[2] + (60 + Archive!Even(Archive!DirSize(d)))
      BY <2>2, <2>4, <2>5, <3>1
    <3>4. QED
      BY <2>7, <3>2, <3>3
  <2>9. \A i \in 1..n : es[2 + i].size = ms[i].size
    BY <2>2, EntryFacts
  <2>10. \A i \in 1..n : p[2 + i] = q[i]
    <3> HIDE DEF es, start
    <3> DEFINE two == k
               eight == Archive!MagicSize
    <3>1. two = 2 /\ eight = 8 /\ eight \in Nat /\ two \in Nat
      BY <2>1 DEF Archive!MagicSize
    <3> HIDE DEF two, eight
    <3>2. Behind(es, ms, two)
      BY <2>2, <2>9, <3>1 DEF Behind
    <3>3. Archive!Positions(es, eight)[two + 1] = start
      BY <2>8, <3>1 DEF eight
    <3>4. SamePlaces(Archive!Positions(es, eight), Archive!Positions(ms, start), two, Len(ms))
      <4> HIDE DEF n
      <4>1. Sized(es) /\ Sized(ms) /\ start \in Nat
        BY <1>9, <2>3, <2>7
      <4>2. QED
        BY <4>1, <3>1, <3>2, <3>3, PositionsBehind
    <3>5. QED
      BY <3>1, <3>4 DEF eight, SamePlaces
  <2>11. \A i, j \in 1..n : q[i] = q[j] => i = j
    BY <1>9, <2>7, PositionsFacts
  <2>12. /\ DOMAIN add = DOMAIN no \cup {t[i].symbol : i \in 1..Len(t)}
         /\ \A s \in {t[i].symbol : i \in 1..Len(t)} :
              \E i \in 1..Len(t) : t[i].symbol = s /\ add[s] = t[i].at
    <3> HIDE DEF no
    <3>1. QED
      BY <1>1, <1>7, AddTableFacts
  <2> HIDE DEF p, q, es, start, a, no, r, n, k, add
  <2>13. said = add /\ DOMAIN add = DOMAIN sym
    BY <1>1, <1>7, <1>11, <2>12
  <2>14. ASSUME NEW s \in DOMAIN sym PROVE add[s] = q[sym[s] + 1]
    <3>1. PICK i \in 1..Len(t) : t[i].symbol = s /\ add[s] = t[i].at
      BY <1>1, <2>12
    <3>2. QED
      BY <1>1, <3>1
  <2>15. r.members \in Seq(Members)
    <3>1. LET x == Archive!ReadAll(a, no, <<>>) IN x.members \in Seq(Members)
      BY <1>7, <2>2, ReadAllFacts
    <3>2. QED
      BY <3>1 DEF r
  <2>16. ASSUME NEW s \in DOMAIN sym PROVE r.sym[s] = sym[s]
    <3> DEFINE at == add[s]
               i == sym[s] + 1
               m == Archive!MemberAt(r.members, {at})
    <3>1. i \in 1..n
      BY <1>8, <1>9 DEF n
    <3>2. r.members[i].pos = at
      BY <1>3, <2>1, <2>10, <2>14, <3>1
    <3>3. Archive!IndexOf(r.members, at) = m - 1 /\ m \in 1..n /\ r.members[m].pos = at
      <4> HIDE DEF at
      <4>1. \E j \in 1..Len(r.members) : r.members[j].pos = at
        BY <1>3, <3>1, <3>2
      <4>2. QED
        BY <1>3, <2>15, <4>1, IndexOfFacts
    <3> HIDE DEF m
    <3>4. q[m] = q[i]
      BY <1>3, <2>1, <2>10, <3>1, <3>2, <3>3
    <3>5. m = i
      BY <2>11, <3>1, <3>3, <3>4
    <3>6. r.sym[s] = Archive!IndexOf(r.members, add[s])
      BY <1>3, <2>13
    <3>7. QED
      BY <1>8, <3>3, <3>5, <3>6
  <2>17. DOMAIN r.sym = DOMAIN sym
    BY <1>3, <2>13
  <2>18. QED
    BY <2>16, <2>17 DEF r, a, no, SameMap
<1>12. QED
  BY <1>10, <1>11

-----------------------------------------------------------------------------
(* The table of symbols that save() writes.                                 *)

LEMMA ArchiveCardinality ==
    ASSUME NEW S
    PROVE  /\ Archive!Cardinality(S) = Cardinality(S)
           /\ Archive!IsFiniteSet(S) => IsFiniteSet(S)
<1>1. Archive!Cardinality(S) = Cardinality(S)
  BY Zenon DEF Archive!Cardinality, Cardinality
<1>2. Archive!IsFiniteSet(S) => IsFiniteSet(S)
  BY DEF Archive!IsFiniteSet, IsFiniteSet
<1>3. QED
  BY <1>1, <1>2

\* The order has each symbol.
Orders(q, n, S) == n \in Nat /\ q \in [1..n -> S] /\ \A s \in S : \E i \in 1..n : q[i] = s

LEMMA OrderFacts ==
    ASSUME symtab \in SymMaps
    PROVE  Orders(Archive!Order, Archive!Cardinality(DOMAIN symtab), DOMAIN symtab)
<1> DEFINE S == DOMAIN symtab
           n == Archive!Cardinality(S)
           q == Archive!Order
           Inj(f) == \A a, b \in DOMAIN f : f[a] = f[b] => a = b
<1>1. IsFiniteSet(S)
  <2>1. S \in SUBSET Archive!Symbols
    BY SymMapIs
  <2>2. IsFiniteSet(Archive!Symbols)
    BY ArchiveConstants, ArchiveCardinality
  <2> HIDE DEF S
  <2>3. QED
    BY <2>1, <2>2, FS_Subset
<1>2. n = Cardinality(S)
  BY ArchiveCardinality
<1>3. n \in Nat /\ ExistsBijection(1..n, S)
  <2> HIDE DEF S, n
  <2>1. QED
    BY <1>1, <1>2, FS_CardinalityType
<1>4. q = CHOOSE f \in [1..n -> S] : Inj(f)
  BY DEF Archive!Order, Archive!IsInjective
<1> HIDE DEF S, n, q
<1>5. \E f \in [1..n -> S] : Inj(f)
  BY <1>3 DEF ExistsBijection, Bijection, Injection, IsInjective
<1> HIDE DEF Inj
<1>6. q \in [1..n -> S] /\ Inj(q)
  BY <1>4, <1>5
<1>7. q \in Injection(1..n, S)
  BY <1>6 DEF Injection, IsInjective, Inj
<1>8. Cardinality(1..n) = n
  BY <1>3, FS_Interval
<1>9. q \in Surjection(1..n, S)
  BY <1>1, <1>2, <1>7, <1>8, FS_Injection
<1>10. \A s \in S : \E i \in 1..n : q[i] = s
  BY <1>9 DEF Surjection
<1>11. Orders(q, n, S)
  BY <1>3, <1>6, <1>10 DEF Orders
<1>12. QED
  BY <1>11 DEF q, n, S

LEMMA TableSizeFacts ==
    ASSUME symtab \in SymMaps
    PROVE  Archive!TableSize - 60 \in Nat /\ (Archive!TableSize - 60) % 2 = 0 /\ Archive!TableSize \in Nat
<1> DEFINE n == Archive!Cardinality(DOMAIN symtab)
           q == Archive!Order
           l == [i \in 1..n |-> SymbolLength[q[i]] + 1]
           m == 60 + 4 + 4 * n + Archive!Sums(l)[n]
<1>1. Orders(q, n, DOMAIN symtab) /\ DOMAIN symtab \subseteq Archive!Symbols
  BY OrderFacts, SymMapIs
<1>2. Archive!TableSize = Archive!Even(m)
  BY DEF Archive!TableSize, Archive!HeaderSize
<1> HIDE DEF n, q
<1>3. n \in Nat /\ \A i \in 1..n : q[i] \in Archive!Symbols
  BY <1>1 DEF Orders
<1>4. l \in [1..n -> Nat]
  BY <1>3, ArchiveConstants
<1> HIDE DEF l
<1>5. l \in Seq(Nat) /\ Len(l) = n
  BY <1>3, <1>4, SeqOf
<1>6. Archive!Sums(l) \in [0..n -> Nat] /\ n \in 0..n
  <2>1. Archive!Sums(l) \in [0..Len(l) -> Nat]
    BY <1>5, SumsFacts
  <2>2. QED
    BY <1>3, <1>5, <2>1
<1>7. m \in Nat /\ m >= 60
  BY <1>3, <1>6
<1> HIDE DEF m
<1>8. Archive!Even(m) \in Nat /\ Archive!Even(m) >= m /\ Archive!Even(m) % 2 = 0
  BY <1>7, EvenFacts
<1>9. QED
  BY <1>2, <1>7, <1>8

\* What is written is the table that leads to the members.
LEMMA SymbolEntryIs ==
    ASSUME symtab \in SymMaps, members \in Seq(Members), dir \in Seq(DirNames),
           \A s \in DOMAIN symtab : symtab[s] < Len(members)
    PROVE  \E t : /\ TableFor(t, symtab, members, MembersStart(Archive!TableSize - 60, dir))
                  /\ Archive!SymbolEntry = SymbolsIn(Archive!TableSize - 60, t)
<1> DEFINE n == Archive!Cardinality(DOMAIN symtab)
           q == Archive!Order
           start == Archive!MagicSize + Archive!TableSize + Archive!HeaderSize + Archive!Even(Archive!DirSize(dir))
           p == Archive!Positions(members, start)
           t == [i \in DOMAIN q |-> [symbol |-> q[i], at |-> p[symtab[q[i]] + 1]]]
           T == Archive!TableSize
           sz == T - 60
<1>1. Archive!SymbolEntry = SymbolsIn(sz, t)
  BY DEF Archive!SymbolEntry, SymbolsIn, Archive!HeaderSize
<1>2. Orders(q, n, DOMAIN symtab) /\ DOMAIN symtab \subseteq Archive!Symbols
      /\ \A s \in DOMAIN symtab : symtab[s] \in Nat
  BY OrderFacts, SymMapIs
<1>3. T \in Nat /\ sz \in Nat
  BY TableSizeFacts
<1>4. Archive!Even(Archive!DirSize(dir)) \in Nat
  BY NameAtFacts, EvenFacts
<1>5. start = MembersStart(sz, dir) /\ start \in Nat
  <2> DEFINE v == Archive!Even(Archive!DirSize(dir))
  <2> HIDE DEF v, T
  <2>1. start = 8 + T + 60 + v
    BY DEF Archive!MagicSize, Archive!HeaderSize, v, T
  <2>2. MembersStart(sz, dir) = 8 + (60 + sz) + (60 + v)
    BY DEF MembersStart, v
  <2>3. v \in Nat
    BY <1>4 DEF v
  <2> HIDE DEF start
  <2>4. QED
    BY <1>3, <2>1, <2>2, <2>3
<1>6. Len(members) \in Nat /\ Sized(members)
  <2>1. Len(members) \in Nat /\ DOMAIN members = 1..Len(members)
        /\ \A i \in 1..Len(members) : members[i] \in Members
    BY LenProperties, ElementOfSeq
  <2>2. QED
    BY <2>1 DEF Members, Sized
<1> HIDE DEF start
<1>7. \A i \in 1..(Len(members) + 1) : p[i] \in Nat
  BY <1>5, <1>6, PositionsFacts
<1> HIDE DEF n, q, p, T
<1>8. n \in Nat /\ DOMAIN q = 1..n /\ (\A i \in 1..n : q[i] \in DOMAIN symtab)
      /\ \A s \in DOMAIN symtab : \E i \in 1..n : q[i] = s
  BY <1>2 DEF Orders
<1>9. \A i \in 1..n : p[symtab[q[i]] + 1] \in Nat
  <2> TAKE i \in 1..n
  <2>1. symtab[q[i]] + 1 \in 1..(Len(members) + 1)
    BY <1>2, <1>6, <1>8
  <2>2. QED
    BY <1>7, <2>1
<1>10. t \in [1..n -> [symbol : Archive!Symbols, at : Nat]]
  BY <1>2, <1>8, <1>9
<1>11. \A i \in 1..n : t[i].symbol = q[i] /\ t[i].at = p[symtab[t[i].symbol] + 1]
  BY <1>8
<1> HIDE DEF t
<1>12. t \in Seq([symbol : Archive!Symbols, at : Nat]) /\ Len(t) = n
  BY <1>8, <1>10, SeqOf
<1>13. {t[i].symbol : i \in 1..n} = DOMAIN symtab
  <2>1. \A i \in 1..n : t[i].symbol \in DOMAIN symtab
    BY <1>8, <1>11
  <2>2. \A s \in DOMAIN symtab : \E i \in 1..n : t[i].symbol = s
    BY <1>8, <1>11
  <2>3. QED
    BY <2>1, <2>2
<1>14. TableFor(t, symtab, members, MembersStart(sz, dir))
  <2>1. TableFor(t, symtab, members, start)
    BY <1>11, <1>12, <1>13 DEF TableFor, p
  <2>2. QED
    BY <1>5, <2>1
<1>15. QED
  BY <1>1, <1>14 DEF T

-----------------------------------------------------------------------------
(* What was saved.                                                          *)

\* What is read of the file is what the object said it held.
Kept(a, s) ==
    LET r == Archive!ReadAll(a, Archive!NoMap, <<>>)
    IN  /\ r.ok
        /\ [i \in DOMAIN r.members |-> r.members[i].name] = [i \in DOMAIN s.members |-> s.members[i][1]]
        /\ s.readable =>
             [i \in DOMAIN r.members |-> r.members[i].data] = [i \in DOMAIN s.members |-> s.members[i][2]]
        /\ s.known /\ (\E i \in DOMAIN a.entries : a.entries[i].kind = "names") =>
             [x \in DOMAIN r.sym |-> r.sym[x] + 1] = s.symbols

Says(s, ms, sym) ==
    /\ DOMAIN s.members = DOMAIN ms
    /\ \A i \in DOMAIN ms : /\ s.members[i][1] = ms[i].name
                            /\ s.readable => s.members[i][2] = ms[i].data
    /\ s.known => s.symbols = [x \in DOMAIN sym |-> sym[x] + 1]

LEMMA SavedFacts ==
    ASSUME NEW ms \in Seq(Members), NEW d \in Seq(DirNames), Coherent(d, ms),
           NEW sym \in SymMaps, \A s \in DOMAIN sym : sym[s] < Len(ms),
           NEW sz, NEW t, NEW h, IsHead(h, sz, t, ms, d, sym), NEW s, Says(s, ms, sym)
    PROVE  Archive!WellFormed(FileOf(ms, d, h)) /\ Kept(FileOf(ms, d, h), s)
<1> DEFINE a == FileOf(ms, d, h)
           k == Ahead(h, d)
           n == Len(ms)
           r == Archive!ReadAll(a, Archive!NoMap, <<>>)
           said == IF h # <<>> THEN Archive!AddTable(Archive!NoMap, t) ELSE Archive!NoMap
<1>1. /\ sz \in Nat /\ sz % 2 = 0 /\ TableFor(t, sym, ms, MembersStart(sz, d))
      /\ t \in Seq([symbol : Archive!Symbols, at : Nat])
      /\ h = IF sym # Archive!NoMap THEN <<SymbolsIn(sz, t)>> ELSE <<>>
  BY DEF IsHead, TableFor
<1>2. h \in {<<>>, <<SymbolsIn(sz, t)>>}
  BY <1>1
<1>3. ReadsBack(a, ms, k, said)
  BY <1>1, <1>2, MembersReadBack
<1>4. n \in Nat /\ DOMAIN ms = 1..n
  BY LenProperties
<1>5. IsFileOf(a, ms, d, h, k)
  <2>1. SymbolsIn(sz, t) \in Archive!EntryForms /\ SymbolsIn(sz, t).kind = "symbols"
    BY <1>1, SymbolsInFacts
  <2> DEFINE e == SymbolsIn(sz, t)
  <2> HIDE DEF e
  <2>2. e \in Archive!EntryForms /\ e.kind = "symbols" /\ (h = <<>> \/ h = <<e>>)
    BY <1>2, <2>1 DEF e
  <2>3. h \in Seq(Archive!EntryForms) /\ Len(h) <= 1 /\ \A i \in 1..Len(h) : h[i].kind = "symbols"
    <3>1. CASE h = <<>>
      BY <3>1, EmptySeq
    <3>2. CASE h = <<e>>
      BY <2>2, <3>2
    <3>3. QED
      BY <2>2, <3>1, <3>2
  <2>4. QED
    BY <2>3, FileOfFacts
<1>6. Archive!WellFormed(a)
  BY <1>5 DEF IsFileOf
<1>7. r.members \in Seq(Members)
  <2>1. LET x == Archive!ReadAll(a, Archive!NoMap, <<>>) IN x.members \in Seq(Members)
    BY <1>6, NoMapIs, EmptySeq, ReadAllFacts
  <2>2. QED
    BY <2>1
<1>8. /\ r.ok /\ Len(r.members) = n
      /\ \A i \in 1..n : r.members[i].name = ms[i].name /\ r.members[i].data = ms[i].data
  <2> HIDE DEF a, said, k
  <2>1. QED
    BY <1>3 DEF ReadsBack
<1>9. /\ [i \in DOMAIN r.members |-> r.members[i].name] = [i \in DOMAIN s.members |-> s.members[i][1]]
      /\ s.readable =>
           [i \in DOMAIN r.members |-> r.members[i].data] = [i \in DOMAIN s.members |-> s.members[i][2]]
  <2>1. DOMAIN r.members = 1..n
    BY <1>7, <1>8, LenProperties
  <2> HIDE DEF r, n
  <2>2. /\ DOMAIN s.members = 1..n
        /\ \A i \in 1..n : /\ s.members[i][1] = ms[i].name
                           /\ s.readable => s.members[i][2] = ms[i].data
    BY <1>4 DEF Says
  <2>3. \A i \in 1..n : r.members[i].name = s.members[i][1]
    BY <1>8, <2>2
  <2>4. s.readable => \A i \in 1..n : r.members[i].data = s.members[i][2]
    BY <1>8, <2>2
  <2>5. QED
    BY <2>1, <2>2, <2>3, <2>4
<1>10. ASSUME s.known, NEW i \in DOMAIN a.entries, a.entries[i].kind = "names"
       PROVE  [x \in DOMAIN r.sym |-> r.sym[x] + 1] = s.symbols
  <2>1. d # <<>>
    <3>1. Sized(a.entries)
      BY <1>6, WellFormedFacts
    <3>2. \A j \in 1..n : BodyOf(ms)[j].kind = "member"
      BY EntryFacts
    <3> HIDE DEF a, k, n, r
    <3>3. /\ k \in Nat /\ Len(a.entries) = k + n
          /\ \A j \in 1..n : a.entries[k + j].kind = "member"
          /\ \A j \in 1..k : a.entries[j].kind = "names" => d # <<>>
      BY <1>5, <3>2 DEF IsFileOf, n
    <3>4. i \in 1..(k + n)
      BY <3>1, <3>3 DEF Sized
    <3>5. CASE i <= k
      <4>1. i \in 1..k
        BY <1>4, <3>3, <3>4, <3>5
      <4>2. QED
        BY <1>10, <3>3, <4>1
    <3>6. CASE i > k
      <4>1. i - k \in 1..n /\ k + (i - k) = i
        BY <1>4, <3>3, <3>4, <3>6
      <4>2. QED
        BY <1>10, <3>3, <4>1
    <3>7. QED
      BY <1>4, <3>3, <3>4, <3>5, <3>6
  <2>2. DOMAIN r.sym = DOMAIN sym /\ \A x \in DOMAIN sym : r.sym[x] = sym[x]
    <3>1. SameMap(Archive!ReadAll(FileOf(ms, d, h), Archive!NoMap, <<>>).sym, sym)
      BY <2>1, SymbolsReadBack
    <3>2. QED
      BY <3>1 DEF SameMap
  <2>3. s.symbols = [x \in DOMAIN sym |-> sym[x] + 1]
    BY <1>10 DEF Says
  <2> HIDE DEF r, a
  <2>4. QED
    BY <2>2, <2>3
<1>11. QED
  BY <1>6, <1>8, <1>9, <1>10 DEF Kept

\* A file without entries can be read.
LEMMA EmptyIsOrderly == Archive!Orderly(FileOf(<<>>, <<>>, <<>>))
<1> DEFINE a == FileOf(<<>>, <<>>, <<>>)
           no == Archive!NoMap
<1>1. a.entries = <<>>
  BY DEF FileOf, NamesIn, BodyOf
<1>2. Archive!WellFormed(a)
  <2>1. a.magic = TRUE
    BY DEF FileOf
  <2>2. a.entries \in Seq(Archive!EntryForms) /\ DOMAIN a.entries = {}
    <3> HIDE DEF a
    <3>1. QED
      BY <1>1, EmptySeq
  <2> HIDE DEF a
  <2>3. QED
    BY <2>1, <2>2 DEF Archive!WellFormed
<1>3. no \in SymMaps /\ <<>> \in Seq(DirNames)
  BY NoMapIs, EmptySeq
<1> HIDE DEF a
<1>4. \A l : l \notin Archive!Locations(a)
  <2>1. \A l : l \in Archive!Locations(a) <=> Listed(l, a)
    BY <1>2, LocationsAre
  <2>2. QED
    BY <1>1, <2>1 DEF Listed
<1>5. LET r == Archive!ReadAll(a, no, <<>>) IN r.members = <<>>
  <2> DEFINE e == Reading(a, no, <<>>)[Len(a.entries)]
             r == Archive!ReadAll(a, no, <<>>)
  <2>1. r.members = e.members
    BY <1>2, <1>3, ReadAllIs
  <2>2. Reading(a, no, <<>>)[0].members = <<>>
    <3>1. Reading(a, no, <<>>)[0] = [ok |-> a.magic, failed |-> FALSE, members |-> <<>>, sym |-> no, dir |-> <<>>]
      BY <1>2, <1>3, ReadingFacts
    <3>2. QED
      BY <3>1
  <2>3. Len(a.entries) = 0
    BY <1>1
  <2>4. QED
    BY <2>1, <2>2, <2>3
<1>6. QED
  BY <1>4, <1>5 DEF Archive!Orderly, a

-----------------------------------------------------------------------------
(* The object and its files, in every reachable state.                      *)

\* What the object holds: each name is found in the directory.
HeldWell ==
    /\ members \in Seq(Members) /\ dir \in Seq(DirNames) /\ symtab \in SymMaps
    /\ Coherent(dir, members)

\* Members that were read have their stream, and only a load can have left it
\* failed.
StreamWell ==
    /\ stream \in [file : DOMAIN Given \cup {Absent}, intact : BOOLEAN, failed : BOOLEAN]
    /\ stream.failed => reading = "failed"
    /\ \A i \in 1..Len(members) : members[i].new \/ stream.intact

FilesWell ==
    /\ DOMAIN disk = DOMAIN Given /\ DOMAIN saved = DOMAIN Given
    /\ \A f \in DOMAIN Given : /\ disk[f] # Absent => Archive!WellFormed(disk[f])
                               /\ saved[f].done => Kept(disk[f], saved[f])

\* No two members of a name; each symbol has the member it was said to have.
Owned(ms, sym, own) ==
    /\ \A i, j \in 1..Len(ms) : ms[i].name = ms[j].name => i = j
    /\ own = [s \in DOMAIN sym |-> sym[s] + 1]
    /\ \A s \in DOMAIN sym : sym[s] + 1 \in 1..Len(ms)

\* Before the object is used, every file can be read.
Fresh == dir = <<>> /\ \A f \in DOMAIN Given : disk[f] # Absent => Archive!Orderly(disk[f])

ArchiveInv ==
    /\ HeldWell /\ StreamWell /\ FilesWell
    /\ reading \in {"no", "ok", "failed"} /\ reloads \in Nat
    /\ Archive!Known => Owned(members, symtab, owner)
    /\ ~Archive!Used => Fresh

LEMMA ArchiveStarts == Archive!Init => ArchiveInv
<1> SUFFICES ASSUME Archive!Init PROVE ArchiveInv
  OBVIOUS
<1> USE DEF Archive!Init
<1>1. HeldWell
  <2>1. members \in Seq(Members) /\ dir \in Seq(DirNames) /\ symtab \in SymMaps
    BY NoMapIs, EmptySeq
  <2>2. Coherent(dir, members)
    BY DEF Coherent
  <2>3. QED
    BY <2>1, <2>2 DEF HeldWell
<1>2. StreamWell
  BY DEF StreamWell, Archive!NoInput
<1>3. FilesWell
  <2>1. saved = [f \in DOMAIN Given |-> Archive!NotSaved] /\ ~Archive!NotSaved.done
    BY DEF Archive!NotSaved
  <2>2. DOMAIN saved = DOMAIN Given /\ \A f \in DOMAIN Given : ~saved[f].done
    BY <2>1
  <2>3. QED
    BY <2>2, ArchiveConstants DEF FilesWell
<1>4. Owned(members, symtab, owner)
  <2>1. DOMAIN symtab = {} /\ owner = symtab /\ members = <<>>
    BY NoMapIs
  <2>2. owner = [s \in DOMAIN symtab |-> symtab[s] + 1]
    BY <2>1 DEF Archive!NoMap
  <2>3. QED
    BY <2>1, <2>2 DEF Owned
<1>5. Fresh
  BY ArchiveConstants DEF Fresh
<1>6. QED
  BY <1>1, <1>2, <1>3, <1>4, <1>5 DEF ArchiveInv

LEMMA LoadKeeps ==
    ASSUME ArchiveInv, NEW f \in DOMAIN Given, Archive!Load(f)
    PROVE  ArchiveInv'
<1> DEFINE no == Archive!NoMap
           r == Archive!ReadAll(disk[f], symtab, dir)
           told == Archive!Told(disk[f])
<1>1. /\ disk[f] # Absent
      /\ reloads' = IF Archive!Used THEN reloads + 1 ELSE reloads
      /\ stream' = [file |-> f, intact |-> TRUE, failed |-> r.failed]
      /\ members' = r.members /\ symtab' = r.sym /\ dir' = r.dir
      /\ reading' = IF r.ok THEN "ok" ELSE "failed"
      /\ owner' = IF r.ok THEN told ELSE no
      /\ disk' = disk /\ saved' = saved
  BY DEF Archive!Load
<1>2. HeldWell /\ FilesWell /\ reloads \in Nat /\ (~Archive!Used => Fresh)
  BY DEF ArchiveInv
<1>3. Archive!WellFormed(disk[f]) /\ symtab \in SymMaps /\ dir \in Seq(DirNames)
  BY <1>1, <1>2 DEF FilesWell, HeldWell
<1>4. /\ r.ok \in BOOLEAN /\ r.members \in Seq(Members) /\ r.dir \in Seq(DirNames)
      /\ r.sym \in SymMaps /\ Coherent(r.dir, r.members)
      /\ r.failed \in BOOLEAN /\ (r.failed => ~r.ok)
  BY <1>3, ReadAllFacts
<1> HIDE DEF r
<1>5. HeldWell'
  BY <1>1, <1>4 DEF HeldWell, Coherent
<1>6. StreamWell'
  BY <1>1, <1>4 DEF StreamWell
<1>7. FilesWell'
  BY <1>1, <1>2 DEF FilesWell
<1>8. reading' \in {"no", "ok", "failed"} /\ reloads' \in Nat /\ reading' # "no"
  BY <1>1, <1>2
<1>9. ASSUME Archive!Known' PROVE Owned(members', symtab', owner')
  <2>1. r.ok /\ ~Archive!Used
    <3>1. reading' # "failed" /\ reloads' = 0
      BY <1>9 DEF Archive!Known
    <3>2. QED
      BY <1>1, <1>2, <3>1
  <2>2. symtab = no /\ dir = <<>> /\ Archive!Orderly(disk[f])
    BY <1>1, <1>2, <2>1 DEF Archive!Used, Fresh
  <2>3. r = Archive!ReadAll(disk[f], no, <<>>)
    BY <2>2 DEF r
  <2>4. /\ DOMAIN told = DOMAIN r.sym /\ told = [s \in DOMAIN told |-> told[s]]
        /\ \A s \in DOMAIN told : told[s] \in 1..Len(r.members) /\ r.sym[s] + 1 = told[s]
        /\ \A i, j \in 1..Len(r.members) : r.members[i].name = r.members[j].name => i = j
    <3> DEFINE x == Archive!ReadAll(disk[f], no, <<>>)
    <3>1. x.ok
      BY <2>1, <2>3
    <3>2. /\ DOMAIN told = DOMAIN x.sym /\ told = [s \in DOMAIN told |-> told[s]]
          /\ \A s \in DOMAIN told : told[s] \in 1..Len(x.members) /\ x.sym[s] + 1 = told[s]
          /\ \A i, j \in 1..Len(x.members) : x.members[i].name = x.members[j].name => i = j
      BY <1>3, <2>2, <3>1, ToldFacts
    <3>3. QED
      BY <2>3, <3>2
  <2> HIDE DEF told
  <2>5. told = [s \in DOMAIN r.sym |-> r.sym[s] + 1]
    BY <2>4
  <2>6. QED
    BY <1>1, <2>1, <2>4, <2>5 DEF Owned
<1>10. Archive!Used'
  BY <1>8 DEF Archive!Used
<1>11. QED
  BY <1>5, <1>6, <1>7, <1>8, <1>9, <1>10 DEF ArchiveInv

LEMMA AddMemberKeeps ==
    ASSUME ArchiveInv, NEW n \in Archive!Names, NEW c \in Archive!Contents, Archive!AddMember(n, c)
    PROVE  ArchiveInv'
<1> DEFINE short == IF NameLength[n] < 16 THEN Archive!Short(n) ELSE Archive!Long(Archive!DirSize(dir))
           m == [name |-> n, size |-> Size[c], pos |-> 0, data |-> c, new |-> TRUE, cut |-> FALSE,
                 short |-> short]
           k == Len(members)
<1>1. /\ \A i \in DOMAIN members : members[i].name # n
      /\ dir' = IF NameLength[n] < 16 THEN dir ELSE Append(dir, n)
      /\ members' = Append(members, m)
      /\ disk' = disk /\ symtab' = symtab /\ stream' = stream /\ reading' = reading
      /\ reloads' = reloads /\ owner' = owner /\ saved' = saved
  BY DEF Archive!AddMember, Archive!NameField
<1>2. /\ HeldWell /\ StreamWell /\ FilesWell /\ reading \in {"no", "ok", "failed"} /\ reloads \in Nat
      /\ Archive!Known => Owned(members, symtab, owner)
  BY DEF ArchiveInv
<1>3. /\ members \in Seq(Members) /\ dir \in Seq(DirNames) /\ symtab \in SymMaps
      /\ Coherent(dir, members)
  BY <1>2 DEF HeldWell
<1>4. k \in Nat /\ DOMAIN members = 1..k /\ \A i \in 1..k : members[i] \in Members
  BY <1>3, LenProperties, ElementOfSeq
<1>5. /\ n \in DirNames /\ Append(dir, n) \in Seq(DirNames) /\ Archive!DirSize(dir) \in Nat
      /\ Archive!NameAt(Append(dir, n), Archive!DirSize(dir)) = n
      /\ \A at : Archive!NameAt(dir, at) # NoName =>
           Archive!NameAt(Append(dir, n), at) = Archive!NameAt(dir, at)
  BY <1>3, AppendedName, NameAtFacts DEF DirNames
<1>6. dir' \in Seq(DirNames) /\ NameOf(dir', short) = n
  BY <1>1, <1>3, <1>5 DEF NameOf, Archive!Short, Archive!Long
<1>7. m \in Members /\ m.new /\ m.name = n /\ m.short = short
  <2>1. short \in Shorts
    BY <1>5 DEF Shorts, Archive!Short, Archive!Long
  <2> HIDE DEF short
  <2>2. QED
    BY <2>1, ArchiveConstants DEF Members
<1> HIDE DEF m, k, short
<1>8. /\ members' \in Seq(Members) /\ Len(members') = k + 1 /\ members'[k + 1] = m
      /\ \A i \in 1..k : members'[i] = members[i]
  BY <1>1, <1>3, <1>7, AppendProperties DEF k
<1>9. \A i \in 1..Len(members') : i \in 1..k \/ i = k + 1
  BY <1>4, <1>8
<1>10. ASSUME NEW i \in 1..k PROVE NameOf(dir', members[i].short) = members[i].name
  <2>1. NameOf(dir, members[i].short) = members[i].name /\ members[i].name \in Archive!Names
    BY <1>3, <1>4 DEF Coherent, k, Members
  <2>2. members[i].name # NoName
    BY <2>1, ArchiveConstants
  <2>3. CASE dir' = dir
    BY <2>1, <2>3
  <2>4. CASE dir' = Append(dir, n)
    <3>1. CASE members[i].short.long
      BY <1>5, <2>1, <2>2, <2>4, <3>1 DEF NameOf
    <3>2. CASE ~members[i].short.long
      BY <2>1, <3>2 DEF NameOf
    <3>3. QED
      BY <3>1, <3>2
  <2>5. QED
    BY <1>1, <2>3, <2>4
<1>11. HeldWell'
  <2>1. Coherent(dir', members')
    BY <1>6, <1>7, <1>8, <1>9, <1>10 DEF Coherent
  <2>2. QED
    BY <1>1, <1>3, <1>6, <1>8, <2>1 DEF HeldWell, Coherent
<1>12. StreamWell'
  <2>1. \A i \in 1..k : members[i].new \/ stream.intact
    BY <1>2 DEF StreamWell, k
  <2>2. \A i \in 1..Len(members') : members'[i].new \/ stream'.intact
    BY <1>1, <1>7, <1>8, <1>9, <2>1
  <2>3. QED
    BY <1>1, <1>2, <2>2 DEF StreamWell
<1>13. FilesWell'
  BY <1>1, <1>2 DEF FilesWell
<1>14. ASSUME Archive!Known' PROVE Owned(members', symtab', owner')
  <2>1. Owned(members, symtab, owner)
    BY <1>1, <1>2, <1>14 DEF Archive!Known
  <2>2. ASSUME NEW i \in 1..Len(members'), NEW j \in 1..Len(members'), members'[i].name = members'[j].name
        PROVE  i = j
    <3>1. \A x, y \in 1..k : members[x].name = members[y].name => x = y
      BY <2>1 DEF Owned, k
    <3>2. \A x \in 1..k : members[x].name # n
      BY <1>1, <1>4
    <3>3. QED
      BY <1>7, <1>8, <1>9, <2>2, <3>1, <3>2
  <2>3. \A s \in DOMAIN symtab : symtab[s] + 1 \in 1..Len(members')
    <3>1. \A s \in DOMAIN symtab : symtab[s] + 1 \in 1..k
      BY <2>1 DEF Owned, k
    <3>2. QED
      BY <1>4, <1>8, <3>1
  <2>4. owner = [s \in DOMAIN symtab |-> symtab[s] + 1]
    BY <2>1 DEF Owned
  <2>5. QED
    BY <1>1, <2>2, <2>3, <2>4 DEF Owned
<1>15. Archive!Used'
  <2>1. members' # <<>>
    BY <1>4, <1>8
  <2>2. QED
    BY <2>1 DEF Archive!Used
<1>16. QED
  BY <1>1, <1>2, <1>11, <1>12, <1>13, <1>14, <1>15 DEF ArchiveInv

LEMMA FirstOfName ==
    ASSUME NEW ms \in Seq(Members), NEW i \in DOMAIN ms
    PROVE  LET first == CHOOSE j \in DOMAIN ms :
                 /\ ms[j].name = ms[i].name
                 /\ \A k \in 1..(j - 1) : ms[k].name # ms[i].name
           IN  first \in 1..Len(ms) /\ ms[first].name = ms[i].name
<1> DEFINE n == Len(ms)
           S == {j \in 1..n : ms[j].name = ms[i].name}
           Is(j) == /\ ms[j].name = ms[i].name
                    /\ \A k \in 1..(j - 1) : ms[k].name # ms[i].name
           first == CHOOSE j \in DOMAIN ms : Is(j)
<1>1. n \in Nat /\ DOMAIN ms = 1..n
  BY LenProperties
<1>2. S \in SUBSET Nat /\ i \in S
  BY <1>1
<1>3. PICK j \in S : \A k \in S : j <= k
  <2> HIDE DEF S
  <2>1. QED
    BY <1>2, LeastNumber
<1>4. Is(j)
  <2>1. ASSUME NEW k \in 1..(j - 1), ms[k].name = ms[i].name PROVE FALSE
    <3>1. k \in 1..n /\ ~(j <= k)
      BY <1>1
    <3>2. QED
      BY <1>3, <2>1, <3>1
  <2>2. QED
    BY <2>1
<1> HIDE DEF Is, n
<1>5. \E x \in DOMAIN ms : Is(x)
  BY <1>1, <1>4
<1>6. first \in DOMAIN ms /\ Is(first)
  BY <1>5
<1>7. QED
  BY <1>1, <1>6 DEF Is, n

LEMMA AddSymbolKeeps ==
    ASSUME ArchiveInv, NEW i \in DOMAIN members, NEW s \in Archive!Symbols, Archive!AddSymbol(i, s)
    PROVE  ArchiveInv'
<1> DEFINE first == CHOOSE j \in DOMAIN members :
             /\ members[j].name = members[i].name
             /\ \A k \in 1..(j - 1) : members[k].name # members[i].name
           n == Len(members)
<1>1. /\ symtab' = [x \in DOMAIN symtab \cup {s} |-> IF x = s THEN first - 1 ELSE symtab[x]]
      /\ owner' = [x \in DOMAIN owner \cup {s} |-> IF x = s THEN i ELSE owner[x]]
      /\ disk' = disk /\ members' = members /\ dir' = dir /\ stream' = stream
      /\ reading' = reading /\ reloads' = reloads /\ saved' = saved
  BY DEF Archive!AddSymbol
<1>2. /\ HeldWell /\ StreamWell /\ FilesWell /\ reading \in {"no", "ok", "failed"} /\ reloads \in Nat
      /\ Archive!Known => Owned(members, symtab, owner)
  BY DEF ArchiveInv
<1>3. /\ members \in Seq(Members) /\ dir \in Seq(DirNames) /\ symtab \in SymMaps
      /\ Coherent(dir, members)
  BY <1>2 DEF HeldWell
<1>4. n \in Nat /\ DOMAIN members = 1..n
  BY <1>3, LenProperties
<1>5. first \in 1..n /\ members[first].name = members[i].name
  BY <1>3, FirstOfName
<1>6. DOMAIN symtab \subseteq Archive!Symbols /\ \A x \in DOMAIN symtab : symtab[x] \in Nat
  BY <1>3, SymMapIs
<1> HIDE DEF first, n
<1>7. symtab' \in SymMaps
  <2> DEFINE D == DOMAIN symtab \cup {s}
  <2>1. D \subseteq Archive!Symbols /\ \A x \in D : symtab'[x] \in Nat
    BY <1>1, <1>4, <1>5, <1>6
  <2>2. DOMAIN symtab' = D /\ symtab' \in [D -> Nat]
    BY <1>1, <2>1
  <2>3. QED
    BY <2>1, <2>2, SymMapIs
<1>8. HeldWell'
  BY <1>1, <1>3, <1>7 DEF HeldWell, Coherent
<1>9. StreamWell' /\ FilesWell'
  BY <1>1, <1>2 DEF StreamWell, FilesWell
<1>10. ASSUME Archive!Known' PROVE Owned(members', symtab', owner')
  <2>1. Owned(members, symtab, owner)
    BY <1>1, <1>2, <1>10 DEF Archive!Known
  <2>2. first = i
    BY <1>4, <1>5, <2>1 DEF Owned, n
  <2>3. owner = [x \in DOMAIN symtab |-> symtab[x] + 1] /\ \A x \in DOMAIN symtab : symtab[x] + 1 \in 1..n
    BY <2>1 DEF Owned, n
  <2>4. DOMAIN symtab' = DOMAIN symtab \cup {s} /\ DOMAIN owner = DOMAIN symtab
    BY <1>1, <2>3
  <2>5. \A x \in DOMAIN symtab' : owner'[x] = symtab'[x] + 1 /\ symtab'[x] + 1 \in 1..n
    BY <1>1, <1>4, <1>5, <2>2, <2>3, <2>4
  <2>6. owner' = [x \in DOMAIN symtab' |-> symtab'[x] + 1]
    BY <1>1, <2>4, <2>5
  <2>7. QED
    BY <1>1, <2>1, <2>5, <2>6 DEF Owned, n
<1>11. Archive!Used'
  <2>1. members' # <<>>
    BY <1>1
  <2>2. QED
    BY <2>1 DEF Archive!Used
<1>12. QED
  BY <1>1, <1>2, <1>8, <1>9, <1>10, <1>11 DEF ArchiveInv

\* Every member can be read unless the stream has failed.
LEMMA ReadsWell ==
    ASSUME ArchiveInv, NEW str, stream.intact => str.intact, NEW i \in 1..Len(members), ~str.failed
    PROVE  Archive!Reads(members[i], str)
<1>1. members[i] \in Members
  BY ElementOfSeq DEF ArchiveInv, HeldWell
<1>2. members[i].cut = FALSE /\ (members[i].new \/ stream.intact)
  BY <1>1 DEF Members, ArchiveInv, StreamWell
<1>3. QED
  BY <1>2 DEF Archive!Reads

\* So reading does nothing to a stream.
LEMMA ReadLeaves ==
    ASSUME ArchiveInv, NEW str \in [file : DOMAIN Given \cup {Absent}, intact : BOOLEAN, failed : BOOLEAN],
           stream.intact => str.intact
    PROVE  /\ \A i \in 1..Len(members) : ~Archive!Reads(members[i], str) => [str EXCEPT !.failed = TRUE] = str
           /\ \A i \in 0..Len(members) : Archive!After(i, str) = str
<1>1. ASSUME str.failed PROVE [str EXCEPT !.failed = TRUE] = str
  BY <1>1
<1>2. \A i \in 1..Len(members) : ~Archive!Reads(members[i], str) => str.failed
  BY ReadsWell
<1>3. ASSUME NEW i \in 0..Len(members) PROVE Archive!After(i, str) = str
  <2>1. \A j \in 1..i : j \in 1..Len(members)
    BY LenProperties DEF ArchiveInv, HeldWell
  <2>2. QED
    BY <1>1, <1>2, <2>1 DEF Archive!After
<1>4. QED
  BY <1>1, <1>2, <1>3

LEMMA ReadDataKeeps ==
    ASSUME ArchiveInv, NEW i \in DOMAIN members, Archive!ReadData(i)
    PROVE  ArchiveInv'
<1>1. i \in 1..Len(members)
  BY LenProperties DEF ArchiveInv, HeldWell
<1>2. ~Archive!Reads(members[i], stream) => [stream EXCEPT !.failed = TRUE] = stream
  <2>1. stream \in [file : DOMAIN Given \cup {Absent}, intact : BOOLEAN, failed : BOOLEAN]
    BY DEF ArchiveInv, StreamWell
  <2>2. QED
    BY <1>1, <2>1, ReadLeaves
<1>3. /\ stream' = stream /\ disk' = disk /\ members' = members /\ symtab' = symtab /\ dir' = dir
      /\ reading' = reading /\ reloads' = reloads /\ owner' = owner /\ saved' = saved
  BY <1>2 DEF Archive!ReadData
<1>4. QED
  BY <1>3 DEF ArchiveInv, HeldWell, StreamWell, FilesWell, Archive!Known, Archive!Used, Fresh, Coherent

LEMMA SaveArchiveKeeps ==
    ASSUME ArchiveInv, NEW f \in Targets, Archive!Save(f)
    PROVE  ArchiveInv'
<1> DEFINE opened == [stream EXCEPT !.intact = @ /\ stream.file # f]
           got(i) == Archive!DataOf(members[i], Archive!After(i - 1, opened))
           body == [i \in DOMAIN members |->
                     Archive!Entry("member", members[i].short, members[i].size, got(i), <<>>, <<>>)]
           held == [i \in DOMAIN members |-> [members[i] EXCEPT !.data = got(i)]]
           h == IF symtab # Archive!NoMap THEN <<Archive!SymbolEntry>> ELSE <<>>
           a == FileOf(held, dir, h)
           s == [done |-> TRUE,
                 members |-> [i \in DOMAIN members |-> <<members[i].name, members[i].data>>],
                 readable |-> \A i \in DOMAIN members : Archive!Reads(members[i], opened),
                 known |-> Archive!Known, symbols |-> owner]
           n == Len(members)
           sz == Archive!TableSize - 60
<1>1. /\ \A x \in DOMAIN symtab : symtab[x] < Len(members)
      /\ f # stream.file
      /\ disk' = [disk EXCEPT ![f] = [magic |-> TRUE,
           entries |-> h \o (IF dir # <<>> THEN <<Archive!NamesEntry>> ELSE <<>>) \o body]]
      /\ stream' = Archive!After(Len(members), opened)
      /\ saved' = [saved EXCEPT ![f] = s]
      /\ members' = members /\ symtab' = symtab /\ dir' = dir
      /\ reading' = reading /\ reloads' = reloads /\ owner' = owner
  BY DEF Archive!Save
<1>2. /\ HeldWell /\ StreamWell /\ FilesWell /\ reading \in {"no", "ok", "failed"} /\ reloads \in Nat
      /\ Archive!Known => Owned(members, symtab, owner)
      /\ ~Archive!Used => Fresh
  BY DEF ArchiveInv
<1>3. /\ members \in Seq(Members) /\ dir \in Seq(DirNames) /\ symtab \in SymMaps
      /\ Coherent(dir, members)
  BY <1>2 DEF HeldWell
<1>4. n \in Nat /\ DOMAIN members = 1..n /\ \A i \in 1..n : members[i] \in Members
  BY <1>3, LenProperties, ElementOfSeq
<1>5. opened = stream
  <2>1. stream \in [file : DOMAIN Given \cup {Absent}, intact : BOOLEAN, failed : BOOLEAN]
    BY <1>2 DEF StreamWell
  <2>2. QED
    BY <1>1, <2>1
<1>6. \A i \in 0..n : Archive!After(i, opened) = stream
  <2>1. stream \in [file : DOMAIN Given \cup {Absent}, intact : BOOLEAN, failed : BOOLEAN]
    BY <1>2 DEF StreamWell
  <2> HIDE DEF opened
  <2>2. QED
    BY <1>5, <2>1, ReadLeaves
<1> HIDE DEF opened, n
<1>7. stream' = stream
  <2>1. n \in 0..n
    BY <1>4
  <2>2. QED
    BY <1>1, <1>6, <2>1 DEF n
<1>8. ASSUME NEW i \in DOMAIN members
      PROVE  /\ got(i) \in Archive!Contents \cup {Garbage}
             /\ s.readable => got(i) = members[i].data
  <2>1. i \in 1..n /\ i - 1 \in 0..n
    BY <1>4
  <2>2. got(i) = IF Archive!Reads(members[i], stream) THEN members[i].data ELSE Garbage
    BY <1>6, <2>1 DEF Archive!DataOf
  <2>3. members[i].data \in Archive!Contents \cup {Garbage}
    BY <1>4, <2>1 DEF Members
  <2>4. s.readable => Archive!Reads(members[i], stream)
    BY <1>5
  <2> HIDE DEF got, s
  <2>5. QED
    BY <2>2, <2>3, <2>4
<1> HIDE DEF got
<1>9. \A i \in 1..n : /\ held[i] \in Members /\ held[i].name = members[i].name
                      /\ held[i].short = members[i].short /\ held[i].size = members[i].size
                      /\ held[i].data = got(i)
  <2> TAKE i \in 1..n
  <2>1. members[i] \in Members /\ got(i) \in Archive!Contents \cup {Garbage}
    BY <1>4, <1>8
  <2>2. held[i] = [members[i] EXCEPT !.data = got(i)]
    BY <1>4
  <2> HIDE DEF held
  <2>3. QED
    BY <2>1, <2>2 DEF Members
<1>10. held \in Seq(Members) /\ DOMAIN held = DOMAIN members /\ Len(held) = n
  <2>1. held \in [1..n -> Members] /\ DOMAIN held = 1..n
    BY <1>4, <1>9
  <2> HIDE DEF held
  <2>2. QED
    BY <1>4, <2>1, SeqOf
<1>11. body = BodyOf(held)
  <2>1. \A i \in DOMAIN members :
          Archive!Entry("member", members[i].short, members[i].size, got(i), <<>>, <<>>)
            = Archive!Entry("member", held[i].short, held[i].size, held[i].data, <<>>, <<>>)
    BY <1>4, <1>9
  <2> HIDE DEF held
  <2>2. QED
    BY <1>10, <2>1 DEF BodyOf
<1>12. Coherent(dir, held)
  <2>1. \A i \in 1..n : NameOf(dir, members[i].short) = members[i].name
    BY <1>3 DEF Coherent, n
  <2> HIDE DEF held
  <2>2. QED
    BY <1>9, <1>10, <2>1 DEF Coherent
<1>13. \A x : Archive!Positions(held, x) = Archive!Positions(members, x)
  <2>1. [i \in DOMAIN held |-> Archive!HeaderSize + Archive!Even(held[i].size)]
          = [i \in DOMAIN members |-> Archive!HeaderSize + Archive!Even(members[i].size)]
    <3> HIDE DEF held
    <3>1. QED
      BY <1>4, <1>9, <1>10
  <2>2. Len(held) = Len(members)
    BY <1>10 DEF n
  <2> HIDE DEF held
  <2>3. QED
    BY <2>1, <2>2 DEF Archive!Positions
<1>14. Archive!NamesEntry = NamesOf(dir)
  BY DEF Archive!NamesEntry, NamesOf
<1> HIDE DEF body, h, held
<1>15. disk' = [disk EXCEPT ![f] = a]
  BY <1>1, <1>11, <1>14 DEF FileOf, NamesIn
<1>23. PICK t : TableFor(t, symtab, members, MembersStart(sz, dir)) /\ Archive!SymbolEntry = SymbolsIn(sz, t)
  BY <1>1, <1>3, SymbolEntryIs
<1>24. IsHead(h, sz, t, held, dir, symtab)
  <2>1. sz \in Nat /\ sz % 2 = 0
    BY <1>3, TableSizeFacts
  <2> HIDE DEF sz
  <2>2. TableFor(t, symtab, held, MembersStart(sz, dir))
    BY <1>13, <1>23 DEF TableFor
  <2>3. QED
    BY <1>23, <2>1, <2>2 DEF IsHead, h
<1>25. Says(s, held, symtab)
  <2>1. s.known => owner = [x \in DOMAIN symtab |-> symtab[x] + 1]
    BY <1>2 DEF Owned
  <2>2. /\ DOMAIN s.members = DOMAIN members
        /\ \A i \in DOMAIN members : s.members[i][1] = members[i].name /\ s.members[i][2] = members[i].data
        /\ s.symbols = owner
    OBVIOUS
  <2> HIDE DEF s
  <2>3. QED
    BY <1>4, <1>8, <1>9, <1>10, <2>1, <2>2 DEF Says
<1>26. s.done
  OBVIOUS
<1> HIDE DEF s, sz
<1>27. Archive!WellFormed(a) /\ Kept(a, s)
  <2>1. \A x \in DOMAIN symtab : symtab[x] < Len(held)
    BY <1>1, <1>10 DEF n
  <2>2. QED
    BY <1>3, <1>10, <1>12, <1>24, <1>25, <2>1, SavedFacts
<1> HIDE DEF a
<1>16. f \in DOMAIN Given
  BY ArchiveConstants
<1>17. FilesWell'
  <2>1. DOMAIN disk = DOMAIN Given /\ DOMAIN saved = DOMAIN Given
        /\ \A g \in DOMAIN Given : /\ disk[g] # Absent => Archive!WellFormed(disk[g])
                                   /\ saved[g].done => Kept(disk[g], saved[g])
    BY <1>2 DEF FilesWell
  <2>2. disk' = [g \in DOMAIN Given |-> IF g = f THEN a ELSE disk[g]]
        /\ saved' = [g \in DOMAIN Given |-> IF g = f THEN s ELSE saved[g]]
    BY <1>1, <1>15, <1>16, <2>1
  <2>3. DOMAIN disk' = DOMAIN Given /\ DOMAIN saved' = DOMAIN Given
    BY <2>2
  <2>4. \A g \in DOMAIN Given : /\ disk'[g] # Absent => Archive!WellFormed(disk'[g])
                                /\ saved'[g].done => Kept(disk'[g], saved'[g])
    BY <1>27, <2>1, <2>2
  <2>5. QED
    BY <2>3, <2>4 DEF FilesWell
<1>18. StreamWell'
  BY <1>1, <1>2, <1>7 DEF StreamWell
<1>19. HeldWell'
  BY <1>1, <1>3 DEF HeldWell, Coherent
<1>20. Archive!Known' => Owned(members', symtab', owner')
  BY <1>1, <1>2 DEF Archive!Known, Owned
<1>21. ASSUME ~Archive!Used' PROVE Fresh'
  <2>1. ~Archive!Used /\ members = <<>> /\ symtab = Archive!NoMap
    BY <1>1, <1>21 DEF Archive!Used
  <2>2. dir = <<>> /\ \A g \in DOMAIN Given : disk[g] # Absent => Archive!Orderly(disk[g])
    BY <1>2, <2>1 DEF Fresh
  <2>3. a = FileOf(<<>>, <<>>, <<>>)
    BY <1>4, <1>10, <2>1, <2>2 DEF a, h
  <2>4. Archive!Orderly(a)
    BY <2>3, EmptyIsOrderly
  <2>5. \A g \in DOMAIN Given : disk'[g] # Absent => Archive!Orderly(disk'[g])
    <3>1. \A g \in DOMAIN Given : disk'[g] = IF g = f THEN a ELSE disk[g]
      BY <1>2, <1>15, <1>16 DEF FilesWell
    <3>2. QED
      BY <2>2, <2>4, <3>1
  <2>6. QED
    BY <1>1, <2>2, <2>5 DEF Fresh
<1>22. QED
  BY <1>1, <1>2, <1>17, <1>18, <1>19, <1>20, <1>21 DEF ArchiveInv

LEMMA ArchiveStepKeeps == ArchiveInv /\ [Archive!Next]_archiveVars => ArchiveInv'
<1> SUFFICES ASSUME ArchiveInv, [Archive!Next]_archiveVars PROVE ArchiveInv'
  OBVIOUS
<1>1. CASE UNCHANGED archiveVars
  BY <1>1 DEF archiveVars, ArchiveInv, HeldWell, StreamWell, FilesWell, Archive!Known, Archive!Used,
              Fresh, Coherent, Owned
<1>2. ASSUME NEW f \in DOMAIN Given, Archive!Load(f) PROVE ArchiveInv'
  BY <1>2, LoadKeeps
<1>3. ASSUME NEW n \in Archive!Names, NEW c \in Archive!Contents, Archive!AddMember(n, c) PROVE ArchiveInv'
  BY <1>3, AddMemberKeeps
<1>4. ASSUME NEW i \in DOMAIN members, NEW s \in Archive!Symbols, Archive!AddSymbol(i, s) PROVE ArchiveInv'
  BY <1>4, AddSymbolKeeps
<1>5. ASSUME NEW i \in DOMAIN members, Archive!ReadData(i) PROVE ArchiveInv'
  BY <1>5, ReadDataKeeps
<1>6. ASSUME NEW f \in Targets, Archive!Save(f) PROVE ArchiveInv'
  BY <1>6, SaveArchiveKeeps
<1>7. QED
  BY <1>1, <1>2, <1>3, <1>4, <1>5, <1>6 DEF Archive!Next

LEMMA ArchiveInvMeans ==
    ASSUME ArchiveInv
    PROVE  /\ Archive!TypeOK /\ Archive!HeldWhole /\ Archive!SavedReadsBack
           /\ Archive!FoundIsOwner /\ Archive!LongSymbolsReadBack
<1>1. /\ members \in Seq(Members) /\ dir \in Seq(DirNames) /\ symtab \in SymMaps
  BY DEF ArchiveInv, HeldWell
<1>2. /\ DOMAIN members = 1..Len(members) /\ \A i \in DOMAIN members : members[i] \in Members
      /\ \A i \in DOMAIN dir : dir[i] \in DirNames
  BY <1>1, LenProperties, ElementOfSeq
<1>3. Archive!TypeOK
  <2>1. \A i \in DOMAIN members :
          members[i].name \in Archive!Names /\ members[i].size \in Nat /\ members[i].new \in BOOLEAN
    BY <1>2 DEF Members
  <2>2. DOMAIN symtab \subseteq Archive!Symbols
    BY <1>1, SymMapIs
  <2>3. reading \in {"no", "ok", "failed"} /\ stream.failed \in BOOLEAN
    BY DEF ArchiveInv, StreamWell
  <2>4. QED
    BY <1>2, <2>1, <2>2, <2>3 DEF Archive!TypeOK, DirNames
<1>4. \A f \in DOMAIN Given : saved[f].done => Kept(disk[f], saved[f])
  BY DEF ArchiveInv, FilesWell
<1>5. Archive!SavedReadsBack
  BY <1>4 DEF Archive!SavedReadsBack, Archive!Reread, Kept
<1>6. Archive!LongSymbolsReadBack
  BY <1>4 DEF Archive!LongSymbolsReadBack, Archive!SymbolsOf, Archive!Reread, Kept
<1>7. Archive!FoundIsOwner
  <2> SUFFICES ASSUME Archive!Known
               PROVE  /\ DOMAIN symtab = DOMAIN owner
                      /\ \A s \in DOMAIN owner : Archive!FindSymbol(s) = owner[s]
                      /\ \A i \in DOMAIN members : Archive!SymbolsFor(i) = {s \in DOMAIN owner : owner[s] = i}
    BY DEF Archive!FoundIsOwner
  <2>1. Owned(members, symtab, owner)
    BY DEF ArchiveInv
  <2>2. DOMAIN symtab = DOMAIN owner /\ \A s \in DOMAIN owner : owner[s] = symtab[s] + 1
    BY <2>1 DEF Owned
  <2>3. \A s \in DOMAIN symtab : symtab[s] \in Nat
    BY <1>1, SymMapIs
  <2>4. ASSUME NEW i \in DOMAIN members
        PROVE  Archive!SymbolsFor(i) = {s \in DOMAIN owner : owner[s] = i}
    <3> DEFINE first == CHOOSE j \in DOMAIN members :
                 /\ members[j].name = members[i].name
                 /\ \A k \in 1..(j - 1) : members[k].name # members[i].name
    <3>1. Archive!SymbolsFor(i) = {s \in DOMAIN symtab : symtab[s] = first - 1}
      BY DEF Archive!SymbolsFor
    <3>2. first \in 1..Len(members) /\ members[first].name = members[i].name
      BY <1>1, FirstOfName
    <3> HIDE DEF first
    <3>3. first = i /\ i \in Int
      BY <1>2, <2>1, <3>2 DEF Owned
    <3>4. \A s \in DOMAIN symtab : symtab[s] = first - 1 <=> owner[s] = i
      BY <2>2, <2>3, <3>3
    <3>5. QED
      BY <2>2, <3>1, <3>4
  <2>5. \A s \in DOMAIN owner : Archive!FindSymbol(s) = owner[s]
    BY <2>2 DEF Archive!FindSymbol
  <2>6. QED
    BY <2>2, <2>4, <2>5
<1>8. Archive!HeldWhole
  <2>1. reading # "failed" => ~stream.failed
    BY DEF ArchiveInv, StreamWell
  <2>2. QED
    BY <1>2, <2>1, ReadsWell DEF Archive!HeldWhole
<1>9. QED
  BY <1>3, <1>5, <1>6, <1>7, <1>8

(* An archive that was saved is read back, with every member in its place   *)
(* and, where there are long names, every symbol with its member; every     *)
(* member whole unless the load it came with failed, as one does inside a   *)
(* header or a symbol table; and find_symbol() answers with the member a    *)
(* symbol was added for: for any files ar could have written, also cut, any *)
(* names, symbols and contents, however often members are added, read and   *)
(* saved in between (ario.hpp 84-110, 320-362, 587-741).                    *)
THEOREM ArchiveIsReadBack == DataSpec => []ArchiveReadsBack
<1>1. DataInit => ArchiveInv
  BY ArchiveStarts DEF DataInit
<1>2. [DataNext]_dataVars => [Archive!Next]_archiveVars
  BY DEF DataNext, SectionStep, ObjectStep, ArchiveStep, TableStep, dataVars
<1>3. ArchiveInv /\ [DataNext]_dataVars => ArchiveInv'
  BY <1>2, ArchiveStepKeeps
<1>4. ArchiveInv => ArchiveReadsBack
  BY ArchiveInvMeans DEF ArchiveReadsBack
<1>5. QED
  BY <1>1, <1>3, <1>4, PTL DEF DataSpec
=============================================================================
