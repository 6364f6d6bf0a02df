----------------------------- MODULE IndexText -----------------------------
(***************************************************************************)
(* The JSON text between the resolver and the GUI: what json_escape,        *)
(* to_json and to_member_index_json write (tc397_elfio_resolver.cpp), what  *)
(* a crash or a full disk leaves of it, what fits into the buffer of a      *)
(* caller, and what JsonScan makes of that (elf_index.cpp).                 *)
(*                                                                         *)
(* A text is a sequence of characters; the name of a key, a literal (true,  *)
(* false, null) and each character of a value count as one.  A cut inside   *)
(* a key or a literal is read as one in front of it.  Texts of the resolver *)
(* have no blanks, and nothing that holds others where it is skipped.       *)
(***************************************************************************)
EXTENDS Integers, Sequences, SequencesExt

CONSTANTS
    Indexes,  \* what is written: [path, depth, version, items], the items sorted by member
    Answers,  \* what is resolved: the fields of a VariableRef
    Hex,      \* control character -> its four hex digits
    Shorts,   \* the other escaped characters -> what stands behind the backslash
    OutSize   \* the buffer for an answer

VARIABLES
    kept,     \* the index whose text was last written
    text,     \* what the file, or the buffer, holds
    source,   \* "none", "index", "answer": what it is the text of
    whole,    \* nothing is missing (observation)
    asked,    \* the answer the buffer was filled with
    result    \* what was last read: [done, ok, entries]

vars == <<kept, text, source, whole, asked, result>>

Quote == "\""
Backslash == "\\"
Digits == <<"0", "1", "2", "3", "4", "5", "6", "7", "8", "9">>
Literals == {"true", "false", "null"}

-----------------------------------------------------------------------------
(* Writing.                                                                 *)
Decimal(n) ==
    LET f[k \in 0..n] == IF k < 10 THEN <<Digits[k + 1]>> ELSE Append(f[k \div 10], Digits[(k % 10) + 1])
    IN  f[n]

\* Faulty: quotes are escaped, backslashes not.
EscapeQuotes(s) ==
    FlattenSeq([i \in DOMAIN s |-> IF s[i] = Quote THEN <<Backslash, Quote>> ELSE <<s[i]>>])

\* json_escape
Escape(s) ==
    FlattenSeq([i \in DOMAIN s |->
        IF s[i] \in DOMAIN Shorts THEN <<Backslash, Shorts[s[i]]>>
        ELSE IF s[i] \in DOMAIN Hex THEN <<Backslash, "u">> \o Hex[s[i]]
        ELSE <<s[i]>>])

Str(s) == <<Quote>> \o Escape(s) \o <<Quote>>
Field(key, value) == <<Quote, key, Quote, ":">> \o value
Joined(parts) == FlattenSeq([i \in DOMAIN parts |-> IF i = 1 THEN parts[i] ELSE <<",">> \o parts[i]])
Object(fields) == <<"{">> \o Joined(fields) \o <<"}">>

\* to_json of a VariableRef.
AnswerText(r) ==
    Object(<<Field("expression", Str(r.expression)), Field("base_name", Str(r.base)),
             Field("address", Decimal(r.address)), Field("byte_size", Decimal(r.size)),
             Field("variable_size", Decimal(r.size)), Field("indexed", <<"false">>),
             Field("signed", <<r.signed>>), Field("source", Str(r.source)),
             Field("symbol_type", Str(<<>>)), Field("binding", Str(<<>>)),
             Field("section_name", Str(<<>>)), Field("type_name", Str(r.type))>>)

\* to_json of a MemberPath.
ItemText(i) ==
    Object(<<Field("member_name", Str(i.member)), Field("expression", Str(i.expression)),
             Field("base_name", Str(i.base)), Field("address", Decimal(i.address)),
             Field("byte_offset", Decimal(i.at)), Field("byte_size", Decimal(i.size)),
             Field("signed", <<i.signed>>), Field("type_name", Str(i.type))>>)

(* to_member_index_json: the items of each member together.                 *)
Starts(items) == {k \in DOMAIN items : k = 1 \/ items[k].member # items[k - 1].member}
Members(items) ==
    LET of(k) == SelectSeq(items, LAMBDA i : i.member = items[k].member)
        texts(k) == LET s == of(k) IN [i \in DOMAIN s |-> ItemText(s[i])]
        starts == SetToSortSeq(Starts(items), LAMBDA a, b : a < b)
    IN  Joined([k \in DOMAIN starts |->
          Str(items[starts[k]].member) \o <<":", "[">> \o Joined(texts(starts[k])) \o <<"]">>])

Opening(x) ==
    <<"{">> \o
    Joined(<<Field("elf_path", Str(x.path)), Field("max_depth", Decimal(x.depth)),
             Field("mcu_version", IF x.version = <<>> THEN <<"null">> ELSE Str(x.version)),
             Field("entry_count", Decimal(Len(x.items))),
             Field("member_count", Decimal(Cardinality(Starts(x.items))))>>)
    \o <<",", Quote>>

IndexText(x) ==
    Opening(x) \o <<"entries_by_member", Quote, ":", "{">> \o Members(x.items) \o <<"}", "}">>

-----------------------------------------------------------------------------
(* Reading, from position p of t: [ok, p, ...], p the position behind.      *)
Fail(p) == [ok |-> FALSE, p |-> p, out |-> <<>>]
Done(p, out) == [ok |-> TRUE, p |-> p, out |-> out]
Peek(t, p) == IF p <= Len(t) THEN t[p] ELSE "end"

(* str(): up to the next quote that is not escaped, or the end of the text. *)
ControlOf(digits) ==
    LET c == {h \in DOMAIN Hex : Hex[h] = digits} IN IF c = {} THEN <<>> ELSE <<CHOOSE h \in c : TRUE>>
ShortOf(e) ==
    LET c == {s \in DOMAIN Shorts : Shorts[s] = e} IN IF c = {} THEN <<e>> ELSE <<CHOOSE s \in c : TRUE>>

ReadStr(t, p) ==
    LET f[i \in 1..(Len(t) + 6)] ==
          IF i > Len(t) THEN Done(Len(t) + 1, <<>>)
          ELSE IF t[i] = Quote THEN Done(i + 1, <<>>)
          ELSE LET escaped == t[i] = Backslash /\ i < Len(t)
                   hex == escaped /\ t[i + 1] = "u"
                   four == hex /\ i + 5 <= Len(t)
                   next == IF four THEN i + 6 ELSE IF escaped THEN i + 2 ELSE i + 1
                   this == IF four THEN ControlOf(SubSeq(t, i + 2, i + 5))
                           ELSE IF hex THEN <<>>
                           ELSE IF escaped THEN ShortOf(t[i + 1]) ELSE <<t[i]>>
               IN  Done(f[next].p, this \o f[next].out)
    IN  IF Peek(t, p) # Quote THEN Fail(p) ELSE f[p + 1]

(* uint_(): the digits there are.                                           *)
DigitOf == [d \in ToSet(Digits) |-> CHOOSE n \in 0..9 : Digits[n + 1] = d]
ReadUint(t, p) ==
    LET digit == DigitOf
        end[i \in p..(Len(t) + 1)] == IF i <= Len(t) /\ t[i] \in DOMAIN digit THEN end[i + 1] ELSE i
        f[i \in (p - 1)..(end[p] - 1)] == IF i = p - 1 THEN 0 ELSE 10 * f[i - 1] + digit[t[i]]
    IN  Done(end[p], f[end[p] - 1])

\* skip_value(): what is none of these is left where it is.
Skip(t, p) ==
    IF Peek(t, p) = Quote THEN ReadStr(t, p)
    ELSE IF Peek(t, p) \in Literals THEN Done(p + 1, <<>>)
    ELSE Done(ReadUint(t, p).p, <<>>)

\* signed_field()
ReadSigned(t, p) ==
    IF Peek(t, p) \in Literals THEN Done(p + 1, t[p]) ELSE [Skip(t, p) EXCEPT !.out = "null"]

StringKeys == {"member_name", "expression", "type_name"}
NumberKeys == {"address", "byte_size"}
ReadValue(t, p, key) ==
    IF key \in StringKeys THEN ReadStr(t, p)
    ELSE IF key \in NumberKeys THEN ReadUint(t, p)
    ELSE IF key = "signed" THEN ReadSigned(t, p)
    ELSE Skip(t, p)

\* expect(c) after what was read, then what follows.
Expect(t, r, c) == IF r.ok /\ Peek(t, r.p) = c THEN [r EXCEPT !.p = @ + 1] ELSE Fail(r.p)

\* The loops "read one, then another behind each comma": f[i] reads from i on.
More(t, f, one) ==
    IF one.ok /\ Peek(t, one.p) = "," THEN [f[one.p + 1] EXCEPT !.out = one.out \o @] ELSE one

ReadFields(t, p) ==
    LET f[i \in 1..(Len(t) + 2)] ==
          LET key == Expect(t, ReadStr(t, i), ":")
          IN  IF ~key.ok \/ key.out = <<>> THEN Fail(i)
              ELSE More(t, f, [ReadValue(t, key.p, key.out[1]) EXCEPT !.out = <<<<key.out[1], @>>>>])
    IN  f[p]

\* The value of a key, dflt for none.
Value(fields, key, dflt) ==
    LET of == {i \in DOMAIN fields : fields[i][1] = key}
    IN  IF of = {} THEN dflt ELSE fields[CHOOSE i \in of : \A k \in of : k <= i][2]

Entry(fields) ==
    [member |-> Value(fields, "member_name", <<>>), expression |-> Value(fields, "expression", <<>>),
     address |-> Value(fields, "address", 0), size |-> Value(fields, "byte_size", 0),
     signed |-> Value(fields, "signed", "null"), type |-> Value(fields, "type_name", <<>>)]

\* parse_entry
AsEntry(end) == IF end.ok THEN [end EXCEPT !.out = <<Entry(@)>>] ELSE end
ReadEntry(t, p) ==
    IF Peek(t, p) # "{" THEN Fail(p)
    ELSE LET fields == IF Peek(t, p + 1) = "}" THEN Done(p + 1, <<>>) ELSE ReadFields(t, p + 1)
         IN  AsEntry(Expect(t, fields, "}"))

ReadEntries(t, p) ==
    LET f[i \in 1..(Len(t) + 2)] == More(t, f, ReadEntry(t, i))
        all == IF Peek(t, p + 1) = "]" THEN Done(p + 1, <<>>) ELSE f[p + 1]
    IN  IF Peek(t, p) # "[" THEN Fail(p) ELSE Expect(t, all, "]")

ReadMembers(t, p) ==
    LET f[i \in 1..(Len(t) + 2)] ==
          LET name == Expect(t, ReadStr(t, i), ":")
          IN  IF name.ok THEN More(t, f, ReadEntries(t, name.p)) ELSE name
        all == IF Peek(t, p + 1) = "}" THEN Done(p + 1, <<>>) ELSE f[p + 1]
    IN  IF Peek(t, p) # "{" THEN Fail(p) ELSE Expect(t, all, "}")

(* parse_index_json: what comes behind the last value is not looked at.     *)
ReadIndex(t) ==
    LET f[i \in 1..(Len(t) + 2)] ==
          LET key == Expect(t, ReadStr(t, i), ":")
              value == IF key.out = <<"entries_by_member">> THEN ReadMembers(t, key.p)
                       ELSE [Skip(t, key.p) EXCEPT !.out = <<>>]
          IN  IF key.ok THEN More(t, f, value) ELSE key
    IN  IF Peek(t, 1) # "{" THEN Fail(1)
        ELSE IF Peek(t, 2) = "}" THEN Done(3, <<>>) ELSE f[2]

-----------------------------------------------------------------------------
NotRead == [done |-> FALSE, ok |-> FALSE, entries |-> <<>>]
ReadAs(r) == [done |-> TRUE, ok |-> r.ok, entries |-> r.out]

Init ==
    /\ kept \in Indexes /\ text = <<>> /\ source = "none" /\ whole = FALSE
    /\ asked \in Answers /\ result = NotRead

WriteIndex ==
    /\ source = "none"
    /\ source' = "index" /\ text' = IndexText(kept) /\ whole' = TRUE
    /\ UNCHANGED <<kept, asked, result>>

\* The process dies, or the disk is full, after n characters.
CutAt(n) ==
    /\ source = "index" /\ whole /\ ~result.done
    /\ text' = SubSeq(text, 1, n) /\ whole' = FALSE
    /\ UNCHANGED <<kept, source, asked, result>>

LoadIndex ==
    /\ source = "index" /\ ~result.done
    /\ result' = ReadAs(ReadIndex(text))
    /\ UNCHANGED <<kept, text, source, whole, asked>>

\* copy_string: as much as there is room for.
Copied(t) == SubSeq(t, 1, IF Len(t) < OutSize THEN Len(t) ELSE OutSize - 1)

ResolveHandle ==
    /\ source = "none"
    /\ source' = "answer" /\ text' = Copied(AnswerText(asked))
    /\ whole' = (Len(AnswerText(asked)) < OutSize)
    /\ UNCHANGED <<kept, asked, result>>

ResolveReads ==
    /\ source = "answer" /\ ~result.done
    /\ result' = ReadAs(ReadEntry(text, 1))
    /\ UNCHANGED <<kept, text, source, whole, asked>>

\* load() and resolve() begin anew, with what was read before forgotten.
Begin ==
    /\ result.done
    /\ source' = "none" /\ text' = <<>> /\ whole' = FALSE /\ result' = NotRead
    /\ UNCHANGED <<kept, asked>>

Next ==
    \/ Begin
    \/ WriteIndex \/ LoadIndex \/ \E n \in 0..(Len(text) - 1) : CutAt(n)
    \/ ResolveHandle \/ ResolveReads

Spec == Init /\ [][Next]_vars

-----------------------------------------------------------------------------
ItemEntry(i) ==
    [member |-> i.member, expression |-> i.expression, address |-> i.address, size |-> i.size,
     signed |-> i.signed, type |-> i.type]
Meant == [k \in DOMAIN kept.items |-> ItemEntry(kept.items[k])]
Behind == Len(Opening(kept)) < Len(text)

(* An index is read as it was written, whatever characters its names hold;  *)
(* of one that is cut the GUI takes all of the entries, when only the last  *)
(* brace is missing, or none: where it is cut before the entries begin it   *)
(* passes for an index that has none, anywhere else it is refused.  An      *)
(* answer that does not fit its buffer is refused.                          *)
TextReadsBack ==
    result.done =>
        /\ source = "index" /\ whole => result.ok /\ result.entries = Meant
        /\ source = "index" /\ ~whole /\ result.ok =>
             result.entries = IF Behind THEN Meant ELSE <<>>
        /\ source = "answer" =>
             /\ result.ok <=> whole
             /\ whole => result.entries = <<ItemEntry([asked EXCEPT !.member = <<>>])>>
=============================================================================
