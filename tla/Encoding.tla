------------------------------ MODULE Encoding ------------------------------
(***************************************************************************)
(* One file and the document it is opened in: the marks and encodings of   *)
(* SciDoc::DoLoadFromFile and SaveToFile.  In the editor a text is UTF-8   *)
(* or 8-bit; a UTF-16 file is converted both ways.                         *)
(*                                                                         *)
(* The file is read twice, to find out its encoding and then its bytes,    *)
(* and other programs may write or remove it in between.                   *)
(***************************************************************************)
EXTENDS FileEncoding

CONSTANTS
    Bytes,      \* what files are made of before the editor opens one
    MaxBytes,   \* bound: length of such a file
    Files,      \* contents other programs write while the editor has it open
    MaxText,    \* bound: length of the text when something is inserted
    MaxDisk,    \* bound: length of what is saved
    Letter      \* what is typed

Utf8Chars == 1 .. 127

ASSUME EncodingAssumption ==
    /\ Bytes \subseteq 0 .. 255
    /\ Files \subseteq Seq(0 .. 255) \ {<<>>}
    /\ MaxBytes \in Nat /\ MaxText \in Nat /\ MaxDisk \in Nat
    /\ Letter \in Utf8Chars

NoFile == <<-2>>

VARIABLES
    disk,       \* the bytes of the file, or NoFile
    pc,         \* "none" before the editor starts, "closed" without a tab, "idle",
                \* or in a load "opening" a tab or "reloading"
    found,      \* what get_file_encoding said then
    defaults,   \* DefaultToAscii and DefaultToSbcs
    text,       \* the bytes in the buffer
    bom,        \* SciDoc::bom, up to its NUL
    utf8,       \* SciDoc::_utf8
    origin,     \* history: the encoding of the file that was loaded last
    mixed,      \* history: bytes of another encoding may be in the text, or in the file
                \* that was saved
    forgot,     \* history: a file was inserted, or a reload began and failed
    saved       \* history: nothing happened since a save

vars == <<disk, pc, found, defaults, text, bom, utf8, origin, mixed, forgot, saved>>

(***************************************************************************)
(* FXTextCodec, as it is used: between UTF-16 and UTF-8.                    *)
(***************************************************************************)

Unit(enc, a, b) == IF enc = "e" THEN a + 256 * b ELSE 256 * a + b
UnitBytes(enc, u) == IF enc = "e" THEN <<u % 256, u \div 256>> ELSE <<u \div 256, u % 256>>

\* A code beyond the first 65536 is a pair of units.
IsHigh(u) == u \in 55296 .. 56319
IsLow(u) == u \in 56320 .. 57343
MaxCode == 1114111

mb2utf(enc, s) ==
    LET n == Len(s) \div 2
        unit == [k \in 1 .. n |-> Unit(enc, s[2 * k - 1], s[2 * k])]
        IsPair(k) == k \in 1 .. n - 1 /\ IsHigh(unit[k]) /\ IsLow(unit[k + 1])
        wide == [k \in 1 .. n |->
                    IF IsPair(k) THEN 65536 + 1024 * (unit[k] - 55296) + unit[k + 1] - 56320
                    ELSE unit[k]]
    IN  FlattenSeq([k \in 1 .. n |-> IF IsPair(k - 1) THEN <<>> ELSE encodeutf8(wide[k], 4)])

\* A question mark for bytes that are no character.
CodeBytes(enc, u) ==
    IF u = INVALID_CHAR \/ u > MaxCode THEN UnitBytes(enc, 63)
    ELSE IF u < 65536 THEN UnitBytes(enc, u)
    ELSE UnitBytes(enc, 55232 + u \div 1024) \o UnitBytes(enc, 56320 + (u % 1024))

\* The bytes of every character.
Chars(s) ==
    FoldLeft(LAMBDA acc, c : IF IsContinuation(c) /\ acc # <<>>
                             THEN [acc EXCEPT ![Len(acc)] = Append(@, c)]
                             ELSE Append(acc, <<c>>),
             <<>>, s)

utf2mb(enc, s) ==
    LET chars == Chars(s) IN
        FlattenSeq([k \in DOMAIN chars |-> CodeBytes(enc, decodeutf8(chars[k]))])

(***************************************************************************)
(* The file.                                                               *)
(***************************************************************************)

Init ==
    /\ disk = <<>>
    /\ pc = "none"
    /\ found = "Z"
    /\ defaults = [ascii |-> FALSE, sbcs |-> FALSE]
    /\ text = <<>> /\ bom = <<>> /\ utf8 = FALSE
    /\ origin = "Z" /\ mixed = FALSE /\ forgot = FALSE /\ saved = FALSE

Loading == pc \in {"opening", "reloading"}

doc == <<text, bom, utf8>>
ghost == <<origin, mixed, forgot, saved>>

WriteByte ==
    /\ pc = "none"
    /\ Len(disk) < MaxBytes
    /\ \E c \in Bytes : disk' = Append(disk, c)
    /\ UNCHANGED <<pc, found, defaults, doc, ghost>>

Start ==
    /\ pc = "none"
    /\ pc' = "closed"
    /\ disk' = NoFile
    /\ defaults' \in [ascii : BOOLEAN, sbcs : BOOLEAN]
    /\ UNCHANGED <<found, doc, ghost>>

OtherProgram ==
    /\ pc # "none"
    /\ \E s \in Files \cup {NoFile} : disk' = s
    /\ saved' = FALSE
    /\ UNCHANGED <<pc, found, defaults, doc, origin, mixed, forgot>>

(***************************************************************************)
(* Loading.                                                                *)
(***************************************************************************)

\* What SetUTF8 gets for a file in which no mark was found.
OpensAsUtf8(enc) ==
    CASE enc \in {"T", "Z"} -> ~defaults.ascii
      [] enc \in {"B", "H"} -> ~defaults.sbcs
      [] enc \in {"U", "M"} -> TRUE
      [] OTHER              -> FALSE      \* until the text is converted

\* "\0357\0273\0277" in C: "\035", "7", "\027", "3", "\027", "7", where the mark was
\* meant to be "\357\273\277".  The array `bom' has room for four bytes.
WrittenMark8 == <<29, 55, 23, 51, 23, 55>>

MarkOf(enc) ==
    CASE enc = "M" -> WrittenMark8 [] enc = "e" -> MarkLE [] enc = "E" -> MarkBE [] OTHER -> <<>>

\* The head of DoLoadFromFile.  It clears the mark first, and so it is gone when
\* there is no such file or a binary file is declined.
Detect ==
    /\ pc \in {"closed", "idle"}
    /\ found' = IF disk = NoFile THEN "F" ELSE get_file_encoding(disk)
    /\ saved' = FALSE
    /\ forgot' = TRUE
    /\ \/ /\ found' # "F"
          /\ pc' = IF pc = "idle" THEN "reloading" ELSE "opening"
          /\ bom' = MarkOf(found')
          /\ utf8' = OpensAsUtf8(found')
       \/ /\ found' \in {"F", "B"}
          /\ pc' = pc
          /\ bom' = <<>>
          /\ utf8' = utf8
    /\ UNCHANGED <<disk, defaults, text, origin, mixed>>

\* A build that checks strcpy stops the program instead, and what was typed is lost.
Abort ==
    /\ Loading
    /\ found = "M"
    /\ pc' = "closed"
    /\ text' = <<>> /\ bom' = <<>> /\ utf8' = FALSE
    /\ origin' = "Z" /\ mixed' = mixed /\ forgot' = FALSE
    /\ UNCHANGED <<disk, found, defaults, saved>>

\* What is before the first NUL.
CString(s) ==
    LET nul == SelectInSeq(s, LAMBDA c : c = 0)
    IN  IF nul = 0 THEN s ELSE SubSeq(s, 1, nul - 1)

\* Mutated Loaded: the mark is taken for text.
LoadedWithMark(enc, s) == IF enc \in {"e", "E"} THEN CString(mb2utf(enc, s)) ELSE s

\* What gets into the buffer: fh.position(strlen(bom)) skips the mark, and what was
\* converted ends at a NUL.
Loaded(enc, s) ==
    LET rest == SubSeq(s, Len(MarkOf(enc)) + 1, Len(s))
    IN  IF enc \in {"e", "E"} THEN CString(mb2utf(enc, rest)) ELSE rest

Read ==
    /\ Loading
    /\ disk # NoFile
    /\ pc' = "idle"
    /\ text' = Loaded(found, disk)
    /\ utf8' = (utf8 \/ found \in {"e", "E"})
    /\ origin' = found
    /\ mixed' = (get_file_encoding(disk) # found \/ (mixed /\ disk \notin Files))
    /\ forgot' = FALSE
    /\ UNCHANGED <<disk, found, defaults, bom, saved>>

\* The file is gone; a new tab is closed again.
ReadFails ==
    /\ Loading
    /\ disk = NoFile
    /\ \/ pc = "reloading" /\ pc' = "idle" /\ UNCHANGED <<doc, ghost>>
       \/ /\ pc = "opening"
          /\ pc' = "closed"
          /\ text' = <<>> /\ bom' = <<>> /\ utf8' = FALSE
          /\ origin' = "Z" /\ mixed' = mixed /\ forgot' = FALSE /\ UNCHANGED saved
    /\ UNCHANGED <<disk, found, defaults>>

(***************************************************************************)
(* Editing and saving.                                                     *)
(***************************************************************************)

NewFile ==
    /\ pc = "closed"
    /\ pc' = "idle"
    /\ text' = <<>> /\ bom' = <<>> /\ utf8' = ~defaults.ascii
    /\ origin' = "Z" /\ mixed' = mixed /\ forgot' = FALSE
    /\ UNCHANGED <<disk, found, defaults, saved>>

Insert(pos, s) ==
    /\ Len(text) + Len(s) <= MaxText
    /\ text' = SubSeq(text, 1, pos) \o s \o SubSeq(text, pos + 1, Len(text))

\* At either end; a character is never split.
Type ==
    /\ pc = "idle"
    /\ \E pos \in {0, Len(text)} : Insert(pos, <<Letter>>)
    /\ saved' = FALSE
    /\ UNCHANGED <<disk, pc, found, defaults, bom, utf8, origin, mixed, forgot>>

\* The bytes as they are, up to a NUL; but nothing into a document that is
\* read-only or from a file that is not there, though the mark is cleared then too.
\* Bound: once.
InsertFile ==
    /\ pc = "idle"
    /\ ~mixed
    /\ \/ /\ disk \in Files
          /\ \E pos \in {0, Len(text)} : Insert(pos, CString(disk))
          /\ mixed' = TRUE
       \/ UNCHANGED <<text, mixed>>
    /\ bom' = <<>>
    /\ forgot' = TRUE
    /\ saved' = FALSE
    /\ UNCHANGED <<disk, pc, found, defaults, utf8, origin>>

\* Mutated Stored: the text is not converted back, or the mark is forgotten.
StoredPlain(mark, s) == mark \o s
StoredUnmarked(mark, s) ==
    IF mark = <<>> THEN s
    ELSE CASE mark[1] = 255 -> utf2mb("e", s) [] mark[1] = 254 -> utf2mb("E", s) [] OTHER -> s

\* What SaveToFile writes: the codec is chosen by the first byte of the mark.
Stored(mark, s) ==
    IF mark = <<>> THEN s
    ELSE mark \o (CASE mark[1] = 255 -> utf2mb("e", s)
                    [] mark[1] = 254 -> utf2mb("E", s)
                    [] OTHER         -> s)

Save ==
    /\ pc = "idle"
    /\ Len(Stored(bom, text)) <= MaxDisk
    /\ disk' = Stored(bom, text)
    /\ saved' = TRUE
    /\ UNCHANGED <<pc, found, defaults, doc, origin, mixed, forgot>>

Close ==
    /\ pc = "idle"
    /\ pc' = "closed"
    /\ text' = <<>> /\ bom' = <<>> /\ utf8' = FALSE
    /\ origin' = "Z" /\ mixed' = mixed /\ forgot' = FALSE /\ saved' = FALSE
    /\ UNCHANGED <<disk, found, defaults>>

Next ==
    \/ WriteByte \/ Start \/ OtherProgram
    \/ Detect \/ Abort \/ Read \/ ReadFails
    \/ NewFile \/ Type \/ InsertFile \/ Save \/ Close

Spec == Init /\ [][Next]_vars

(***************************************************************************)
(* Properties.                                                             *)
(***************************************************************************)

\* SciDoc::GetEncoding: what the status bar shows.
GetEncoding ==
    CASE bom # <<>> /\ bom[1] = 255 -> "UTF-16LE"
      [] bom # <<>> /\ bom[1] = 254 -> "UTF-16BE"
      [] OTHER                      -> IF utf8 THEN "UTF-8" ELSE "ASCII"

\* Without a tab nothing of a document is left; a mark is one of the three.
TypeOK ==
    /\ disk \in Seq(0 .. 255) \cup {NoFile}
    /\ pc \in {"none", "closed", "opening", "reloading", "idle"}
    /\ text \in Seq(0 .. 255)
    /\ bom \in {<<>>, MarkLE, MarkBE, WrittenMark8}
    /\ utf8 \in BOOLEAN
    /\ pc = "closed" => bom = <<>> /\ text = <<>> /\ ~utf8

\* One character, by the table of well-formed sequences of up to 31 bits, without the
\* surrogates and without the codes 65534 and 65535.
IsCharacter(s) ==
    /\ Len(s) \in 1 .. MAX_UTF8_BYTES
    /\ s[1] \in <<0 .. 127, 194 .. 223, 224 .. 239, 240 .. 247, 248 .. 251, 252 .. 253>>[Len(s)]
    /\ \A j \in 2 .. Len(s) : IsContinuation(s[j])
    /\ s[1] = 224 => s[2] >= 160
    /\ s[1] = 237 => s[2] < 160
    /\ s[1] = 239 /\ s[2] = 191 => s[3] < 190
    /\ s[1] = 240 => s[2] >= 144
    /\ s[1] = 248 => s[2] >= 136
    /\ s[1] = 252 => s[2] >= 132

\* It can be cut into characters.
IsUtf8(s) ==
    \E cuts \in SUBSET (1 .. Len(s) + 1) :
        /\ 1 \in cuts
        /\ \A i \in cuts \ {Len(s) + 1} :
              \E j \in cuts : i < j /\ IsCharacter(SubSeq(s, i, j - 1))

\* What is in a file without a mark.
Contents(s) ==
    LET SomeByte(S) == \E i \in DOMAIN s : s[i] \in S
    IN  IF SomeByte(Controls) THEN "B"
        ELSE IF ~SomeByte(128 .. 255) THEN "T"
        ELSE IF IsUtf8(s) THEN "U" ELSE "H"

\* Every file without a mark is classified by what is in it; only a SUB at its very
\* end hides the rest, so that isutf8.c:192 ("no extended characters") is not true
\* of it.
DetectsEncoding ==
    disk # NoFile /\ disk # <<>> /\ disk[Len(disk)] # SUB =>
        get_file_encoding(disk) = IF IsPrefix(MarkLE, disk) THEN "e"
                                  ELSE IF IsPrefix(MarkBE, disk) THEN "E"
                                  ELSE IF IsPrefix(Mark8, disk) THEN "M"
                                  ELSE Contents(disk)

\* When the file stays what it was until it has been read, the editor shows all of
\* its text: the file as it is or, if that is UTF-16, a text that is the file again
\* when it is converted back (but see Mark8IsKept).  A text in UTF-16 has no NUL here.
ReadsAll ==
    [][Loading /\ pc' = "idle" /\ disk \in Files /\ get_file_encoding(disk) = found /\ found # "M"
       => IF found \in {"e", "E"}
          THEN utf2mb(found, text') = SubSeq(disk, 3, Len(disk))
          ELSE text' = disk]_vars

\* helptext.txt:484: a document goes back to the file in the encoding and with the
\* mark it came with, whatever was typed since; that is so as long as no file was
\* inserted and no reload failed, which clear the mark.
SavesAsLoaded ==
    saved /\ ~mixed /\ ~forgot /\ origin # "M" =>
        IF origin \in {"e", "E"}
        THEN get_file_encoding(disk) = origin /\ mb2utf(origin, SubSeq(disk, 3, Len(disk))) = text
        ELSE disk = text

\* Every variable has its type, and the status bar shows UTF-16 exactly when the file
\* was written so, also after the mark was lost on the way (but see Mark8IsKept: what
\* stood behind a mark of UTF-8 that was lost is then taken for the start).
ShownIsWritten ==
    /\ TypeOK
    /\ saved /\ ~mixed /\ (origin = "M" => bom # <<>>) =>
        /\ GetEncoding = "UTF-16LE" <=> IsPrefix(MarkLE, disk)
        /\ GetEncoding = "UTF-16BE" <=> IsPrefix(MarkBE, disk)

\* helptext.txt:483: "For UTF-8 BOM, the file is opened as UTF-8.  Saving the file
\* will preserve the original BOM."
Mark8IsKept == saved /\ origin = "M" => IsPrefix(Mark8, disk)

=============================================================================
