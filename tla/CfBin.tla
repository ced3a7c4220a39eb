-------------------------------- MODULE CfBin --------------------------------
(***************************************************************************)
(* The binary file of Codeforces test cases (tools/codeforces_bin): how    *)
(* cf_bin_builder writes it, step by step, over a file that may be there   *)
(* already, and what a reader makes of it, be the builder done, at work or *)
(* dead.  A file is its header and the fields behind it: data bytes and    *)
(* index fields count one position each.                                   *)
(***************************************************************************)
EXTENDS Integers, Sequences, SequencesExt, FiniteSets, TLC

CONSTANTS
    Inputs,      \* the inputs that may be given: sequences of lines
    HeaderSize,  \* 48
    ByteSize,    \* 2^8, the range of an index name's length
    WordSize,    \* 2^32, the range of contest ids, counts and lengths
    Nil

ASSUME SizeAssumption == HeaderSize \in Nat \ {0} /\ ByteSize \in Nat \ {0} /\ WordSize \in Nat \ {0}

(* A line as its decoder can give it, strings as their bytes. *)
BinLine == [parses : BOOLEAN, contest : Int, name : Seq(Nat),
            cases : Seq([in : Seq(Nat), out : Seq(Nat)])]

ASSUME InputAssumption == Inputs \subseteq Seq(BinLine)

(* Contest ids and lengths fit the words of the file. *)
ASSUME WordAssumption ==
    \A lines \in Inputs : \A i \in DOMAIN lines :
        /\ lines[i].contest \in 0..(WordSize - 1)
        /\ Len(lines[i].cases) < WordSize
        /\ \A n \in DOMAIN lines[i].cases :
              Len(lines[i].cases[n].in) < WordSize /\ Len(lines[i].cases[n].out) < WordSize

(* No file, header or slice of bytes is the value that stands for none. *)
Header == [dataOffset : Nat, dataSize : Nat, indexOffset : Nat, indexSize : Nat]
ASSUME NoneAssumption ==
    Nil \notin Seq(Nat) /\ Nil \notin Header /\ Nil \notin [header : Header \cup {Nil}, body : Seq(Nat)]

VARIABLES
    input,     \* the lines to import
    pc, at,    \* the builder: its step, the line it is at
    file,      \* the output file: header and body, or Nil
    data,      \* what has gone through the data writer, buffered or not
    dataPos,   \* the builder's count of it
    index      \* the temporary index file

vars == <<input, pc, at, file, data, dataPos, index>>

ToWord(n) == n % WordSize

NewHeader(dataSize, indexSize) ==
    [dataOffset |-> HeaderSize, dataSize |-> dataSize,
     indexOffset |-> HeaderSize + dataSize, indexSize |-> indexSize]

-----------------------------------------------------------------------------
(* The reader. *)
Size(f) == HeaderSize + Len(f.body)

(* The fields from offset start to end; the header has a size of its own. *)
FieldsOf(f, start, end) == SubSeq(f.body, start - HeaderSize + 1, end - HeaderSize)

Bad == [at |-> 0, ok |-> FALSE, entries |-> << >>]

Put(map, key, value) == [k \in DOMAIN map \cup {key} |-> IF k = key THEN value ELSE map[k]]

(* The entry of the index at field p: a contest, the length of a name, the *)
(* name, the number of cases and four fields for each.                     *)
NameEnd(t, p) == p + 1 + t[p + 1]
EntryEnd(t, p) == NameEnd(t, p) + 1 + 4 * t[NameEnd(t, p) + 1]
KeyAt(t, p) == <<t[p], SubSeq(t, p + 2, NameEnd(t, p))>>
CasesAt(t, p) ==
    [n \in 1..t[NameEnd(t, p) + 1] |->
        LET c == NameEnd(t, p) + 4 * n - 2
        IN  [inOff |-> t[c], inLen |-> t[c + 1], outOff |-> t[c + 2], outLen |-> t[c + 3]]]

EntryWhole(t, p) ==
    /\ p + 1 <= Len(t)
    /\ NameEnd(t, p) + 1 <= Len(t)
    /\ EntryEnd(t, p) <= Len(t)

(* One turn of the loop of NewReader: an entry that is cut off is an error, *)
(* the end of the index between entries is not; a later entry replaces an   *)
(* earlier one of its contest and name.                                     *)
ReadEntry(t, s) ==
    IF ~s.ok \/ s.at > Len(t) THEN s
    ELSE IF ~EntryWhole(t, s.at) THEN Bad
    ELSE [at |-> EntryEnd(t, s.at) + 1, ok |-> TRUE,
          entries |-> Put(s.entries, KeyAt(t, s.at), CasesAt(t, s.at))]

(* The loop ends: each turn takes a field at least. *)
ParseIndex(t) ==
    LET after[k \in 0..Len(t)] ==
          IF k = 0 THEN [at |-> 1, ok |-> TRUE, entries |-> << >>] ELSE ReadEntry(t, after[k - 1])
    IN  after[Len(t)]

(* NewReader: a zero header has no magic; an index beyond the end fails. *)
NewReader(f) ==
    IF f = Nil \/ f.header = Nil THEN Bad
    ELSE LET end == f.header.indexOffset + f.header.indexSize
         IN  IF end > Size(f) THEN Bad ELSE ParseIndex(FieldsOf(f, f.header.indexOffset, end))

(* slice checks the end of the file, not the end of the data. *)
slice(f, off, len) ==
    LET start == f.header.dataOffset + off
    IN  IF start + len > Size(f) THEN Nil ELSE FieldsOf(f, start, start + len)

(* Get: a case's input and output, or an error (Nil). *)
Get(f, contest, name, n) ==
    LET r == NewReader(f)
        key == <<ToWord(contest), name>>
    IN  IF ~r.ok \/ key \notin DOMAIN r.entries \/ n \notin DOMAIN r.entries[key] THEN Nil
        ELSE LET c == r.entries[key][n]
                 in == slice(f, c.inOff, c.inLen)
                 out == slice(f, c.outOff, c.outLen)
             IN  IF in = Nil \/ out = Nil THEN Nil ELSE [in |-> in, out |-> out]

ListProblems(f) == DOMAIN NewReader(f).entries

-----------------------------------------------------------------------------
(* The lines of the input. *)
Usable(l) == l.parses /\ l.contest # 0 /\ l.name # <<>>

(* The fields writeProblem puts into the index for a case at offset pos. *)
CaseFields(pos, c) ==
    <<pos, ToWord(Len(c.in)), pos + Len(c.in), ToWord(Len(c.out))>>

ProblemHead(l) ==
    <<ToWord(l.contest), Len(l.name) % ByteSize>> \o l.name \o <<ToWord(Len(l.cases))>>

(* One test case: its bytes to the data, its fields to the index. *)
WriteCase(s, c, pos) ==
    [data |-> s.data \o (c.in \o c.out),
     index |-> s.index \o CaseFields(pos + Len(s.data), c)]

(* What writeProblem adds to the data and the index, pos bytes into the data. *)
ProblemFields(l, pos) ==
    LET after[n \in 0..Len(l.cases)] ==
          IF n = 0 THEN [data |-> <<>>, index |-> ProblemHead(l)]
          ELSE WriteCase(after[n - 1], l.cases[n], pos)
    IN  after[Len(l.cases)]

TooLongByOne(l) == Len(l.name) > ByteSize   \* a mistake
TooLong(l) == Len(l.name) > ByteSize - 1

Accepted(l) == l.parses /\ (Usable(l) => Len(l.name) < ByteSize)
Sound(lines) == \A i \in DOMAIN lines : Accepted(lines[i])

ImportLine(s, l) ==
    IF ~Usable(l) THEN s
    ELSE LET more == ProblemFields(l, Len(s.data))
         IN  [data |-> s.data \o more.data, index |-> s.index \o more.index]

(* What is written when so many of the lines have been imported. *)
Written(lines) ==
    LET after[i \in 0..Len(lines)] ==
          IF i = 0 THEN [data |-> <<>>, index |-> <<>>] ELSE ImportLine(after[i - 1], lines[i])
    IN  after

(* A finished file, written from nothing. *)
FileOf(lines) ==
    LET all == Written(lines)[Len(lines)]
    IN  [header |-> NewHeader(Len(all.data), Len(all.index)), body |-> all.data \o all.index]

OldFiles == {FileOf(old) : old \in {lines \in Inputs : Sound(lines)}}

(* There may be a file of an earlier input. *)
Init ==
    /\ input \in Inputs
    /\ pc = "create" /\ at = 1
    /\ file \in {Nil} \cup OldFiles
    /\ data = <<>> /\ dataPos = 0 /\ index = <<>>

(* A mistake: the file is opened without emptying it. *)
CreateKeepsOld ==
    /\ pc = "create"
    /\ file' = IF file = Nil THEN [header |-> Nil, body |-> <<>>] ELSE file
    /\ pc' = "import"
    /\ UNCHANGED <<input, at, data, dataPos, index>>

(* os.Create empties the file that is there; then the empty header. *)
Create ==
    /\ pc = "create"
    /\ file' = [header |-> Nil, body |-> <<>>]
    /\ pc' = "import"
    /\ UNCHANGED <<input, at, data, dataPos, index>>

(* The data writer passes on what it holds when its buffer is full. *)
Spill(written) == file' \in {file, [file EXCEPT !.body = written]}

SkipLine ==
    /\ pc = "import" /\ at <= Len(input)
    /\ input[at].parses /\ ~Usable(input[at])
    /\ at' = at + 1
    /\ UNCHANGED <<input, pc, file, data, dataPos, index>>

(* A mistake: only the inputs are counted. *)
writeProblemCountsInputs ==
    /\ pc = "import" /\ at <= Len(input)
    /\ Usable(input[at]) /\ ~TooLong(input[at])
    /\ LET more == ProblemFields(input[at], dataPos)
       IN  index' = index \o more.index /\ data' = data \o more.data
    /\ dataPos' = dataPos + Len(FlattenSeq([i \in 1..Len(input[at].cases) |-> input[at].cases[i].in]))
    /\ Spill(data')
    /\ at' = at + 1
    /\ UNCHANGED <<input, pc>>

writeProblem ==
    /\ pc = "import" /\ at <= Len(input)
    /\ Usable(input[at]) /\ ~TooLong(input[at])
    /\ LET more == ProblemFields(input[at], dataPos)
       IN  index' = index \o more.index /\ data' = data \o more.data
    /\ dataPos' = Len(data')
    /\ Spill(data')
    /\ at' = at + 1
    /\ UNCHANGED <<input, pc>>

(* A line that does not parse or a name that does not fit ends the import. *)
ImportFails ==
    /\ pc = "import" /\ at <= Len(input)
    /\ ~input[at].parses \/ (Usable(input[at]) /\ TooLong(input[at]))
    /\ pc' = "failed"
    /\ UNCHANGED <<input, at, file, data, dataPos, index>>

Flush ==
    /\ pc = "import" /\ at > Len(input)
    /\ file' = [file EXCEPT !.body = data]
    /\ pc' = "index"
    /\ UNCHANGED <<input, at, data, dataPos, index>>

(* The index is copied to the end of the file, wherever that is. *)
CopyIndex ==
    /\ pc = "index"
    /\ file' = [file EXCEPT !.body = @ \o index]
    /\ pc' = "header"
    /\ UNCHANGED <<input, at, data, dataPos, index>>

WriteHeader ==
    /\ pc = "header"
    /\ file' = [file EXCEPT !.header = NewHeader(dataPos, Len(index))]
    /\ pc' = "done"
    /\ UNCHANGED <<input, at, data, dataPos, index>>

(* A write fails or the process is killed. *)
Dies ==
    /\ pc \in {"create", "import", "index", "header"}
    /\ pc' = "failed"
    /\ UNCHANGED <<input, at, file, data, dataPos, index>>

Next ==
    \/ Create
    \/ SkipLine \/ writeProblem \/ ImportFails \/ Flush
    \/ CopyIndex \/ WriteHeader
    \/ Dies

Spec == Init /\ [][Next]_vars

-----------------------------------------------------------------------------
(* What the file stands for: the cases of the last usable line of a key. *)
Contents(lines) ==
    LET keyed == {i \in DOMAIN lines : Usable(lines[i])}
        keys == {<<lines[i].contest, lines[i].name>> : i \in keyed}
        last(k) == CHOOSE i \in keyed :
                      /\ <<lines[i].contest, lines[i].name>> = k
                      /\ \A j \in keyed : <<lines[j].contest, lines[j].name>> = k => j <= i
    IN  [k \in keys |-> lines[last(k)].cases]

(* A reader finds every case of the contents under its key and number,     *)
(* byte for byte, and nothing under any other number or key.               *)
Answers(f, contents) ==
    /\ NewReader(f).ok
    /\ ListProblems(f) = DOMAIN contents
    /\ \A k \in DOMAIN contents :
          \A n \in 1..(Len(contents[k]) + 1) :
             Get(f, k[1], k[2], n) = (IF n <= Len(contents[k]) THEN contents[k][n] ELSE Nil)

TypeOK ==
    /\ pc \in {"create", "import", "index", "header", "done", "failed"}
    /\ at \in 1..(Len(input) + 1)
    /\ dataPos = Len(data)
    /\ file # Nil => file.header = Nil \/ file.header.dataOffset = HeaderSize

(* What was built reads back: offsets counted while the data was buffered, *)
(* the index appended later and the header written last agree, also over   *)
(* an older and longer file, with repeated keys and empty cases.           *)
BuiltReadsBack == pc = "done" => Answers(file, Contents(input))

(* A reader never takes a half-written file for a finished one: before     *)
(* the builder has opened the file it is the old one or none, and from     *)
(* then on, through every failure, it is refused until it is complete.     *)
HalfWrittenRefused ==
    pc \notin {"create", "done"} =>
        \/ file = Nil \/ ~NewReader(file).ok
        \/ data = <<>> /\ at = 1 /\ \E old \in Inputs : Sound(old) /\ Answers(file, Contents(old))

(* What the steps keep: all lines behind the builder have been accepted,   *)
(* data and index are what they make, and the file has no header from      *)
(* Create until everything else is in it.                                  *)
BuildInv ==
    /\ TypeOK
    /\ input \in Inputs
    /\ \A i \in 1..(at - 1) : Accepted(input[i])
    /\ [data |-> data, index |-> index] = Written(input)[at - 1]
    /\ pc = "create" => at = 1 /\ file \in {Nil} \cup OldFiles
    /\ pc \in {"import", "index", "header"} => file = [header |-> Nil, body |-> file.body]
    /\ pc \in {"index", "header", "done"} => at = Len(input) + 1
    /\ pc = "index" => file.body = data
    /\ pc = "header" => file.body = data \o index
    /\ pc = "done" => file = FileOf(input)
    /\ pc = "failed" => \/ file = Nil \/ file.header = Nil
                        \/ at = 1 /\ file \in OldFiles
=============================================================================
