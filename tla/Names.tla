------------------------------- MODULE Names -------------------------------
(***************************************************************************)
(* The names libuv makes for Windows: the command line, the environment    *)
(* and the program of a spawned process (win/process.c), and the targets   *)
(* of symbolic links and junctions (win/fs.c).  Each is computed into a    *)
(* buffer whose size is computed before.  Characters are strings of one,   *)
(* and a name is a sequence of them.                                       *)
(*                                                                         *)
(* And Internet addresses and their texts (inet.c, uv_ip4_addr and the     *)
(* like in uv-common.c, UvMisc).  An IPv6 address is eight words of 16     *)
(* bits; a text is a sequence of ":", ".", and numerals, no two of which   *)
(* meet.  A behaviour asks one question, of a name or of an address.       *)
(***************************************************************************)
EXTENDS Integers, SequencesExt, Functions

CONSTANTS ArgumentLists,      \* lists of arguments to quote
          Environments,       \* sequences of [key, upper, value], key 0 for a string without "="
          Parents,            \* the required variables the parent has
          required_vars,      \* the required variables, in order
          PATH,               \* the one of them that is PATH
          SearchPaths,        \* sequences of directories to search
          Files,              \* names of files to search for
          Existing,           \* sets of the files that exist
          Targets,            \* of links
          Numerals,           \* of each numeral its value in hexadecimal and, or -1, in decimal, its
                              \* digits, and whether it begins with a zero that it could do without
          Words,              \* the words of the addresses to format
          TextsToRead         \* the texts to read

VARIABLE asked                \* the question: a record, by its kind

B == "\\"
Q == "\""
Slash(c) == c \in {B, "/"}
Letter(c) == c \in {"C", "U", "N", "x"}
HasAny(s, chars) == ToSet(s) \cap chars # {}
StartsWith(s, prefix) == Len(s) >= Len(prefix) /\ SubSeq(s, 1, Len(prefix)) = prefix
From(s, i) == SubSeq(s, i, Len(s))
Sum2(s) == FoldLeft(LAMBDA n, a : n + Len(a) + 1, 0, s)

-----------------------------------------------------------------------------
(* Arguments. *)

\* Mutant: only a backslash before a quote is doubled, and none before the closing one.
EscapedInside(s) ==
    FoldRight(LAMBDA c, t : [hit |-> c = Q \/ (t.hit /\ c = B),
                             out |-> (IF c = Q \/ (t.hit /\ c = B) THEN <<B, c>> ELSE <<c>>) \o t.out],
              s, [hit |-> FALSE, out |-> << >>]).out

\* From its end, an argument gets a backslash before each quote and before each backslash
\* that a quote follows, the closing one as well.
Escaped(s) ==
    FoldRight(LAMBDA c, t : [hit |-> c = Q \/ (t.hit /\ c = B),
                             out |-> (IF c = Q \/ (t.hit /\ c = B) THEN <<B, c>> ELSE <<c>>) \o t.out],
              s, [hit |-> TRUE, out |-> << >>]).out

QuoteCmdArg(s) ==
    CASE s = << >> -> <<Q, Q>>
      [] s # << >> /\ ~HasAny(s, {" ", "\t", Q}) -> s
      [] HasAny(s, {" ", "\t", Q}) /\ ~HasAny(s, {Q, B}) -> <<Q>> \o s \o <<Q>>
      [] OTHER -> <<Q>> \o Escaped(s) \o <<Q>>

\* The characters, each escaped, and two quotes for each argument.
ArgsSize(args) == Sum2(args) * 2 + Len(args) * 2

Joined(parts, separator) ==
    IF parts = << >> THEN << >> ELSE Tail(FlattenSeq([i \in DOMAIN parts |-> <<separator>> \o parts[i]]))

MakeProgramArgs(args, verbatim) ==
    Joined([i \in DOMAIN args |-> IF verbatim THEN args[i] ELSE QuoteCmdArg(args[i])], " ")

\* External: how a program of the C runtime splits its command line.
Argv(line) ==
    LET Slashes(n) == [i \in 1..n |-> B]
        Flushed(t) == [t EXCEPT !.arg = @ \o Slashes(t.slashes), !.slashes = 0]
        Ended(t) == IF t.in THEN [t EXCEPT !.argv = Append(@, Flushed(t).arg), !.arg = << >>, !.in = FALSE,
                                           !.slashes = 0] ELSE t
        Read(t, c) ==
            CASE c = B -> [t EXCEPT !.slashes = @ + 1, !.in = TRUE]
              [] c = Q -> [t EXCEPT !.arg = @ \o Slashes(t.slashes \div 2)
                                              \o (IF t.slashes % 2 = 1 THEN <<Q>> ELSE << >>),
                                    !.quoted = IF t.slashes % 2 = 1 THEN @ ELSE ~@,
                                    !.slashes = 0, !.in = TRUE]
              [] c \in {" ", "\t"} /\ ~t.quoted -> Ended(t)
              [] OTHER -> [Flushed(t) EXCEPT !.arg = @ \o <<c>>, !.in = TRUE]
    IN  Ended(FoldLeft(Read, [argv |-> << >>, arg |-> << >>, in |-> FALSE, quoted |-> FALSE, slashes |-> 0],
                       line)).argv

-----------------------------------------------------------------------------
(* The environment.  Keys stand for names in the order of their upper-case spelling. *)

EnvStrncmp(a, b) == a - b

Sorted(env) == SortSeq(SelectSeq(env, LAMBDA v : v.key # 0), LAMBDA a, b : EnvStrncmp(a.key, b.key) < 0)

\* The variables given and those required are merged; a required one that is missing comes
\* from the parent, if it has it.
MakeProgramEnv(env, parent) ==
    LET given == Sorted(env)
        merge[i \in 1..Len(required_vars) + 1, j \in 1..Len(given) + 1] ==
            LET cmp == IF i > Len(required_vars) THEN 1
                       ELSE IF j > Len(given) THEN -1
                       ELSE EnvStrncmp(required_vars[i], given[j].key)
            IN  IF i > Len(required_vars) /\ j > Len(given) THEN << >>
                ELSE IF cmp < 0
                THEN (IF required_vars[i] \in parent
                      THEN <<[key |-> required_vars[i], upper |-> TRUE, value |-> "parent"]>> ELSE << >>)
                     \o merge[i + 1, j]
                ELSE <<given[j]>> \o merge[IF cmp = 0 THEN i + 1 ELSE i, j + 1]
    IN  merge[1, 1]

\* The PATH of the child, when it is spelled so.
FindPath(env) ==
    LET found == SelectSeq(env, LAMBDA v : v.key = PATH /\ v.upper)
    IN  IF found = << >> THEN "none" ELSE Head(found).value

-----------------------------------------------------------------------------
(* The program. *)

Char(s, i) == IF i \in DOMAIN s THEN s[i] ELSE "\\0"
Next1(s, c, i) == CHOOSE k \in i..Len(s) + 1 : (k = Len(s) + 1 \/ s[k] = c) /\ \A m \in i..k - 1 : s[m] # c
Quotes == {Q, "'"}

\* The directories of PATH: up to the next semicolon, or the next one after the closing
\* quote.  Only the quotes around a directory are removed.
Directories(path) ==
    LET from[end \in 1..Len(path) + 1] ==
            LET start == IF end # 1 \/ Char(path, 1) = ";" THEN end + 1 ELSE end
                closing == IF Char(path, start) \in Quotes THEN Next1(path, path[start], start + 1) ELSE start
                next == Next1(path, ";", closing)
                dir == SubSeq(path, start, next - 1)
                tail == IF Head(dir) \in Quotes THEN Tail(dir) ELSE dir
            IN  IF end > Len(path) THEN << >>
                ELSE IF next = start THEN IF next > Len(path) THEN << >> ELSE from[next]
                ELSE <<IF Last(tail) \in Quotes THEN Front(tail) ELSE tail>>
                     \o (IF next > Len(path) THEN << >> ELSE from[next])
    IN  from[1]

\* What of the working directory C:\ goes before a directory: nothing for one with a
\* server or a drive of its own, the drive for one without.  "C:" alone is of the drive.
SearchPathJoinTest(dir, name, ext) ==
    LET base == CASE StartsWith(dir, <<B, B>>) /\ Len(dir) > 2 -> << >>
                  [] ~(StartsWith(dir, <<B, B>>) /\ Len(dir) > 2) /\ Slash(Char(dir, 1)) -> <<"C", ":">>
                  [] Char(dir, 2) = ":" -> IF Slash(Char(dir, 3)) \/ dir[1] # "C" THEN << >> ELSE <<"C", ":", B>>
                  [] OTHER -> <<"C", ":", B>>
        rest == IF base = <<"C", ":", B>> /\ Char(dir, 2) = ":" THEN From(dir, 3) ELSE dir
        separated == IF rest = << >> \/ Slash(Last(rest)) \/ Last(rest) = ":" THEN rest ELSE Append(rest, B)
        dotted == IF ext # << >> /\ name # << >> /\ Last(name) # "." THEN Append(name, ".") ELSE name
    IN  base \o separated \o dotted \o ext

\* The name itself if it has an extension, then .com, then .exe.
PathSearchWalkExt(dir, name, hasExt) ==
    (IF hasExt THEN <<SearchPathJoinTest(dir, name, << >>)>> ELSE << >>)
    \o <<SearchPathJoinTest(dir, name, <<"c">>), SearchPathJoinTest(dir, name, <<"e">>)>>

FirstOf(candidates, existing) ==
    LET found == SelectSeq(candidates, LAMBDA c : c \in existing)
    IN  IF found = << >> THEN << >> ELSE Head(found)

\* Where the name of a file begins, after its last separator.
NameStart(file) == 1 + Max({0} \cup {i \in DOMAIN file : Slash(file[i]) \/ file[i] = ":"})

SearchPath(file, path, existing) ==
    LET start == NameStart(file)
        name == From(file, start)
        dot == Next1(name, ".", 1)
        hasExt == dot < Len(name)
        dirs == IF start # 1 THEN <<SubSeq(file, 1, start - 1)>> ELSE <<<< >>>> \o Directories(path)
    IN  IF file \in {<< >>, <<".">>} THEN << >>
        ELSE FirstOf(FlattenSeq([i \in DOMAIN dirs |-> PathSearchWalkExt(dirs[i], name, hasExt)]), existing)

-----------------------------------------------------------------------------
(* Paths captured by a request: one buffer holds the wide path, the wide new path and a *)
(* copy of the path.  A path is given by its length in bytes and in wide characters.    *)

CapturePath(path, new, copied) ==
    LET wide == 2 * path.wides
        newWide == IF new = << >> THEN 0 ELSE 2 * Head(new).wides
        bytes == IF copied THEN path.bytes ELSE 0
    IN  [size |-> wide + bytes + newWide, pathw |-> 0, new_pathw |-> wide, path |-> wide + newWide, bytes |-> bytes]

(* Links. *)

NtPrefix == <<B, "?", "?", B>>              \* JUNCTION_PREFIX
LongPrefix == <<B, B, "?", B>>              \* LONG_PATH_PREFIX
UncPrefix == LongPrefix \o <<"U", "N", "C", B>>
DrivePath(s) == Len(s) >= 2 /\ Letter(s[1]) /\ s[2] = ":" /\ (Len(s) = 2 \/ s[3] = B)

\* Several slashes are one, and those at the end are none.
Squeezed(path) ==
    FoldLeft(LAMBDA t, c : IF Slash(c) THEN [t EXCEPT !.slash = TRUE]
                           ELSE [out |-> t.out \o (IF t.slash THEN <<B, c>> ELSE <<c>>), slash |-> FALSE],
             [out |-> << >>, slash |-> FALSE], path).out

\* The size of the two names of a junction to path, with their terminators.
JunctionSize(path) == Len(NtPrefix) + 2 * (Len(path) + 2)

\* The names written for a junction: an absolute path, long or not, in the NT namespace,
\* and the same as it is shown.
CreateJunction(path) ==
    LET long == StartsWith(path, LongPrefix)
        absolute == long \/ (Len(path) >= 3 /\ Letter(path[1]) /\ path[2] = ":" /\ Slash(path[3]))
        squeezed == Squeezed(IF long THEN From(path, 5) ELSE path)
        substitute == NtPrefix \o squeezed \o <<B>>
        shown == IF Len(squeezed) = 2 THEN Append(squeezed, B) ELSE squeezed
    IN  IF ~absolute THEN [tag |-> "none"]
        ELSE [tag |-> "junction", substitute |-> substitute, shown |-> shown,
              used |-> Len(substitute) + 1 + Len(shown) + 1]

\* External: CreateSymbolicLink takes an absolute path into the NT namespace.
CreateSymbolicLink(path) ==
    [tag |-> "symlink",
     substitute |-> IF DrivePath(path) /\ Len(path) > 2 THEN NtPrefix \o path
                    ELSE IF StartsWith(path, <<B, B>>) /\ Char(path, 3) # "?"
                    THEN NtPrefix \o <<"U", "N", "C">> \o Tail(path)
                    ELSE path]

\* The target of a link, back from the NT namespace.
Readlink(link) ==
    LET target == link.substitute
        stripped == From(target, 5)
    IN  CASE link.tag = "none" -> <<"EINVAL">>
          [] link.tag = "symlink" /\ StartsWith(target, NtPrefix) /\ DrivePath(stripped) -> stripped
          [] link.tag = "symlink" /\ StartsWith(target, NtPrefix \o <<"U", "N", "C", B>>) ->
                <<B>> \o From(target, 8)
          [] link.tag = "junction" -> IF StartsWith(target, NtPrefix) /\ DrivePath(stripped) THEN stripped
                                      ELSE <<"UNKNOWN">>
          [] OTHER -> target

\* External: the final path of a handle, in the namespace of long paths.
FinalPath(path) == IF StartsWith(path, <<B, B>>) THEN UncPrefix \o From(path, 3) ELSE LongPrefix \o path

Realpath(final) ==
    IF StartsWith(final, UncPrefix) THEN <<B>> \o From(final, 8)
    ELSE IF StartsWith(final, LongPrefix) THEN From(final, 5) ELSE <<"EBADF">>

-----------------------------------------------------------------------------
(* Addresses. *)

NoAddress == << >>      \* what is read from a text that is none

NumeralOf(field, v) ==
    CHOOSE n \in DOMAIN Numerals : Numerals[n][field] = v /\ ~Numerals[n].padded

-----------------------------------------------------------------------------
\* inet_ntop4, of two words; inet_ntop6

Octets(w) == << w[1] \div 256, w[1] % 256, w[2] \div 256, w[2] % 256 >>

Ntop4(w) == LET n == [i \in 1..4 |-> NumeralOf("dec", Octets(w)[i])]
            IN  <<n[1], ".", n[2], ".", n[3], ".", n[4]>>

\* The first of the longest runs of zeros, if that is longer than one word.
ZeroRun(a) ==
    LET runs == {<<i, n>> \in (1..8) \X (2..8) : i + n <= 9 /\ \A j \in i..i + n - 1 : a[j] = 0}
    IN  IF runs = {} THEN <<0, 0>>
        ELSE CHOOSE r \in runs : \A q \in runs : r[2] > q[2] \/ (r[2] = q[2] /\ r[1] <= q[1])

\* An address in the space of IPv4 has its last words written as IPv4 does.
Embedded(a, run) == run[1] = 1 /\ (run[2] = 6 \/ (run[2] = 5 /\ a[6] = 65535))

Ntop6(a) ==
    LET run   == ZeroRun(a)
        after == run[1] + run[2]
        Colon(i) == IF i = 1 THEN << >> ELSE <<":">>
        Piece(i) == IF i >= run[1] /\ i < after THEN IF i = run[1] THEN <<":">> ELSE << >>
                    ELSE IF Embedded(a, run) /\ i = 7 THEN Colon(i) \o Ntop4(<<a[7], a[8]>>)
                    ELSE IF Embedded(a, run) /\ i = 8 THEN << >>
                    ELSE Colon(i) \o <<NumeralOf("hex", a[i])>>
    IN  FlattenSeq([i \in 1..8 |-> Piece(i)]) \o IF after = 9 THEN <<":">> ELSE << >>

\* Its characters.
Length(text) == FoldLeft(LAMBDA n, c : n + IF c \in DOMAIN Numerals THEN Numerals[c].digits ELSE 1, 0, text)

-----------------------------------------------------------------------------
\* inet_pton4 and inet_pton6, which read from left to right and fail at once.

Octet(c) == c \in DOMAIN Numerals /\ ~Numerals[c].padded /\ Numerals[c].dec \in 0..255

\* The octets read so far, and whether a digit has been seen since the last dot.
Pton4(text) ==
    LET Read4(r, c) ==
            IF r.failed THEN r
            ELSE IF Octet(c) /\ Len(r.octets) < 4 THEN [r EXCEPT !.octets = Append(@, Numerals[c].dec), !.saw = TRUE]
            ELSE IF c = "." /\ r.saw /\ Len(r.octets) # 4 THEN [r EXCEPT !.saw = FALSE]
            ELSE [r EXCEPT !.failed = TRUE]
        Ended(r) == IF r.failed \/ Len(r.octets) < 4 THEN NoAddress
                    ELSE <<r.octets[1] * 256 + r.octets[2], r.octets[3] * 256 + r.octets[4]>>
    IN  Ended(FoldLeft(Read4, [octets |-> << >>, saw |-> FALSE, failed |-> FALSE], text))

\* The address, of what inet_pton6 has read at the end of the text.
Pton6Ends(r) ==
    LET words == IF r.val = -1 THEN r.words ELSE Append(r.words, r.val)
    IN  IF r.failed \/ Len(words) > 8 \/ (Len(words) = 8) = (r.gap # -1) THEN NoAddress
        ELSE IF r.gap = -1 THEN words
        ELSE SubSeq(words, 1, r.gap) \o [i \in 1..8 - Len(words) |-> 0] \o SubSeq(words, r.gap + 1, Len(words))

\* The words read so far, and how many before "::", if it has been seen; the numeral read and
\* where it begins; whether the rest has been read as an IPv4 address.
Pton6(text) ==
    LET start == IF text # << >> /\ text[1] = ":" THEN 2 ELSE 1      \* a leading "::"
        Fail(r) == [r EXCEPT !.failed = TRUE]
        Read6(r, i) ==
            LET c == text[i]
                tail == Pton4(SubSeq(text, r.token, Len(text)))
            IN  CASE r.failed \/ r.ended -> r
                  [] ~(r.failed \/ r.ended) /\ c \in DOMAIN Numerals ->
                        IF Numerals[c].digits > 4 THEN Fail(r) ELSE [r EXCEPT !.val = Numerals[c].hex]
                  [] ~(r.failed \/ r.ended) /\ c = ":" ->
                        IF r.val = -1
                        THEN IF r.gap # -1 THEN Fail(r) ELSE [r EXCEPT !.gap = Len(r.words), !.token = i + 1]
                        ELSE IF i = Len(text) \/ Len(r.words) = 8 THEN Fail(r)
                        ELSE [r EXCEPT !.words = Append(@, r.val), !.val = -1, !.token = i + 1]
                  [] ~(r.failed \/ r.ended) /\ c = "." ->
                        IF Len(r.words) <= 6 /\ tail # NoAddress
                        THEN [r EXCEPT !.words = @ \o tail, !.val = -1, !.ended = TRUE] ELSE Fail(r)
    IN  Pton6Ends(FoldLeft(Read6, [words |-> << >>, gap |-> -1, val |-> -1, token |-> start, ended |-> FALSE,
                                   failed |-> start = 2 /\ (Len(text) = 1 \/ text[2] # ":")],
                           [i \in 1..Len(text) - start + 1 |-> i + start - 1]))

-----------------------------------------------------------------------------

AddressQuestions ==
    [kind : {"format"}, words : Words] \cup [kind : {"read"}, text : TextsToRead]

\* What a text says, by the grammar of RFC 4291: words and, last, perhaps an IPv4 address, with
\* colons between them, or two such lists with "::" between them that leave out a word or more.

Dotted(s) == /\ Len(s) = 7 /\ \A i \in {2, 4, 6} : s[i] = "."
             /\ \A i \in {1, 3, 5, 7} : Octet(s[i])

Colons(s) == /\ Len(s) % 2 = 1
             /\ \A i \in DOMAIN s : IF i % 2 = 0 THEN s[i] = ":" ELSE s[i] \in DOMAIN Numerals /\ Numerals[s[i]].digits <= 4

Listed(s) == [i \in 1..(Len(s) + 1) \div 2 |-> Numerals[s[2 * i - 1]].hex]

WordsOf(s, last) ==
    LET tail == SubSeq(s, Len(s) - 6, Len(s))
        front == SubSeq(s, 1, Len(s) - 8)
    IN  IF s = << >> THEN {<< >>}
        ELSE IF Colons(s) THEN {Listed(s)}
        ELSE IF last /\ Len(s) >= 7 /\ Dotted(tail)
             THEN IF Len(s) = 7 THEN {Pton4(tail)}
                  ELSE IF Len(s) > 8 /\ s[Len(s) - 7] = ":" /\ Colons(front) THEN {Listed(front) \o Pton4(tail)}
                  ELSE {}
        ELSE {}

Said6(text) ==
    LET Pairs(i) == {p \in WordsOf(SubSeq(text, 1, i - 1), FALSE) \X WordsOf(SubSeq(text, i + 2, Len(text)), TRUE) :
                        Len(p[1]) + Len(p[2]) <= 7}
        Filled(p) == p[1] \o [i \in 1..8 - Len(p[1]) - Len(p[2]) |-> 0] \o p[2]
        gaps == {i \in 1..Len(text) - 1 : text[i] = ":" /\ text[i + 1] = ":"}
    IN  {w \in WordsOf(text, TRUE) : Len(w) = 8} \cup {Filled(p) : p \in UNION {Pairs(i) : i \in gaps}}

\* The text of an address says that address and fits the buffers of UvMisc, 46 and 16
\* characters; and a text is read as what it says, or is no address.
AddressesComeThrough(q) ==
    CASE q.kind = "format" ->
            /\ Pton6(Ntop6(q.words)) = q.words
            /\ Length(Ntop6(q.words)) < 46
            /\ Pton4(Ntop4(q.words)) = SubSeq(q.words, 1, 2)
            /\ Length(Ntop4(q.words)) < 16
      [] q.kind = "read" ->
            LET said == Said6(q.text)
            IN  /\ said = IF Pton6(q.text) = NoAddress THEN {} ELSE {Pton6(q.text)}
                /\ Dotted(q.text) <=> Pton4(q.text) # NoAddress
      [] OTHER -> TRUE

-----------------------------------------------------------------------------

Quoted(dir) == IF HasAny(dir, {";"}) THEN <<Q>> \o dir \o <<Q>> ELSE dir
PathOf(dirs) == Joined([i \in DOMAIN dirs |-> Quoted(dirs[i])], ";")

Questions ==
    [kind : {"args"}, args : ArgumentLists]
    \cup [kind : {"env"}, env : Environments, parent : Parents]
    \cup [kind : {"search"}, dirs : SearchPaths, file : Files, existing : Existing]
    \cup [kind : {"link"}, path : Targets]
    \cup [kind : {"capture"}, path : [bytes : 1..3, wides : 1..2], new : {<< >>} \cup [{1} -> [bytes : 1..2, wides : 1..2]],
          copied : BOOLEAN]
    \cup AddressQuestions

NamesInit == asked = [kind |-> "nothing"]

Ask == asked.kind = "nothing" /\ asked' \in Questions

-----------------------------------------------------------------------------

\* The arguments of a child are those it was given, whatever quotes, blanks and backslashes
\* they hold; its environment is in order, has every variable given it and, once, those required
\* of its parent's that were not given, with its PATH where it is looked for; and its
\* program is the first that exists in the order cmd.exe searches in.
SpawnedAsAsked ==
    CASE asked.kind = "args" -> Argv(MakeProgramArgs(asked.args, FALSE)) = asked.args
      [] asked.kind = "env" ->
            LET env == MakeProgramEnv(asked.env, asked.parent)
                given == SelectSeq(asked.env, LAMBDA v : v.key # 0)
                inherited == SelectSeq(env, LAMBDA v : v.value = "parent")
            IN  /\ \A i \in 1..Len(env) - 1 : env[i].key <= env[i + 1].key
                /\ \A v \in ToSet(given) : Len(SelectSeq(env, LAMBDA u : u = v)) = Len(SelectSeq(given, LAMBDA u : u = v))
                /\ Len(env) = Len(given) + Len(inherited)
                /\ {v.key : v \in ToSet(inherited)} =
                      {k \in ToSet(required_vars) \cap asked.parent : \A v \in ToSet(given) : v.key # k}
                /\ IsInjective(inherited)
                /\ (\A v \in ToSet(given) : v.key = PATH => v.upper) =>
                      (FindPath(env) = "none" <=> \A v \in ToSet(env) : v.key # PATH)
      [] asked.kind = "search" ->
            LET name == From(asked.file, NameStart(asked.file))
                hasExt == \E i \in 1..Len(name) - 1 : name[i] = "."
                dirs == IF NameStart(asked.file) # 1 THEN <<SubSeq(asked.file, 1, NameStart(asked.file) - 1)>>
                        ELSE <<<< >>>> \o SelectSeq(asked.dirs, LAMBDA d : d # << >>)
            IN  SearchPath(asked.file, PathOf(asked.dirs), asked.existing) =
                   IF asked.file \in {<< >>, <<".">>} THEN << >>
                   ELSE FirstOf(FlattenSeq([i \in DOMAIN dirs |-> PathSearchWalkExt(dirs[i], name, hasExt)]),
                                asked.existing)
      [] OTHER -> TRUE

\* A symbolic link reads back as the target it was made with, a junction as the same
\* directory, and the real path of a file is the path it has outside the namespaces.
LinksReadBack ==
    asked.kind = "link" =>
        /\ Readlink(CreateSymbolicLink(asked.path)) = asked.path
        /\ CreateJunction(asked.path).tag = "junction" =>
              LET path == IF StartsWith(asked.path, LongPrefix) THEN From(asked.path, 5) ELSE asked.path
              IN  DrivePath(Squeezed(path)) => Readlink(CreateJunction(asked.path)) = Append(Squeezed(path), B)
        /\ ~StartsWith(asked.path, LongPrefix) => Realpath(FinalPath(asked.path)) = asked.path

\* What the system is told by libuv is what libuv was told, and the other way round.
NamesComeThrough == SpawnedAsAsked /\ LinksReadBack

\* What is written to a buffer fits what was allocated for it, and its parts apart.
NamesFit ==
    CASE asked.kind = "args" ->
            \A verbatim \in BOOLEAN : Len(MakeProgramArgs(asked.args, verbatim)) + 1 <= ArgsSize(asked.args)
      [] asked.kind = "link" ->
            LET junction == CreateJunction(asked.path)
            IN  junction.tag = "junction" => junction.used <= JunctionSize(asked.path)
      [] asked.kind = "capture" ->
            LET at == CapturePath(asked.path, asked.new, asked.copied)
            IN  at.path + at.bytes = at.size /\ at.new_pathw <= at.path
      [] OTHER -> TRUE

\* Names come through as they are and fit.
NamesAreRight == NamesComeThrough /\ NamesFit /\ AddressesComeThrough(asked)
=============================================================================
