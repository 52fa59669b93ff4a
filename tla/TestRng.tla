------------------------------ MODULE TestRng ------------------------------
(***************************************************************************)
(* TestRng of proptest: a random number generator that is one of two       *)
(* external generators (XorShift, ChaCha) or a window into a recording of  *)
(* bytes (PassThrough), the seeds a generator is made from, and the text   *)
(* form in which a seed is kept in a regression file.                      *)
(*                                                                         *)
(* A text is the sequence of its ASCII codes.  A u32 is the pair of its    *)
(* 16-bit halves, low half first, so that the decimal form of a dword is   *)
(* computed by what format! and parse do and not by an integer the model   *)
(* checker cannot hold.  What XorShiftRng and ChaChaRng return is not the  *)
(* code of this file: it is any cyclic repetition of a pattern of Entropy. *)
(***************************************************************************)
EXTENDS Naturals, Sequences, FiniteSets, SequencesExt
LOCAL INSTANCE Bitwise

CONSTANTS
    Entropy,        \* the byte patterns the external generators may return
    SeedBytes,      \* SeedBytes[alg]: the byte slices from_seed is called with
    Texts,          \* the lines from_persistence is called with
    FillSizes,      \* the lengths of the buffers fill_bytes is called with
    MaxRngs,        \* bound: the TestRng values made
    MaxArcs         \* bound: the recordings (Arc<[u8]>) allocated

Byte == 0 .. 255

None    == [some |-> FALSE]
Some(v) == [some |-> TRUE, val |-> v]

Algorithms == {"XorShift", "ChaCha", "PassThrough"}

\* "xs", "cc", "pt"
PersistenceKey(alg) ==
    CASE alg = "XorShift"    -> <<120, 115>>
      [] alg = "ChaCha"      -> <<99, 99>>
      [] alg = "PassThrough" -> <<112, 116>>

FromPersistenceKey(k) ==
    IF \E alg \in Algorithms : PersistenceKey(alg) = k
    THEN Some(CHOOSE alg \in Algorithms : PersistenceKey(alg) = k)
    ELSE None

\* What an external generator writes into a buffer of n bytes.
Drawn(n) == {[k \in 1 .. n |-> e[((k - 1) % Len(e)) + 1]] : e \in Entropy}

-----------------------------------------------------------------------------
(* Text and numbers.                                                       *)

Space == 32
Plus  == 43
Whitespace == {9, 10, 11, 12, 13, Space}                \* char::is_whitespace
IsWhite(c) == c \in Whitespace
IsBlack(c) == c \notin Whitespace

HexDigits == <<48, 49, 50, 51, 52, 53, 54, 55, 56, 57, 97, 98, 99, 100, 101, 102>>

\* char::to_digit(radix): the value of a digit, in either case.
DigitVal(c) ==
    CASE c \in 48 .. 57  -> c - 48
      [] c \in 97 .. 102 -> c - 87
      [] c \in 65 .. 70  -> c - 55
      [] OTHER           -> 16

\* str::trim
Trim(s) ==
    IF SelectInSeq(s, IsBlack) = 0 THEN <<>>
    ELSE SubSeq(s, SelectInSeq(s, IsBlack), SelectLastInSeq(s, IsBlack))

\* str::split(char::is_whitespace): the parts between the separators, the
\* empty ones included.
RECURSIVE Split(_)
Split(s) ==
    LET sep == SelectInSeq(s, IsWhite)
    IN  IF sep = 0 THEN <<s>>
        ELSE <<SubSeq(s, 1, sep - 1)>> \o Split(SubSeq(s, sep + 1, Len(s)))

\* The digits of a number text, after the sign from_str_radix accepts; None
\* when nothing is left or a character is no digit of the radix.
Digits(s, radix) ==
    LET body == IF s # <<>> /\ Head(s) = Plus THEN Tail(s) ELSE s
    IN  IF body # <<>> /\ \A i \in DOMAIN body : DigitVal(body[i]) < radix
        THEN Some([i \in DOMAIN body |-> DigitVal(body[i])])
        ELSE None

\* u8::from_str_radix(pair, 16) of a pair of characters.
ParseHexByte(pair) ==
    LET ds == Digits(pair, 16)
    IN  IF ds.some
        THEN Some(FoldLeft(LAMBDA acc, d : 16 * acc + d, 0, ds.val))
        ELSE None

\* to_base16: two lower-case digits per byte.
ToBase16(src) ==
    FlattenSeq([i \in DOMAIN src |->
        <<HexDigits[(src[i] \div 16) + 1], HexDigits[(src[i] % 16) + 1]>>])

\* from_base16 into a buffer of n bytes: the bytes, or None.
FromBase16(n, src) ==
    LET pairs == [i \in 1 .. n |-> ParseHexByte(SubSeq(src, 2 * i - 1, 2 * i))]
    IN  IF n * 2 # Len(src) \/ \E i \in 1 .. n : ~pairs[i].some THEN None
        ELSE Some([i \in 1 .. n |-> pairs[i].val])

\* One step of u32::from_str: acc * 10 + d, None on overflow.
PushDigit(acc, d) ==
    LET lo == acc.val[1] * 10 + d
        hi == acc.val[2] * 10 + (lo \div 65536)
    IN  IF ~acc.some \/ hi >= 65536 THEN None ELSE Some(<<lo % 65536, hi>>)

\* part.parse::<u32>()
ParseU32(part) ==
    LET ds == Digits(part, 10)
    IN  IF ds.some THEN FoldLeft(PushDigit, Some(<<0, 0>>), ds.val) ELSE None

\* format!("{}", dword)
RECURSIVE ToDecimal(_)
ToDecimal(dword) ==
    LET low      == (dword[2] % 10) * 65536 + dword[1]
        quotient == <<low \div 10, dword[2] \div 10>>
        digit    == <<48 + (low % 10)>>
    IN  IF quotient = <<0, 0>> THEN digit ELSE ToDecimal(quotient) \o digit

\* LittleEndian::read_u32_into: the dwords of 4 * n bytes.
ReadU32Into(bytes) ==
    [k \in 1 .. Len(bytes) \div 4 |->
        <<bytes[4 * k - 3] + 256 * bytes[4 * k - 2],
          bytes[4 * k - 1] + 256 * bytes[4 * k]>>]

\* LittleEndian::write_u32_into: the bytes of the dwords.
WriteU32Into(dwords) ==
    FlattenSeq([k \in DOMAIN dwords |->
        <<dwords[k][1] % 256, dwords[k][1] \div 256,
          dwords[k][2] % 256, dwords[k][2] \div 256>>])

-----------------------------------------------------------------------------
(* Seeds and their text.  A PassThrough seed shares its recording with the *)
(* generator it was taken from: `arc` is the identity of the Arc<[u8]>.    *)

XorShiftSeed(bytes) == [alg |-> "XorShift", bytes |-> bytes]
ChaChaSeed(bytes)   == [alg |-> "ChaCha", bytes |-> bytes]
PassThroughSeed(bounds, data, arc) ==
    [alg |-> "PassThrough", bounds |-> bounds, data |-> data, arc |-> arc]

Panicked == [panicked |-> TRUE]

\* Seed::from_bytes; `arc` is the Arc that seed.into() allocates.
SeedFromBytes(alg, bytes, arc) ==
    CASE alg = "XorShift" ->
            IF Len(bytes) = 16 THEN XorShiftSeed(bytes) ELSE Panicked
      [] alg = "ChaCha" ->
            IF Len(bytes) = 32 THEN ChaChaSeed(bytes) ELSE Panicked
      [] alg = "PassThrough" -> PassThroughSeed(None, bytes, arc)

\* Seed::from_persistence; the recording is not yet one the model has
\* counted (arc 0).
FromPersistence(string) ==
    LET parts  == Split(Trim(string))
        alg    == FromPersistenceKey(parts[1])
        dwords == [k \in 1 .. 4 |-> ParseU32(parts[k + 1])]
        base16 == FromBase16(IF alg.val = "ChaCha" THEN 32 ELSE Len(parts[2]) \div 2,
                             parts[2])
    IN  CASE ~alg.some -> None
          [] alg.some /\ alg.val = "XorShift" ->
                IF Len(parts) = 5 /\ \A k \in 1 .. 4 : dwords[k].some
                THEN Some(XorShiftSeed(WriteU32Into([k \in 1 .. 4 |-> dwords[k].val])))
                ELSE None
          [] alg.some /\ alg.val = "ChaCha" ->
                IF Len(parts) = 2 /\ base16.some
                THEN Some(ChaChaSeed(base16.val)) ELSE None
          [] alg.some /\ alg.val = "PassThrough" ->
                CASE Len(parts) = 1 -> Some(PassThroughSeed(None, <<>>, 0))
                  [] Len(parts) = 2 /\ base16.some ->
                        Some(PassThroughSeed(None, base16.val, 0))
                  [] OTHER -> None

\* "{} {} {} {} {}"
Spaced(words) ==
    FoldLeft(LAMBDA line, word : line \o <<Space>> \o word, Head(words), Tail(words))

\* Mutant: the whole recording is written, whatever the bounds.
WindowDataWhole(seed) == seed.data

\* bounds.map_or(&data[..], |(start, end)| &data[start..end])
WindowData(seed) ==
    IF seed.bounds.some
    THEN SubSeq(seed.data, seed.bounds.val[1] + 1, seed.bounds.val[2])
    ELSE seed.data

\* Seed::to_persistence
ToPersistence(seed) ==
    CASE seed.alg = "XorShift" ->
            LET dwords == ReadU32Into(seed.bytes)
            IN  Spaced(<<PersistenceKey("XorShift")>>
                       \o [k \in 1 .. 4 |-> ToDecimal(dwords[k])])
      [] seed.alg = "ChaCha" ->
            PersistenceKey("ChaCha") \o <<Space>> \o ToBase16(seed.bytes)
      [] seed.alg = "PassThrough" ->
            PersistenceKey("PassThrough") \o <<Space>> \o ToBase16(WindowData(seed))

-----------------------------------------------------------------------------
(* The generators.                                                         *)

VARIABLES
    rngs,           \* the TestRng values, in the order they were made
    arcs,           \* the number of recordings allocated
    served,         \* history: the bytes of the recordings handed out, <<arc, index>>
    seed,           \* the seed of a case on its way to a later run
    out             \* what the last call returned

vars == <<rngs, arcs, served, seed, out>>

\* The life of a seed: gen_get_seed returns it (a clone of what the
\* generator was set to), to_persistence writes it as a line of the
\* regression file, from_persistence reads the line, set_seed consumes it.
NoSeed        == [stage |-> "none"]
Held(s)       == [stage |-> "held", val |-> s]
Written(line) == [stage |-> "written", line |-> line]
Read(s)       == [stage |-> "read", val |-> s]

External == {"XorShift", "ChaCha"}

\* TestRng::from_seed_internal.  Of the state of an external generator the
\* model keeps the seed and whether anything was drawn since (fresh).
FromSeedInternal(s) ==
    IF s.alg \in External THEN [alg |-> s.alg, seed |-> s.bytes, fresh |-> TRUE]
    ELSE LET bounds == IF s.bounds.some THEN s.bounds.val ELSE <<0, Len(s.data)>>
         IN  [alg |-> "PassThrough", off |-> bounds[1], end |-> bounds[2],
              data |-> s.data, arc |-> s.arc]

\* The seed of deterministic_rng.
Hardcoded ==
    <<244, 22, 22, 72, 195, 172, 119, 172, 114, 32, 11, 234, 153, 103, 45, 109,
      202, 159, 118, 175, 27, 9, 115, 160, 89, 34, 109, 197, 70, 57, 28, 74>>

SeedLen(alg) == IF alg = "XorShift" THEN 16 ELSE 32

\* word[3] ^= 0xde; word[2] ^= 0xad; word[1] ^= 0xbe; word[0] ^= 0xef
Perturbed(bytes) ==
    [k \in DOMAIN bytes |-> bytes[k] ^^ <<239, 190, 173, 222>>[((k - 1) % 4) + 1]]

\* What new_rng_seed takes from an external generator.
ExternalSeeds(r) ==
    LET drawn == [r EXCEPT !.fresh = FALSE]
    IN  IF r.alg = "XorShift"
        THEN {[seed |-> XorShiftSeed(Perturbed(d)), rng |-> drawn] : d \in Drawn(16)}
        ELSE {[seed |-> ChaChaSeed(d), rng |-> drawn] : d \in Drawn(32)}

\* Mutant: the child's window starts at the middle of the remaining length,
\* not of the remaining data.
SplitWindowFromZero(r) ==
    LET len == r.end - r.off
    IN  [seed |-> PassThroughSeed(Some(<<len \div 2, r.off + len>>), r.data, r.arc),
         rng  |-> [r EXCEPT !.end = len \div 2]]

\* Mutant: the parent keeps the end of its window.
SplitWindowKeepsEnd(r) ==
    LET len == r.end - r.off
    IN  [seed |-> PassThroughSeed(Some(<<r.off + (len \div 2), r.off + len>>),
                                  r.data, r.arc),
         rng  |-> r]

\* What new_rng_seed takes from a PassThrough generator: the second half of
\* what is left, the generator keeps the first.
SplitWindow(r) ==
    LET len         == r.end - r.off
        child_start == r.off + (len \div 2)
        child_end   == r.off + len
    IN  [seed |-> PassThroughSeed(Some(<<child_start, child_end>>), r.data, r.arc),
         rng  |-> [r EXCEPT !.end = child_start]]

\* TestRng::new_rng_seed: the seeds it may return, each with the generator
\* it leaves behind.
NewRngSeeds(r) ==
    IF r.alg \in External THEN ExternalSeeds(r) ELSE {SplitWindow(r)}

Init ==
    /\ rngs = <<>>
    /\ arcs = 0
    /\ served = {}
    /\ seed = NoSeed
    /\ out = "ok"

Verdicts == {"ok", "unavailable"}
Panics   == {"seed length", "no PassThrough rng", "out of PassThrough data"}
Running  == out \in Verdicts

\* A panic unwinds the thread: what it held is dropped, and nothing runs
\* after it.
Panic(message) ==
    /\ out' = message
    /\ rngs' = <<>> /\ arcs' = 0 /\ served' = {} /\ seed' = NoSeed
MayMake == Running /\ Len(rngs) < MaxRngs

-----------------------------------------------------------------------------
(* Making a generator.                                                     *)

\* TestRng::from_seed with a seed of the right length.
FromSeed(alg, bytes) ==
    /\ MayMake
    /\ alg = "PassThrough" => arcs < MaxArcs
    /\ SeedFromBytes(alg, bytes, arcs + 1) # Panicked
    /\ rngs' = Append(rngs, FromSeedInternal(SeedFromBytes(alg, bytes, arcs + 1)))
    /\ arcs' = IF alg = "PassThrough" THEN arcs + 1 ELSE arcs
    /\ UNCHANGED <<served, seed, out>>

\* TestRng::from_seed: "Panics if `seed` is not an appropriate length".
FromSeedPanics ==
    /\ Running
    /\ \E alg \in Algorithms : \E bytes \in SeedBytes[alg] :
          SeedFromBytes(alg, bytes, arcs + 1) = Panicked
    /\ Panic("seed length")

\* TestRng::default_rng, from entropy.
DefaultRng(alg) ==
    /\ MayMake /\ alg \in External
    /\ \E d \in Drawn(SeedLen(alg)) :
          rngs' = Append(rngs, FromSeedInternal([alg |-> alg, bytes |-> d]))
    /\ UNCHANGED <<arcs, served, seed, out>>

\* TestRng::deterministic_rng
DeterministicRng(alg) ==
    /\ MayMake /\ alg \in External
    /\ rngs' = Append(rngs, FromSeedInternal(
                   [alg |-> alg, bytes |-> SubSeq(Hardcoded, 1, SeedLen(alg))]))
    /\ UNCHANGED <<arcs, served, seed, out>>

\* default_rng and deterministic_rng of PassThrough: both panic.
NoPassThroughRng ==
    /\ Running
    /\ Panic("no PassThrough rng")

-----------------------------------------------------------------------------
(* Drawing from a generator.  Of what a call returns the model keeps the   *)
(* verdict; the bytes a recording gives are the ones `served` counts.      *)

HasData(r, n) == r.off + n <= r.end

\* An external generator fills the buffer.
DrawExternal(i, n) ==
    /\ Running /\ i \in DOMAIN rngs /\ rngs[i].alg \in External
    /\ out' = "ok"
    /\ rngs' = [rngs EXCEPT ![i].fresh = @ /\ n = 0]
    /\ UNCHANGED <<arcs, served, seed>>

\* The PassThrough arm of fill_bytes, when the assertion holds:
\* dest.copy_from_slice(&data[*off..*off + dest.len()]); *off += dest.len()
DrawRecorded(i, n) ==
    /\ Running /\ i \in DOMAIN rngs /\ rngs[i].alg = "PassThrough"
    /\ HasData(rngs[i], n)
    /\ out' = "ok"
    /\ rngs' = [rngs EXCEPT ![i].off = @ + n]
    /\ served' = served \cup {<<rngs[i].arc, k>> : k \in rngs[i].off + 1 .. rngs[i].off + n}
    /\ UNCHANGED <<arcs, seed>>

\* The recording has not n bytes left.
Exhausted(i, n) ==
    /\ Running /\ i \in DOMAIN rngs /\ rngs[i].alg = "PassThrough"
    /\ ~HasData(rngs[i], n)

\* fill_bytes; assert!(*off + dest.len() <= end, "out of PassThrough data")
FillBytes(i, n) ==
    \/ DrawExternal(i, n)
    \/ DrawRecorded(i, n)
    \/ Exhausted(i, n) /\ Panic("out of PassThrough data")

\* try_fill_bytes: as fill_bytes, with an error in place of the panic.
TryFillBytes(i, n) ==
    \/ DrawExternal(i, n)
    \/ DrawRecorded(i, n)
    \/ Exhausted(i, n) /\ out' = "unavailable" /\ UNCHANGED <<rngs, arcs, served, seed>>

\* next_u32 and next_u64 read a buffer of 4 and of 8 bytes.
NextU32(i) == FillBytes(i, 4)
NextU64(i) == FillBytes(i, 8)

-----------------------------------------------------------------------------
(* Deriving, keeping and replaying seeds.                                  *)

\* TestRng::gen_rng: a new generator from a seed taken from generator i.
GenRng(i) ==
    /\ MayMake /\ i \in DOMAIN rngs
    /\ \E new \in NewRngSeeds(rngs[i]) :
          rngs' = Append([rngs EXCEPT ![i] = new.rng], FromSeedInternal(new.seed))
    /\ UNCHANGED <<arcs, served, seed, out>>

\* TestRng::gen_get_seed: generator i is set to a seed taken from itself,
\* and the caller gets a clone of the seed.
GenGetSeed(i) ==
    /\ Running /\ i \in DOMAIN rngs
    /\ \E new \in NewRngSeeds(rngs[i]) :
          /\ rngs' = [rngs EXCEPT ![i] = FromSeedInternal(new.seed)]
          /\ seed' = Held(new.seed)
    /\ UNCHANGED <<arcs, served, out>>

\* Seed::to_persistence: the seed of the failing case becomes a line of
\* the regression file.
Persist ==
    /\ Running /\ seed.stage = "held"
    /\ seed' = Written(ToPersistence(seed.val))
    /\ UNCHANGED <<rngs, arcs, served, out>>

\* A line is read: the one that was written, or one somebody wrote.
Lines == Texts \cup (IF seed.stage = "written" THEN {seed.line} ELSE {})

\* from_persistence of a line, computed once for the lines of Texts.
OfTexts == [line \in Texts |-> FromPersistence(line)]
FromLine(line) == IF line \in Texts THEN OfTexts[line] ELSE FromPersistence(line)

\* Seed::from_persistence accepts the line; a recording is one more Arc.
Parse(line) ==
    LET read == FromLine(line) IN
    /\ Running /\ read.some
    /\ IF read.val.alg = "PassThrough"
       THEN /\ arcs < MaxArcs
            /\ arcs' = arcs + 1
            /\ seed' = Read([read.val EXCEPT !.arc = arcs + 1])
       ELSE /\ seed' = Read(read.val)
            /\ UNCHANGED arcs
    /\ UNCHANGED <<rngs, served, out>>

\* Seed::from_persistence returns None for one of the lines.
ParseNone ==
    /\ Running
    /\ {line \in Lines : ~FromLine(line).some} # {}
    /\ seed' = NoSeed
    /\ UNCHANGED <<rngs, arcs, served, out>>

\* TestRng::set_seed with the seed that was read: the seed is moved into
\* generator i.
SetSeed(i) ==
    /\ Running /\ i \in DOMAIN rngs
    /\ seed.stage = "read"
    /\ rngs' = [rngs EXCEPT ![i] = FromSeedInternal(seed.val)]
    /\ seed' = NoSeed
    /\ UNCHANGED <<arcs, served, out>>

Next ==
    \/ \E alg \in Algorithms : \E bytes \in SeedBytes[alg] : FromSeed(alg, bytes)
    \/ FromSeedPanics
    \/ \E alg \in Algorithms : DefaultRng(alg)
    \/ \E alg \in Algorithms : DeterministicRng(alg)
    \/ NoPassThroughRng
    \/ \E i \in 1 .. MaxRngs, n \in FillSizes : FillBytes(i, n)
    \/ \E i \in 1 .. MaxRngs, n \in FillSizes : TryFillBytes(i, n)
    \/ \E i \in 1 .. MaxRngs : NextU32(i)
    \/ \E i \in 1 .. MaxRngs : NextU64(i)
    \/ \E i \in 1 .. MaxRngs : GenRng(i)
    \/ \E i \in 1 .. MaxRngs : GenGetSeed(i)
    \/ Persist
    \/ \E line \in Lines : Parse(line)
    \/ ParseNone
    \/ \E i \in 1 .. MaxRngs : SetSeed(i)

Spec == Init /\ [][Next]_vars

-----------------------------------------------------------------------------
(* Properties.                                                             *)

Window(r) == r.off + 1 .. r.end

Recorded == {i \in DOMAIN rngs : rngs[i].alg = "PassThrough"}

\* What a generator made from the seed returns: the bytes of its window,
\* or what the external generator makes of the seed.
Stream(s) ==
    LET r == FromSeedInternal(s)
    IN  IF s.alg \in External THEN <<s.alg, r.seed>>
        ELSE <<s.alg, SubSeq(r.data, r.off + 1, r.end)>>

IsSeed(s) ==
    \/ s.alg = "XorShift" /\ s.bytes \in [1 .. 16 -> Byte]
    \/ s.alg = "ChaCha" /\ s.bytes \in [1 .. 32 -> Byte]
    \/ /\ s.alg = "PassThrough"
       /\ s.data \in Seq(Byte) /\ s.arc \in 1 .. arcs
       /\ s.bounds.some =>
             s.bounds.val[1] <= s.bounds.val[2] /\ s.bounds.val[2] <= Len(s.data)

\* The state is well-formed, and every window lies in its recording: off
\* never passes end, and end never passes the data, so that neither the
\* subtraction of new_rng_seed nor the slices of fill_bytes and
\* to_persistence can fail.
TypeOK ==
    /\ Len(rngs) <= MaxRngs /\ arcs \in 0 .. MaxArcs
    /\ \A i \in DOMAIN rngs :
          \/ /\ rngs[i].alg \in External
             /\ rngs[i].seed \in Seq(Byte) /\ rngs[i].fresh \in BOOLEAN
          \/ /\ rngs[i].alg = "PassThrough"
             /\ rngs[i].off <= rngs[i].end /\ rngs[i].end <= Len(rngs[i].data)
             /\ rngs[i].arc \in 1 .. arcs
    /\ served \subseteq (1 .. MaxArcs) \X Nat
    /\ seed.stage \in {"none", "held", "written", "read"}
    /\ seed.stage \in {"held", "read"} => IsSeed(seed.val)
    /\ seed.stage = "written" => seed.line \in Seq(0 .. 127)
    /\ out \in Verdicts \cup Panics

\* No byte of a recording is handed out twice: the generators that share a
\* recording, a parent and the children new_rng_seed split off it, have
\* windows without a common byte, and no window holds a byte that was
\* handed out before.  PassThrough is driven by a fuzzer that expects every
\* byte to decide one thing.
NoByteHandedTwice ==
    /\ \A i, j \in Recorded :
          i # j /\ rngs[i].arc = rngs[j].arc
              => Window(rngs[i]) \cap Window(rngs[j]) = {}
    /\ \A i \in Recorded : \A k \in Window(rngs[i]) : <<rngs[i].arc, k>> \notin served

\* A seed survives the regression file: the line to_persistence writes for
\* a seed that gen_get_seed returned or from_persistence accepted is a line
\* from_persistence accepts, and the generator made from what it reads
\* returns what the generator made from the seed returns, also when the
\* seed is a window of a longer recording.
SeedSurvivesPersistence ==
    seed.stage \in {"held", "read"} =>
        LET read == FromPersistence(ToPersistence(seed.val))
        IN  read.some /\ Stream(read.val) = Stream(seed.val)

=============================================================================
