---------------------------- MODULE FlasherProofs ----------------------------
(***************************************************************************)
(* The command line is understood as it was meant, the exit status tells   *)
(* what became of it, and what `explain` prints are the write steps of the *)
(* plan: for all command lines, whatever their words stand for, all images *)
(* and all status packets.                                                 *)
(***************************************************************************)
EXTENDS Flasher, FiniteSetTheorems, SequenceTheorems, WellFoundedInduction, TLAPS

-----------------------------------------------------------------------------
(* Which words are values.                                                 *)

LEMMA FirstOf ==
  ASSUME NEW T \in SUBSET Nat, T # {}
  PROVE  \E m \in T : \A n \in T : m <= n
<1>1. PICK m \in T : \A n \in T : ~(<<n, m>> \in OpToRel(<, Nat))
  BY NatLessThanWellFounded, WFMin
<1>2. ASSUME NEW n \in T  PROVE m <= n
  <2>1. m \in Nat /\ n \in Nat
    OBVIOUS
  <2>2. ~(n < m)
    BY <1>1, <2>1 DEF OpToRel
  <2> QED  BY <2>1, <2>2
<1> QED
  BY <1>2

Marks(n, v) == v = [k \in 0..n |-> k > 1 /\ argv[k - 1] \in Valued /\ ~v[k - 1]]

\* The marks of a command line exist: the shortest beginning without any would
\* take its own from the one before it.
LEMMA MarksExist == \A n \in Nat : \E v : Marks(n, v)
<1> DEFINE T == {n \in Nat : ~\E v : Marks(n, v)}
<1> SUFFICES ASSUME T # {}  PROVE FALSE
  OBVIOUS
<1>1. PICK m \in T : \A n \in T : m <= n
  <2>1. T \in SUBSET Nat
    OBVIOUS
  <2> HIDE DEF T
  <2> QED  BY <2>1, FirstOf
<1>2. m \in Nat /\ ~\E v : Marks(m, v)
  OBVIOUS
<1>3. m # 0
  <2> DEFINE v == [k \in 0..0 |-> FALSE]
  <2>1. \A k \in 0..0 : ~(k > 1)
    OBVIOUS
  <2>2. Marks(0, v)
    BY <2>1 DEF Marks
  <2> QED  BY <1>2, <2>2
<1>4. m - 1 \in Nat /\ m - 1 \notin T
  <2> HIDE DEF T
  <2> QED  BY <1>1, <1>2, <1>3
<1>5. PICK u : Marks(m - 1, u)
  BY <1>4
<1> DEFINE v == [k \in 0..m |-> k > 1 /\ argv[k - 1] \in Valued /\ ~u[k - 1]]
<1>6. \A k \in 0..(m - 1) : u[k] = v[k]
  <2>1. \A k \in 0..(m - 1) : k \in 0..m
    BY <1>2, <1>4
  <2> QED  BY <1>5, <2>1 DEF Marks
<1>7. v = [k \in 0..m |-> k > 1 /\ argv[k - 1] \in Valued /\ ~v[k - 1]]
  <2>1. \A k \in 0..m : k > 1 => k - 1 \in 0..(m - 1)
    BY <1>2
  <2>2. \A k \in 0..m : k > 1 => u[k - 1] = v[k - 1]
    BY <1>6, <2>1, Zenon
  <2> QED  BY <2>2
<1> QED
  BY <1>2, <1>7 DEF Marks

LEMMA ValueIs ==
  ASSUME Len(argv) \in Nat
  PROVE  \A k \in 0..Len(argv) :
           IsValue[k] <=> k > 1 /\ argv[k - 1] \in Valued /\ ~IsValue[k - 1]
<1> DEFINE v == CHOOSE u : Marks(Len(argv), u)
<1>1. Marks(Len(argv), v)
  BY MarksExist
<1>2. IsValue = v
  BY DEF IsValue, Marks
<1> HIDE DEF v
<1> QED
  BY <1>1, <1>2 DEF Marks

-----------------------------------------------------------------------------
(* The words read so far, and what they say.                               *)

\* Those that are no values, and those among them that are one of names.
Tokens(n)       == {k \in 1..n : ~IsValue[k]}
Among(names, n) == {k \in Tokens(n) : argv[k] \in names}
PlainAmong(n)   == {k \in Tokens(n) : argv[k] \notin Dashed}
Names(s)        == {w \in Valued : Name(w) = s}
Keeps           == {"--keep-options", "--skip-options"}
Rank(k)         == Cardinality({j \in PlainAt : j < k})

SettingRead(s, n) == LET ks == Among(Names(s), n)
                     IN  IF ks = {} THEN Default[s] ELSE argv[LastOf(ks) + 1]
OptionsRead(n)    == LET ks == Among(Keeps, n)
                     IN  ks = {} \/ argv[LastOf(ks)] = "--keep-options"

SettingsInv ==
  /\ settings = [s \in Settings |-> SettingRead(s, at)]
  /\ \A s \in Settings : Among(Names(s), at) # {} => Takes(s, settings[s])

WordsInv ==
  /\ words \in Seq(STRING)
  /\ Len(words) = Cardinality(PlainAmong(at))
  /\ \A k \in PlainAmong(at) : Rank(k) + 1 \in 1..Len(words) /\ words[Rank(k) + 1] = argv[k]
  /\ \A n \in 1..Len(words) : \E k \in PlainAmong(at) : Rank(k) = n - 1

ParseInv ==
  /\ argv \in Seq(STRING)
  /\ at \in 0..Len(argv)
  /\ at < Len(argv) => ~IsValue[at + 1]
  /\ SettingsInv
  /\ write_options = OptionsRead(at)
  /\ Among(Help, at) = {}
  /\ WordsInv

LEMMA LastIsNew ==
  ASSUME NEW n \in Int, NEW ks \in SUBSET (1..n)
  PROVE  LastOf(ks \cup {n + 1}) = n + 1
<1>1. \A k \in ks \cup {n + 1} : k <= n + 1 /\ (k = n + 1 \/ ~(n + 1 <= k))
  OBVIOUS
<1>2. \A k \in ks \cup {n + 1} : (\A j \in ks \cup {n + 1} : j <= k) <=> k = n + 1
  BY <1>1
<1> QED
  BY <1>2 DEF LastOf

\* The next word is read for itself, or is the value of the one before it.
LEMMA NextToken ==
  ASSUME NEW n \in Nat
  PROVE  /\ ~IsValue[n + 1] => Tokens(n + 1) = Tokens(n) \cup {n + 1}
         /\ IsValue[n + 1] => Tokens(n + 1) = Tokens(n)
<1>1. 1..(n + 1) = (1..n) \cup {n + 1}
  OBVIOUS
<1> QED
  BY <1>1, Zenon DEF Tokens

LEMMA NextAmong ==
  ASSUME NEW n \in Nat, NEW names
  PROVE  /\ Among(names, n) \in SUBSET (1..n)
         /\ ~IsValue[n + 1] /\ argv[n + 1] \in names => Among(names, n + 1) = Among(names, n) \cup {n + 1}
         /\ IsValue[n + 1] \/ argv[n + 1] \notin names => Among(names, n + 1) = Among(names, n)
BY NextToken DEF Among, Tokens

LEMMA NextPlain ==
  ASSUME NEW n \in Nat
  PROVE  /\ PlainAmong(n) \in SUBSET (1..n)
         /\ ~IsValue[n + 1] /\ argv[n + 1] \notin Dashed => PlainAmong(n + 1) = PlainAmong(n) \cup {n + 1}
         /\ IsValue[n + 1] \/ argv[n + 1] \in Dashed => PlainAmong(n + 1) = PlainAmong(n)
BY NextToken DEF PlainAmong, Tokens

LEMMA PlainIsFinite ==
  ASSUME NEW n \in Nat
  PROVE  IsFiniteSet(PlainAmong(n)) /\ Cardinality(PlainAmong(n)) \in Nat
<1>1. IsFiniteSet(1..n)
  BY FS_Interval
<1> QED
  BY <1>1, NextPlain, FS_Subset, FS_CardinalityType

\* What is read to the end is what the whole line says.
LEMMA ReadToTheEnd ==
  ASSUME Len(argv) \in Nat
  PROVE  /\ PlainAt = PlainAmong(Len(argv))
         /\ \A names : Said(names) = Among(names, Len(argv))
         /\ \A s \in Settings : SettingSaid(s) = SettingRead(s, Len(argv))
         /\ OptionsSaid = OptionsRead(Len(argv))
<1>1. PlainAt = PlainAmong(Len(argv))
  BY DEF PlainAt, PlainAmong, Tokens
<1>2. \A names : Said(names) = Among(names, Len(argv))
  BY DEF Said, Among, Tokens
<1>3. \A s \in Settings : {k \in Said(Valued) : Name(argv[k]) = s} = Among(Names(s), Len(argv))
  BY DEF Said, Among, Tokens, Names
<1> QED
  BY <1>1, <1>2, <1>3, Zenon DEF SettingSaid, SettingRead, OptionsSaid, OptionsRead, Keeps

LEMMA RankOrder ==
  ASSUME Len(argv) \in Nat, NEW k \in PlainAt, NEW m \in PlainAt, k < m
  PROVE  Rank(k) < Rank(m)
<1> DEFINE A == {j \in PlainAt : j < k}   B == {j \in PlainAt : j < m}
<1>1. PlainAt \in SUBSET (1..Len(argv)) /\ IsFiniteSet(1..Len(argv))
  BY FS_Interval DEF PlainAt
<1>2. IsFiniteSet(PlainAt)
  BY <1>1, FS_Subset
<1>3. A \in SUBSET PlainAt /\ B \in SUBSET PlainAt /\ k \in B /\ k \notin A /\ A \in SUBSET B
  <2>1. \A j \in PlainAt : j \in Int
    BY <1>1
  <2>2. \A j \in PlainAt : j < k => j < m
    BY <2>1
  <2>3. ~(k < k)
    BY <2>1
  <2> QED  BY <2>2, <2>3
<1> HIDE DEF A, B
<1>4. IsFiniteSet(A) /\ IsFiniteSet(B)
  BY <1>2, <1>3, FS_Subset
<1>5. Cardinality(A) \in Nat /\ Cardinality(B) \in Nat /\ Cardinality(A) <= Cardinality(B)
  BY <1>3, <1>4, FS_Subset, FS_CardinalityType
<1>6. Cardinality(A) # Cardinality(B)
  BY <1>3, <1>4, FS_Subset
<1> QED
  BY <1>5, <1>6 DEF Rank, A, B

\* The plain word of a rank is the only one.
LEMMA RankIs ==
  ASSUME Len(argv) \in Nat, NEW n \in Nat, NEW k \in PlainAt, Rank(k) = n - 1
  PROVE  PlainSaid(n) = k
<1>1. \A m \in PlainAt : m \in Nat
  BY DEF PlainAt
<1>2. \A m \in PlainAt : Rank(m) = n - 1 => m = k
  <2> SUFFICES ASSUME NEW m \in PlainAt, Rank(m) = n - 1, m # k  PROVE FALSE
    OBVIOUS
  <2>1. ~(m < k) /\ ~(k < m)
    BY RankOrder
  <2> QED  BY <1>1, <2>1
<1>3. \A m \in PlainAt : Rank(m) = Cardinality({j \in PlainAt : j < m})
  BY DEF Rank
<1> QED
  BY <1>2, <1>3 DEF PlainSaid

-----------------------------------------------------------------------------
(* parse_args, word by word.                                               *)

LEMMA SameLine ==
  ASSUME UNCHANGED argv
  PROVE  /\ IsValue' = IsValue
         /\ SettingsInv' <=>
              /\ settings' = [s \in Settings |-> SettingRead(s, at')]
              /\ \A s \in Settings : Among(Names(s), at') # {} => Takes(s, settings'[s])
         /\ WordsInv' <=>
              /\ words' \in Seq(STRING)
              /\ Len(words') = Cardinality(PlainAmong(at'))
              /\ \A k \in PlainAmong(at') : Rank(k) + 1 \in 1..Len(words') /\ words'[Rank(k) + 1] = argv[k]
              /\ \A n \in 1..Len(words') : \E k \in PlainAmong(at') : Rank(k) = n - 1
         /\ OptionsRead(at)' = OptionsRead(at')
         /\ \A names : Among(names, at)' = Among(names, at')
<1>1. IsValue' = IsValue
  BY DEF IsValue
<1>2. \A names : Among(names, at)' = Among(names, at')
  BY <1>1 DEF Among, Tokens
<1>3. \A s : SettingRead(s, at)' = SettingRead(s, at')
  BY <1>1 DEF SettingRead, Among, Tokens
<1>4. OptionsRead(at)' = OptionsRead(at')
  BY <1>1 DEF OptionsRead, Among, Tokens
<1>5. PlainAmong(at)' = PlainAmong(at') /\ \A k : Rank(k)' = Rank(k)
  BY <1>1 DEF PlainAmong, Tokens, Rank, PlainAt
<1> QED
  BY <1>1, <1>2, <1>3, <1>4, <1>5 DEF SettingsInv, WordsInv

\* A word that is no option with a value leaves what is said by those as it is.
LEMMA SettingsStay ==
  ASSUME NEW n \in Nat, IsValue[n + 1] \/ argv[n + 1] \notin Valued
  PROVE  \A s \in Settings : /\ Among(Names(s), n + 1) = Among(Names(s), n)
                             /\ SettingRead(s, n + 1) = SettingRead(s, n)
<1>1. \A s \in Settings : Among(Names(s), n + 1) = Among(Names(s), n)
  BY NextAmong DEF Names
<1> QED
  BY <1>1 DEF SettingRead

\* One that is makes itself the last mention of its own setting.
LEMMA SettingSet ==
  ASSUME NEW n \in Nat, ~IsValue[n + 1], argv[n + 1] \in Valued
  PROVE  /\ Name(argv[n + 1]) \in Settings
         /\ Among(Names(Name(argv[n + 1])), n + 1) # {}
         /\ SettingRead(Name(argv[n + 1]), n + 1) = argv[n + 2]
         /\ \A s \in Settings \ {Name(argv[n + 1])} :
              /\ Among(Names(s), n + 1) = Among(Names(s), n)
              /\ SettingRead(s, n + 1) = SettingRead(s, n)
<1> DEFINE s0 == Name(argv[n + 1])
<1>1. s0 \in Settings
  BY DEF Name, Valued, Settings
<1>2. Among(Names(s0), n + 1) = Among(Names(s0), n) \cup {n + 1}
  BY NextAmong DEF Names
<1>3. LastOf(Among(Names(s0), n + 1)) = n + 1
  <2>1. n \in Int /\ Among(Names(s0), n) \in SUBSET (1..n)
    BY NextAmong
  <2>2. LastOf(Among(Names(s0), n) \cup {n + 1}) = n + 1
    BY <2>1, LastIsNew, Zenon
  <2> QED  BY <1>2, <2>2
<1>4. \A s \in Settings \ {s0} : Among(Names(s), n + 1) = Among(Names(s), n)
  BY NextAmong DEF Names
<1>5. (n + 1) + 1 = n + 2
  OBVIOUS
<1> HIDE DEF s0
<1>6. SettingRead(s0, n + 1) = argv[n + 2]
  BY <1>2, <1>3, <1>5 DEF SettingRead
<1> QED
  BY <1>1, <1>2, <1>4, <1>6 DEF s0, SettingRead

LEMMA OptionsStay ==
  ASSUME NEW n \in Nat, IsValue[n + 1] \/ argv[n + 1] \notin Keeps
  PROVE  OptionsRead(n + 1) = OptionsRead(n)
BY NextAmong DEF OptionsRead

LEMMA OptionsSet ==
  ASSUME NEW n \in Nat, ~IsValue[n + 1], argv[n + 1] \in Keeps
  PROVE  OptionsRead(n + 1) <=> argv[n + 1] = "--keep-options"
<1>1. Among(Keeps, n + 1) = Among(Keeps, n) \cup {n + 1}
  BY NextAmong
<1>2. LastOf(Among(Keeps, n + 1)) = n + 1
  <2>1. n \in Int /\ Among(Keeps, n) \in SUBSET (1..n)
    BY NextAmong
  <2>2. LastOf(Among(Keeps, n) \cup {n + 1}) = n + 1
    BY <2>1, LastIsNew, Zenon
  <2> QED  BY <1>1, <2>2
<1> QED
  BY <1>1, <1>2 DEF OptionsRead

LEMMA OptionsAreBoolean == \A n : OptionsRead(n) \in BOOLEAN
BY DEF OptionsRead

\* The word behind one that was read for itself.
LEMMA WordBehind ==
  ASSUME ParseInv, at < Len(argv)
  PROVE  /\ at \in Nat /\ Len(argv) \in Nat /\ ~IsValue[at + 1]
         /\ at + 1 <= Len(argv)
         /\ at + 1 < Len(argv) => (IsValue[at + 2] <=> argv[at + 1] \in Valued)
         /\ at + 2 < Len(argv) => (IsValue[at + 3] <=> argv[at + 2] \in Valued /\ ~IsValue[at + 2])
<1>1. at \in Nat /\ Len(argv) \in Nat /\ ~IsValue[at + 1] /\ at + 1 <= Len(argv)
  BY DEF ParseInv
<1>2. \A k \in 0..Len(argv) : IsValue[k] <=> k > 1 /\ argv[k - 1] \in Valued /\ ~IsValue[k - 1]
  BY <1>1, ValueIs
<1>3. (at + 2) - 1 = at + 1 /\ (at + 3) - 1 = at + 2 /\ at + 2 > 1 /\ at + 3 > 1
  BY <1>1
<1>4. at + 1 < Len(argv) => at + 2 \in 0..Len(argv)
  BY <1>1
<1>5. at + 2 < Len(argv) => at + 3 \in 0..Len(argv)
  BY <1>1
<1>6. at + 1 < Len(argv) => (IsValue[at + 2] <=> argv[at + 1] \in Valued)
  BY <1>1, <1>2, <1>3, <1>4
<1>7. at + 2 < Len(argv) => (IsValue[at + 3] <=> argv[at + 2] \in Valued /\ ~IsValue[at + 2])
  BY <1>2, <1>3, <1>5
<1> QED
  BY <1>1, <1>6, <1>7

LEMMA Kinds ==
  /\ Flags \cap Valued = {} /\ Flags \cap Help = {} /\ Valued \cap Help = {}
  /\ Keeps \subseteq Flags
BY DEF Flags, Valued, Settings, Help, Keeps

\* Nothing was said by a word that is only a plain one or a flag.
LEMMA OneWordOn ==
  ASSUME ParseInv, at < Len(argv), argv[at + 1] \notin Valued, argv[at + 1] \notin Help,
         UNCHANGED argv, at' = at + 1, UNCHANGED settings
  PROVE  /\ at' \in 0..Len(argv')
         /\ (at < Len(argv) => ~IsValue[at + 1])'
         /\ SettingsInv'
         /\ (Among(Help, at) = {})'
<1>1. at \in Nat /\ Len(argv) \in Nat /\ ~IsValue[at + 1] /\ at + 1 <= Len(argv)
  BY WordBehind
<1>2. at + 1 < Len(argv) => ~IsValue[at + 2]
  BY WordBehind
<1>3. SettingsInv'
  <2>1. \A s \in Settings : /\ Among(Names(s), at + 1) = Among(Names(s), at)
                            /\ SettingRead(s, at + 1) = SettingRead(s, at)
    BY <1>1, SettingsStay
  <2>2. [s \in Settings |-> SettingRead(s, at + 1)] = [s \in Settings |-> SettingRead(s, at)]
    BY <2>1
  <2> QED  BY <2>1, <2>2, SameLine, Zenon DEF ParseInv, SettingsInv
<1>4. Among(Help, at + 1) = {}
  BY <1>1, NextAmong DEF ParseInv
<1>5. (at + 1) + 1 = at + 2
  BY <1>1
<1>6. (Among(Help, at) = {})'
  BY <1>4, SameLine
<1>7. IsValue' = IsValue
  BY SameLine
<1>8. (at < Len(argv) => ~IsValue[at + 1])'
  BY <1>2, <1>5, <1>7
<1> QED
  BY <1>1, <1>3, <1>6, <1>8

LEMMA WordsStay ==
  ASSUME WordsInv, UNCHANGED <<argv, words>>, PlainAmong(at') = PlainAmong(at)
  PROVE  WordsInv'
BY SameLine, Zenon DEF WordsInv

LEMMA FlagParses == ParseInv /\ TakeFlag => ParseInv'
<1> SUFFICES ASSUME ParseInv, TakeFlag  PROVE ParseInv'
  OBVIOUS
<1> DEFINE w == argv[at + 1]
<1>1. /\ at < Len(argv) /\ w \in Flags /\ at' = at + 1
      /\ write_options' = CASE w = "--keep-options" -> TRUE
                            [] w = "--skip-options" -> FALSE
                            [] OTHER                -> write_options
      /\ UNCHANGED <<argv, settings, words>>
  BY DEF TakeFlag, ReadsArg, Arg
<1>2. w \notin Valued /\ w \notin Help /\ w \in Dashed
  BY <1>1, Kinds, FlasherAssumption
<1>3. at \in Nat /\ ~IsValue[at + 1]
  BY <1>1, WordBehind
<1>4. write_options' = OptionsRead(at')
  <2>1. CASE w \in Keeps
    <3>1. OptionsRead(at + 1) <=> w = "--keep-options"
      BY <1>3, <2>1, OptionsSet
    <3>2. write_options' = (w = "--keep-options")
      BY <1>1, <2>1 DEF Keeps
    <3> QED  BY <1>1, <3>1, <3>2, OptionsAreBoolean
  <2>2. CASE w \notin Keeps
    <3>1. OptionsRead(at + 1) = OptionsRead(at)
      BY <1>3, <2>2, OptionsStay
    <3>2. write_options' = write_options
      BY <1>1, <2>2 DEF Keeps
    <3> QED  BY <1>1, <3>1, <3>2 DEF ParseInv
  <2> QED  BY <2>1, <2>2
<1>5. WordsInv'
  BY <1>1, <1>2, <1>3, NextPlain, WordsStay DEF ParseInv
<1> QED
  BY <1>1, <1>2, <1>4, <1>5, OneWordOn, SameLine DEF ParseInv

LEMMA PlainWordParses == ParseInv /\ TakePlainWord => ParseInv'
<1> SUFFICES ASSUME ParseInv, TakePlainWord  PROVE ParseInv'
  OBVIOUS
<1> DEFINE w == argv[at + 1]
<1>1. /\ at < Len(argv) /\ w \notin Dashed /\ at' = at + 1 /\ words' = Append(words, w)
      /\ UNCHANGED <<argv, settings, write_options>>
  BY DEF TakePlainWord, ReadsArg, Arg
<1>2. w \notin Valued /\ w \notin Help /\ w \notin Keeps
  BY <1>1, Kinds, FlasherAssumption
<1>3. at \in Nat /\ Len(argv) \in Nat /\ ~IsValue[at + 1] /\ at + 1 \in 1..Len(argv)
  BY <1>1, WordBehind
<1>4. write_options' = OptionsRead(at')
  BY <1>1, <1>2, <1>3, OptionsStay DEF ParseInv
<1>5. /\ words \in Seq(STRING) /\ Len(words) = Cardinality(PlainAmong(at)) /\ Len(words) \in Nat
      /\ w \in STRING
  BY <1>3 DEF ParseInv, WordsInv
<1>6. /\ words' \in Seq(STRING) /\ Len(words') = Len(words) + 1 /\ words'[Len(words) + 1] = w
      /\ \A n \in 1..Len(words) : words'[n] = words[n]
  BY <1>1, <1>5
<1>7. PlainAmong(at + 1) = PlainAmong(at) \cup {at + 1} /\ at + 1 \notin PlainAmong(at)
  BY <1>1, <1>3, NextPlain
<1>8. Cardinality(PlainAmong(at + 1)) = Len(words) + 1
  BY <1>3, <1>5, <1>7, PlainIsFinite, FS_AddElement
<1>9. Rank(at + 1) = Len(words)
  <2>1. {j \in PlainAt : j < at + 1} = PlainAmong(at)
    BY <1>3 DEF PlainAt, PlainAmong, Tokens
  <2> QED  BY <1>5, <2>1 DEF Rank
<1>10. WordsInv'
  <2>1. \A k \in PlainAmong(at + 1) :
          Rank(k) + 1 \in 1..Len(words') /\ words'[Rank(k) + 1] = argv[k]
    <3> TAKE k \in PlainAmong(at + 1)
    <3>1. CASE k = at + 1
      BY <1>5, <1>6, <1>9, <3>1
    <3>2. CASE k \in PlainAmong(at)
      <4>1. Rank(k) + 1 \in 1..Len(words) /\ words[Rank(k) + 1] = argv[k]
        BY <3>2 DEF ParseInv, WordsInv
      <4> QED  BY <1>5, <1>6, <4>1
    <3> QED  BY <1>7, <3>1, <3>2
  <2>2. \A n \in 1..Len(words') : \E k \in PlainAmong(at + 1) : Rank(k) = n - 1
    <3> TAKE n \in 1..Len(words')
    <3>1. CASE n = Len(words) + 1
      BY <1>5, <1>7, <1>9, <3>1
    <3>2. CASE n \in 1..Len(words)
      BY <1>7, <3>2 DEF ParseInv, WordsInv
    <3> QED  BY <1>5, <1>6, <3>1, <3>2
  <2> QED  BY <1>1, <1>6, <1>8, <2>1, <2>2, SameLine
<1> QED
  BY <1>1, <1>2, <1>4, <1>10, OneWordOn, SameLine DEF ParseInv

LEMMA OptionParses == ParseInv /\ TakeOption => ParseInv'
<1> SUFFICES ASSUME ParseInv, TakeOption  PROVE ParseInv'
  OBVIOUS
<1> DEFINE w == argv[at + 1]   v == argv[at + 2]
<1>1. /\ at < Len(argv) /\ w \in Valued /\ at + 2 <= Len(argv) /\ Takes(Name(w), v)
      /\ at' = at + 2 /\ settings' = [settings EXCEPT ![Name(w)] = v]
      /\ UNCHANGED <<argv, write_options, words>>
  BY DEF TakeOption, ReadsArg, Arg, ValueIsGood
<1>2. w \notin Help /\ w \notin Keeps /\ w \in Dashed
  BY <1>1, Kinds, FlasherAssumption
<1>3. /\ at \in Nat /\ Len(argv) \in Nat /\ ~IsValue[at + 1] /\ at + 1 \in Nat /\ (at + 1) + 1 = at + 2
      /\ (at + 2) + 1 = at + 3
  BY <1>1, WordBehind
<1>4. IsValue[at + 2] /\ (at + 2 < Len(argv) => ~IsValue[at + 3])
  <2>1. at + 1 < Len(argv)
    BY <1>1, <1>3
  <2> QED  BY <1>1, <2>1, WordBehind
<1> HIDE DEF w, v
<1>5. write_options' = OptionsRead(at')
  <2>1. OptionsRead(at + 1) = OptionsRead(at)
    BY <1>2, <1>3, OptionsStay DEF w
  <2>2. OptionsRead((at + 1) + 1) = OptionsRead(at + 1)
    BY <1>3, <1>4, OptionsStay
  <2> QED  BY <1>1, <1>3, <2>1, <2>2 DEF ParseInv
<1>6. WordsInv'
  <2>1. PlainAmong(at + 1) = PlainAmong(at)
    BY <1>2, <1>3, NextPlain DEF w
  <2>2. PlainAmong((at + 1) + 1) = PlainAmong(at + 1)
    BY <1>3, <1>4, NextPlain
  <2> QED  BY <1>1, <1>3, <2>1, <2>2, WordsStay DEF ParseInv
<1>7. Among(Help, at') = {}
  <2>1. Among(Help, at + 1) = Among(Help, at)
    BY <1>2, <1>3, NextAmong DEF w
  <2>2. Among(Help, (at + 1) + 1) = Among(Help, at + 1)
    BY <1>3, <1>4, NextAmong
  <2> QED  BY <1>1, <1>3, <2>1, <2>2 DEF ParseInv
<1>8. SettingsInv'
  <2> DEFINE s0 == Name(w)
  <2>1. \A s \in Settings : /\ Among(Names(s), at + 2) = Among(Names(s), at + 1)
                            /\ SettingRead(s, at + 2) = SettingRead(s, at + 1)
    BY <1>3, <1>4, SettingsStay
  <2>2. /\ s0 \in Settings /\ SettingRead(s0, at + 1) = v
        /\ \A s \in Settings \ {s0} : /\ Among(Names(s), at + 1) = Among(Names(s), at)
                                      /\ SettingRead(s, at + 1) = SettingRead(s, at)
    BY <1>1, <1>3, SettingSet DEF w, v
  <2>3. settings = [s \in Settings |-> SettingRead(s, at)]
    BY DEF ParseInv, SettingsInv
  <2>4. \A s \in Settings : Among(Names(s), at) # {} => Takes(s, settings[s])
    BY DEF ParseInv, SettingsInv
  <2>5. Takes(s0, v)
    BY <1>1
  <2> HIDE DEF s0
  <2>6. /\ settings' = [s \in Settings |-> settings'[s]]
        /\ settings'[s0] = v /\ \A s \in Settings \ {s0} : settings'[s] = settings[s]
    BY <1>1, <2>2, <2>3 DEF s0
  <2>7. \A s \in Settings : settings'[s] = SettingRead(s, at + 2)
    BY <2>1, <2>2, <2>3, <2>6
  <2>8. settings' = [s \in Settings |-> SettingRead(s, at + 2)]
    BY <2>6, <2>7
  <2>9. \A s \in Settings : Among(Names(s), at + 2) # {} => Takes(s, settings'[s])
    BY <2>1, <2>2, <2>4, <2>5, <2>6, Zenon
  <2> QED  BY <1>1, <2>8, <2>9, SameLine
<1>9. (at < Len(argv) => ~IsValue[at + 1])'
  <2>1. IsValue' = IsValue
    BY <1>1, SameLine
  <2> QED  BY <1>1, <1>3, <1>4, <2>1
<1>10. at' \in 0..Len(argv')
  BY <1>1, <1>3
<1> QED
  BY <1>1, <1>5, <1>6, <1>7, <1>8, <1>9, <1>10, SameLine DEF ParseInv

\* Nothing has been read of a line, and nothing said.
LEMMA InitParses == CliInit => ParseInv
<1> SUFFICES ASSUME CliInit  PROVE ParseInv
  OBVIOUS
<1>1. argv \in Seq(STRING) /\ at = 0 /\ Len(argv) \in Nat
  BY FlasherAssumption DEF CliInit
<1>2. Tokens(0) = {}
  BY DEF Tokens
<1>3. \A names : Among(names, 0) = {}
  BY <1>2 DEF Among
<1>4. PlainAmong(0) = {}
  BY <1>2 DEF PlainAmong
<1>5. ~IsValue[1] \/ ~(at < Len(argv))
  <2>1. at < Len(argv) => 1 \in 0..Len(argv)
    BY <1>1
  <2> QED  BY <1>1, <2>1, ValueIs
<1>6. SettingsInv
  BY <1>1, <1>3 DEF CliInit, SettingsInv, SettingRead, Default
<1>7. WordsInv
  <2>1. words = <<>> /\ words \in Seq(STRING) /\ Len(words) = 0
    BY DEF CliInit
  <2>2. Cardinality(PlainAmong(at)) = 0 /\ PlainAmong(at) = {}
    BY <1>1, <1>4, FS_EmptySet
  <2> QED  BY <2>1, <2>2 DEF WordsInv
<1>8. write_options = OptionsRead(at)
  BY <1>1, <1>3 DEF CliInit, OptionsRead
<1> QED
  BY <1>1, <1>3, <1>5, <1>6, <1>7, <1>8 DEF ParseInv

-----------------------------------------------------------------------------
(* From the words to the exit status.                                      *)

Writing == Command \in {"write", "flash"}
Loaded  == Len(words) > 1 /\ words[2] \in DOMAIN ImageOf /\ image = ImageOf[words[2]]

StageInv ==
  /\ stage \in {"parse", "load", "explain", "port", "handshake", "plan", "run", "exited"}
  /\ stage \notin {"parse", "exited"} => at = Len(argv) /\ words # <<>>
  /\ stage = "load" => Command \in {"write", "flash", "explain"} /\ Len(words) > 1
  /\ stage \in {"port", "handshake", "plan", "run"} =>
       Command \in {"identify", "info", "erase"} \/ (Writing /\ Loaded)
  /\ stage = "explain" => Command = "explain"
  /\ stage \in {"handshake", "plan", "run"} => settings["--port"] # None

\* What the chip's flash and the user are told, as FlashPromise has it; and why
\* the command came to its end.
OutcomeInv ==
  /\ ~plan.ok => content = "blank" /\ told = "none"
  /\ stage \notin {"run", "exited"} => ~plan.ok
  /\ stage = "run" => plan.ok
  /\ told \in {"none", "ok", "plain", "indeterminate"}
  /\ content # "blank" => words # <<>> /\ Writing
  /\ told = "ok" /\ words # <<>> /\ Writing => content = "complete"
  /\ told = "plain" => content # "partial"
  /\ stage # "exited" => exit = "none"
  /\ exit = "success" =>
       \/ argv = <<>> \/ Said(Help) # {}
       \/ at = Len(argv) /\ words # <<>> /\ (Command \in {"ports", "explain"} \/ told = "ok")
  /\ exit = "failure" => ~plan.ok \/ told \in {"plain", "indeterminate"}
  /\ exit = "panic" /\ quiet => ~plan.ok \/ told = "ok"

LEMMA ParseInvStays ==
  ASSUME ParseInv, UNCHANGED <<argv, at, settings, write_options, words>>
  PROVE  ParseInv'
<1>1. IsValue' = IsValue /\ SettingsInv' /\ WordsInv' /\ OptionsRead(at)' = OptionsRead(at)
      /\ Among(Help, at)' = Among(Help, at)
  BY SameLine DEF ParseInv, SettingsInv, WordsInv
<1> QED
  BY <1>1 DEF ParseInv

LEMMA ParseInvNext == ParseInv /\ [CliNext]_cli_vars => ParseInv'
<1> SUFFICES ASSUME ParseInv, [CliNext]_cli_vars  PROVE ParseInv'
  OBVIOUS
<1>1. CASE TakeFlag
  BY <1>1, FlagParses
<1>2. CASE TakeOption
  BY <1>2, OptionParses
<1>3. CASE TakePlainWord
  BY <1>3, PlainWordParses
<1>4. CASE \/ ShowHelp \/ RefuseWord \/ Main \/ RunPlan \/ Aftermath \/ PrintFails
           \/ UNCHANGED cli_vars
  <2>1. UNCHANGED <<argv, at, settings, write_options, words>>
    BY <1>4 DEF ShowHelp, RefuseWord, Main, Dispatch, LoadImage, Explain, OpenPort, Handshake, MakePlan,
                Report, RunPlan, Aftermath, PrintFails, cli_vars, args_vars
  <2> QED  BY <2>1, ParseInvStays
<1> QED
  BY <1>1, <1>2, <1>3, <1>4 DEF CliNext, ParseArgs

LEMMA StageInvNext == ParseInv /\ StageInv /\ [CliNext]_cli_vars => StageInv'
<1> SUFFICES ASSUME ParseInv, StageInv, [CliNext]_cli_vars  PROVE StageInv'
  OBVIOUS
<1> USE DEF StageInv, Exit, Go
<1>1. CASE ShowHelp \/ RefuseWord \/ PrintFails
  BY <1>1 DEF ShowHelp, RefuseWord, PrintFails
<1>2. CASE TakeFlag \/ TakeOption \/ TakePlainWord
  BY <1>2 DEF TakeFlag, TakeOption, TakePlainWord, ReadsArg
<1>3. CASE Dispatch
  BY <1>3 DEF Dispatch, args_vars, Parsed, Writing, Loaded, Command
<1>4. CASE LoadImage
  BY <1>4 DEF LoadImage, args_vars, Writing, Loaded, Command
<1>5. CASE Explain \/ Report
  BY <1>5 DEF Explain, Report
<1>6. CASE OpenPort
  BY <1>6 DEF OpenPort, args_vars, Parsed, Writing, Loaded, Command
<1>7. CASE Handshake
  BY <1>7 DEF Handshake, args_vars, Writing, Loaded, Command
<1>8. CASE MakePlan
  BY <1>8 DEF MakePlan, args_vars, Writing, Loaded, Command
<1>9. CASE RunPlan \/ Aftermath \/ UNCHANGED cli_vars
  <2>1. UNCHANGED <<argv, at, settings, words, stage, image>>
    BY <1>9 DEF RunPlan, Aftermath, args_vars, cli_vars
  <2> QED  BY <2>1 DEF Writing, Loaded, Command
<1> QED
  BY <1>1, <1>2, <1>3, <1>4, <1>5, <1>6, <1>7, <1>8, <1>9 DEF CliNext, ParseArgs, Main

LEMMA OutcomeInvNext == ParseInv /\ StageInv /\ OutcomeInv /\ [CliNext]_cli_vars => OutcomeInv'
<1> SUFFICES ASSUME ParseInv, StageInv, OutcomeInv, [CliNext]_cli_vars  PROVE OutcomeInv'
  OBVIOUS
<1>0. UNCHANGED argv => UNCHANGED Said(Help)
  BY SameLine DEF Said
<1>1. CASE ShowHelp
  <2>1. stage = "parse" /\ stage' = "exited" /\ exit' = "success"
        /\ UNCHANGED <<argv, at, words, quiet, content, told, plan>>
    BY <1>1 DEF ShowHelp, Exit, args_vars, Parsed, run_vars
  <2>2. argv = <<>> \/ Said(Help) # {}
    <3> SUFFICES ASSUME argv # <<>>  PROVE Said(Help) # {}
      OBVIOUS
    <3>1. at < Len(argv) /\ argv[at + 1] \in Help
      BY <1>1 DEF ShowHelp, ReadsArg, Arg
    <3>2. at + 1 \in 1..Len(argv) /\ ~IsValue[at + 1]
      BY <3>1, WordBehind
    <3> QED  BY <3>1, <3>2 DEF Said
  <2> QED  BY <1>0, <2>1, <2>2 DEF OutcomeInv, Writing, Command
<1>2. CASE TakeFlag \/ TakeOption \/ TakePlainWord
  <2>1. stage = "parse" /\ UNCHANGED <<argv, stage, exit, content, told, plan>>
    BY <1>2 DEF TakeFlag, TakeOption, TakePlainWord, ReadsArg, Parsed, run_vars
  <2>2. ~plan.ok /\ content = "blank" /\ told = "none" /\ exit = "none"
    BY <2>1 DEF OutcomeInv
  <2> QED  BY <2>1, <2>2 DEF OutcomeInv
<1>3. CASE RefuseWord \/ Dispatch \/ OpenPort \/ (PrintFails /\ stage # "run")
  <2>1. stage \in {"parse", "load", "explain", "port", "handshake", "plan"}
        /\ UNCHANGED <<argv, at, words, quiet, content, told, plan>>
    BY <1>3 DEF RefuseWord, Dispatch, OpenPort, PrintFails, Prints, ReadsArg, args_vars, Parsed, run_vars
  <2>2. ~plan.ok /\ content = "blank" /\ told = "none" /\ exit = "none"
    BY <2>1 DEF OutcomeInv
  <2>3. \/ exit' \in {"none", "failure", "panic"}
        \/ exit' = "success" /\ at = Len(argv) /\ words # <<>> /\ Command = "ports" /\ stage' = "exited"
    BY <1>3, <2>2 DEF RefuseWord, Dispatch, OpenPort, PrintFails, Exit, Go
  <2>4. stage' # "run" /\ (stage' # "exited" => exit' = "none")
    BY <1>3, <2>1, <2>2 DEF RefuseWord, Dispatch, OpenPort, PrintFails, Exit, Go
  <2> QED  BY <2>1, <2>2, <2>3, <2>4 DEF OutcomeInv, Writing, Command
<1>4. CASE LoadImage \/ Handshake \/ Explain
  <2>1. stage \in {"load", "handshake", "explain"} /\ UNCHANGED <<argv, at, words, quiet, content, told, plan>>
    BY <1>4 DEF LoadImage, Handshake, Explain, args_vars, Parsed, run_vars
  <2>2. ~plan.ok /\ content = "blank" /\ told = "none" /\ exit = "none"
    BY <2>1 DEF OutcomeInv
  <2>3. \/ exit' \in {"none", "failure"}
        \/ exit' = "success" /\ at = Len(argv) /\ words # <<>> /\ Command = "explain" /\ stage' = "exited"
    BY <1>4, <2>2 DEF LoadImage, Handshake, Explain, Exit, Go, StageInv
  <2>4. stage' # "run" /\ (stage' # "exited" => exit' = "none")
    BY <1>4, <2>1, <2>2 DEF LoadImage, Handshake, Explain, Exit, Go
  <2> QED  BY <2>1, <2>2, <2>3, <2>4 DEF OutcomeInv, Writing, Command
<1>5. CASE MakePlan
  <2>1. stage = "plan" /\ UNCHANGED <<argv, at, words, quiet, content, told>>
    BY <1>5 DEF MakePlan, args_vars, run_vars
  <2>2. content = "blank" /\ told = "none" /\ exit = "none"
    BY <2>1 DEF OutcomeInv
  <2>3. \/ plan'.ok /\ stage' = "run" /\ exit' = "none"
        \/ ~plan'.ok /\ stage' = "exited" /\ exit' = "failure"
    BY <1>5, <2>2 DEF MakePlan, Exit, Go
  <2> QED  BY <2>1, <2>2, <2>3 DEF OutcomeInv, Writing, Command
<1>6. CASE RunPlan \/ Aftermath
  <2>1. /\ stage \in {"run", "exited"} /\ plan' = plan
        /\ UNCHANGED <<argv, at, words, quiet, stage, exit>>
        /\ stage = "exited" => plan.ok
    BY <1>6 DEF RunPlan, Aftermath, args_vars
  <2>2. \/ /\ words # <<>> /\ Writing /\ content # "complete" /\ told \in {"none", "indeterminate"}
           /\ content' \in {"partial", "complete"} /\ told' = told
        \/ /\ stage = "run" /\ told = "none" /\ content' = content
           /\ \/ told' = "ok" /\ (words # <<>> /\ Writing => content = "complete")
              \/ told' = "plain" /\ content # "partial"
              \/ told' = "indeterminate" /\ words # <<>> /\ Writing
    BY <1>6 DEF RunPlan, Aftermath, Promise!PromiseNext, Promise!ProgramSome, Promise!Tell, Writing
  <2> QED  BY <1>0, <2>1, <2>2 DEF OutcomeInv, Writing, Command
<1>7. CASE Report
  <2>1. /\ stage = "run" /\ stage' = "exited" /\ told # "none"
        /\ exit' = IF told = "ok" THEN "success" ELSE "failure"
        /\ UNCHANGED <<argv, at, words, quiet, content, told, plan>>
    BY <1>7 DEF Report, Exit, args_vars, Parsed, run_vars
  <2>2. at = Len(argv) /\ words # <<>> /\ told \in {"ok", "plain", "indeterminate"}
    BY <2>1 DEF StageInv, OutcomeInv
  <2> QED  BY <1>0, <2>1, <2>2 DEF OutcomeInv, Writing, Command
<1>8. CASE PrintFails /\ stage = "run"
  <2>1. /\ stage = "run" /\ stage' = "exited" /\ exit' = "panic" /\ (quiet => told = "ok")
        /\ UNCHANGED <<argv, at, words, quiet, content, told, plan>>
    BY <1>8 DEF PrintFails, Prints, Exit, args_vars, Parsed, run_vars
  <2> QED  BY <2>1 DEF OutcomeInv, Writing, Command
<1>9. CASE UNCHANGED cli_vars
  <2>1. UNCHANGED <<argv, at, words, quiet, stage, exit, content, told, plan>>
    BY <1>9 DEF cli_vars, args_vars, run_vars
  <2> QED  BY <1>0, <2>1 DEF OutcomeInv, Writing, Command
<1> QED
  <2>1. \/ ParseArgs \/ Main \/ RunPlan \/ Aftermath \/ PrintFails \/ UNCHANGED cli_vars
    BY DEF CliNext
  <2>2. CASE ParseArgs
    BY <1>1, <1>2, <1>3, <2>2, Zenon DEF ParseArgs
  <2>3. CASE Main
    BY <1>3, <1>4, <1>5, <1>7, <2>3, Zenon DEF Main
  <2>4. CASE PrintFails
    BY <1>3, <1>8, <2>4, Zenon
  <2> QED  BY <1>6, <1>9, <2>1, <2>2, <2>3, <2>4, Zenon

LEMMA CliInvariant == CliSpec => [](ParseInv /\ StageInv /\ OutcomeInv)
<1>1. CliInit => StageInv /\ OutcomeInv
  BY DEF CliInit, StageInv, OutcomeInv, NoPlan, Error
<1> QED
  BY <1>1, InitParses, ParseInvNext, StageInvNext, OutcomeInvNext, PTL DEF CliSpec

\* The first two plain words, once all words are read.
LEMMA PlainWords ==
  ASSUME ParseInv, at = Len(argv)
  PROVE  /\ words # <<>> => PlainAt # {} /\ argv[PlainSaid(1)] = Command
         /\ Len(words) > 1 => Cardinality(PlainAt) > 1 /\ argv[PlainSaid(2)] = words[2]
<1>1. Len(argv) \in Nat /\ words \in Seq(STRING) /\ Len(words) \in Nat
  BY DEF ParseInv, WordsInv
<1>2. PlainAt = PlainAmong(at)
  BY <1>1, ReadToTheEnd
<1>3. Len(words) = Cardinality(PlainAt)
  BY <1>2 DEF ParseInv, WordsInv
<1>4. ASSUME NEW n \in 1..Len(words)
      PROVE  argv[PlainSaid(n)] = words[n] /\ PlainAt # {}
  <2>1. PICK k \in PlainAt : Rank(k) = n - 1
    BY <1>2 DEF ParseInv, WordsInv
  <2>2. words[Rank(k) + 1] = argv[k]
    BY <1>2 DEF ParseInv, WordsInv
  <2>3. PlainSaid(n) = k /\ (n - 1) + 1 = n
    BY <1>1, <2>1, RankIs
  <2> QED  BY <2>1, <2>2, <2>3
<1>5. words # <<>> => 1 \in 1..Len(words)
  BY <1>1
<1>6. Len(words) > 1 => 2 \in 1..Len(words)
  BY <1>1
<1> QED
  BY <1>3, <1>4, <1>5, <1>6 DEF Command

\* For all command lines, images, chips and outcomes of the run: the exit status
\* tells what became of the flash (stcbsl.rs 71-80, 342-351).
THEOREM ExitIsTrue == CliSpec => []ExitTellsTheTruth
<1>1. ParseInv /\ StageInv /\ OutcomeInv => ExitTellsTheTruth
  <2> SUFFICES ASSUME ParseInv, StageInv, OutcomeInv  PROVE ExitTellsTheTruth
    OBVIOUS
  <2>1. at = Len(argv) /\ words # <<>> => argv[PlainSaid(1)] = Command
    BY PlainWords
  <2>2. exit = "success" =>
          \/ argv = <<>> \/ Said(Help) # {}
          \/ argv[PlainSaid(1)] \in {"ports", "explain"}
          \/ told = "ok" /\ (argv[PlainSaid(1)] \in {"write", "flash"} => content = "complete")
    BY <2>1 DEF OutcomeInv, Writing
  <2>3. exit = "failure" /\ content = "partial" => told = "indeterminate"
    BY DEF OutcomeInv
  <2>4. exit = "panic" /\ quiet => content # "partial"
    BY DEF OutcomeInv
  <2> QED  BY <2>2, <2>3, <2>4 DEF ExitTellsTheTruth
<1> QED
  BY <1>1, CliInvariant, PTL

\* For all command lines: what goes to the chip is what they ask for, whatever
\* stands where (stcbsl.rs 97-216, 304-308).
THEOREM JobIsAskedFor == CliSpec => []TheJobIsTheOneAskedFor
<1>1. ParseInv /\ StageInv => TheJobIsTheOneAskedFor
  <2> SUFFICES ASSUME ParseInv, StageInv, stage \in {"handshake", "plan", "run"}
               PROVE  TheJobIsTheOneAskedFor
    BY DEF TheJobIsTheOneAskedFor
  <2> DEFINE command == argv[PlainSaid(1)]
  <2>1. /\ at = Len(argv) /\ Len(argv) \in Nat /\ words # <<>> /\ settings["--port"] # None
        /\ Command \in {"identify", "info", "erase"} \/ (Writing /\ Loaded)
    BY DEF StageInv, ParseInv
  <2>2. PlainAt # {} /\ command = Command
    BY <2>1, PlainWords
  <2>3. \A s \in Settings : settings[s] = SettingSaid(s)
    BY <2>1, ReadToTheEnd DEF ParseInv, SettingsInv
  <2>4. \A s \in Settings : Said({s}) \subseteq Among(Names(s), at)
    BY <2>1 DEF Said, Among, Tokens, Names, Name, Valued, Settings
  <2>5. \A s \in Settings : Said({s}) # {} => Takes(s, settings[s])
    BY <2>4 DEF ParseInv, SettingsInv
  <2>6. Said(Help) = {} /\ write_options = OptionsSaid
    BY <2>1, ReadToTheEnd DEF ParseInv
  <2>7. CASE Writing /\ Loaded
    <3>1. Cardinality(PlainAt) > 1 /\ argv[PlainSaid(2)] = words[2]
      BY <2>1, <2>7, PlainWords DEF Loaded
    <3>2. Job = [kind |-> "Flash", image |-> image, write_options |-> write_options]
      BY <2>7 DEF Job, Writing
    <3>3. command \in {"write", "flash"}
      BY <2>2, <2>7 DEF Writing
    <3> HIDE DEF command
    <3> QED  BY <2>1, <2>2, <2>3, <2>5, <2>6, <2>7, <3>1, <3>2, <3>3
             DEF TheJobIsTheOneAskedFor, Loaded, command
  <2>8. CASE Command = "erase"
    <3>1. Job = IF settings["--blocks"] = None THEN [kind |-> "EraseAll"]
                ELSE [kind |-> "Erase", blocks |-> NumberOf[settings["--blocks"]]]
      BY <2>8 DEF Job
    <3>2. "--blocks" \in Settings
      BY DEF Settings
    <3>3. Said({"--blocks"}) = Among(Names("--blocks"), at)
      BY <2>1 DEF Said, Among, Tokens, Names, Name, Valued, Settings
    <3>4. CASE Said({"--blocks"}) = {}
      <4>1. settings["--blocks"] = Default["--blocks"]
        BY <3>2, <3>3, <3>4 DEF ParseInv, SettingsInv, SettingRead
      <4>2. settings["--blocks"] = None
        BY <4>1 DEF Default, Settings, None
      <4> QED  BY <2>1, <2>2, <2>3, <2>5, <2>6, <2>8, <3>1, <3>4, <4>2 DEF TheJobIsTheOneAskedFor
    <3>5. CASE Said({"--blocks"}) # {}
      <4>1. settings["--blocks"] \in DOMAIN NumberOf
        BY <2>5, <3>2, <3>5 DEF Takes
      <4>2. settings["--blocks"] # None
        BY <4>1, FlasherAssumption
      <4> QED  BY <2>1, <2>2, <2>3, <2>5, <2>6, <2>8, <3>1, <3>2, <3>5, <4>2 DEF TheJobIsTheOneAskedFor
    <3> QED  BY <3>4, <3>5
  <2>9. CASE Command \in {"identify", "info"}
    <3>1. Job = [kind |-> "Identify"]
      BY <2>9 DEF Job
    <3> QED  BY <2>1, <2>2, <2>3, <2>5, <2>6, <2>9, <3>1 DEF TheJobIsTheOneAskedFor
  <2> QED  BY <2>1, <2>7, <2>8, <2>9
<1> QED
  BY <1>1, CliInvariant, PTL

-----------------------------------------------------------------------------
(* What `explain` prints are the write steps of the plans.                 *)

Joined(u, s, t) ==
  /\ Len(u) = Len(s) + Len(t)
  /\ \A k \in 1..Len(u) : u[k] = IF k <= Len(s) THEN s[k] ELSE t[k - Len(s)]

LEMMA JoinIs ==
  ASSUME NEW S, NEW s \in Seq(S), NEW t \in Seq(S)
  PROVE  s \o t \in Seq(S) /\ Joined(s \o t, s, t)
<1>1. /\ s \o t \in Seq(S) /\ Len(s \o t) = Len(s) + Len(t)
      /\ \A k \in 1..(Len(s) + Len(t)) : (s \o t)[k] = IF k <= Len(s) THEN s[k] ELSE t[k - Len(s)]
  BY ConcatProperties
<1> QED
  BY <1>1 DEF Joined

WritePlaces(steps)  == {k \in DOMAIN steps : steps[k].phase = "Write"}
WriteRank(steps, k) == Cardinality({l \in WritePlaces(steps) : l <= k})

WritesFrom(steps, f, W) == /\ WritePlaces(steps) = (f + 1)..(f + Len(W))
                           /\ \A k \in 1..Len(W) : steps[f + k] = W[k]

WritesAre(steps, W) ==
  /\ Cardinality(WritePlaces(steps)) = Len(W)
  /\ \A k \in WritePlaces(steps) : /\ WriteRank(steps, k) \in 1..Len(W)
                                   /\ steps[k] = W[WriteRank(steps, k)]

AreShown(blocks, W) ==
  /\ Len(blocks) = Len(W)
  /\ \A k \in 1..Len(W) : blocks[k] = [addr |-> W[k].write_addr, ack |-> W[k].expect.sum]

\* A plan is strung together from steps of which only those of W write.
LEMMA WritesStand ==
  ASSUME NEW N, NEW V, NEW F \in Seq(N), NEW W \in Seq(V), NEW O \in Seq(N), NEW R \in Seq(N),
         \A x \in N : x.phase # "Write", \A x \in V : x.phase = "Write"
  PROVE  WritesFrom(F \o (W \o O) \o R, Len(F), W)
<1> DEFINE steps == F \o (W \o O) \o R
           S  == N \cup V
           WO == W \o O
           A  == F \o WO
<1>1. F \in Seq(S) /\ W \in Seq(S) /\ O \in Seq(S) /\ R \in Seq(S)
  OBVIOUS
<1> HIDE DEF S
<1>2. WO \in Seq(S) /\ Joined(WO, W, O)
  BY <1>1, JoinIs
<1> HIDE DEF WO
<1>3. A \in Seq(S) /\ Joined(A, F, WO)
  BY <1>1, <1>2, JoinIs
<1> HIDE DEF A
<1>4. steps = A \o R
  BY DEF A, WO
<1>5. steps \in Seq(S) /\ Joined(steps, A, R)
  <2>1. A \o R \in Seq(S) /\ Joined(A \o R, A, R)
    BY <1>1, <1>3, JoinIs
  <2> HIDE DEF steps
  <2> QED  BY <2>1, <1>4
<1> HIDE DEF steps
<1>6. /\ Len(WO) = Len(W) + Len(O)
      /\ \A k \in 1..Len(WO) : WO[k] = IF k <= Len(W) THEN W[k] ELSE O[k - Len(W)]
  BY <1>2 DEF Joined
<1>7. /\ Len(A) = Len(F) + Len(WO)
      /\ \A k \in 1..Len(A) : A[k] = IF k <= Len(F) THEN F[k] ELSE WO[k - Len(F)]
  BY <1>3 DEF Joined
<1>8. /\ Len(steps) = Len(A) + Len(R)
      /\ \A k \in 1..Len(steps) : steps[k] = IF k <= Len(A) THEN A[k] ELSE R[k - Len(A)]
  BY <1>5 DEF Joined
<1> DEFINE f == Len(F)  m == Len(W)  o == Len(O)  n == Len(R)
<1>9. f \in Nat /\ m \in Nat /\ o \in Nat /\ n \in Nat
  OBVIOUS
<1>10. Len(A) = f + m + o /\ Len(WO) = m + o /\ Len(steps) = f + m + o + n
  BY <1>6, <1>7, <1>8, <1>9
<1>11. DOMAIN steps = 1..(f + m + o + n)
  BY <1>5, <1>10
<1>12. /\ \A k \in 1..f : F[k] \in N
       /\ \A k \in 1..m : W[k] \in V
       /\ \A k \in 1..o : O[k] \in N
       /\ \A k \in 1..n : R[k] \in N
  OBVIOUS
<1>13. \A k \in 1..f : steps[k] = F[k]
  <2> TAKE k \in 1..f
  <2>1. k \in 1..Len(steps) /\ k <= Len(A) /\ k \in 1..Len(A) /\ k <= Len(F)
    BY <1>9, <1>10
  <2> QED  BY <1>7, <1>8, <2>1
<1>14. \A k \in 1..m : steps[f + k] = W[k]
  <2> TAKE k \in 1..m
  <2>1. /\ f + k \in 1..Len(steps) /\ f + k \in 1..Len(A) /\ f + k <= Len(A) /\ ~(f + k <= Len(F))
        /\ (f + k) - Len(F) = k /\ k \in 1..Len(WO) /\ k <= Len(W)
    BY <1>9, <1>10
  <2>2. steps[f + k] = A[f + k] /\ A[f + k] = WO[k] /\ WO[k] = W[k]
    BY <1>6, <1>7, <1>8, <2>1
  <2> QED  BY <2>2
<1>15. \A k \in 1..o : steps[f + m + k] = O[k]
  <2> TAKE k \in 1..o
  <2>1. /\ f + m + k \in 1..Len(steps) /\ f + m + k \in 1..Len(A) /\ f + m + k <= Len(A)
        /\ ~(f + m + k <= Len(F)) /\ (f + m + k) - Len(F) = m + k
        /\ m + k \in 1..Len(WO) /\ ~(m + k <= Len(W)) /\ (m + k) - Len(W) = k
    BY <1>9, <1>10
  <2>2. steps[f + m + k] = A[f + m + k] /\ A[f + m + k] = WO[m + k] /\ WO[m + k] = O[k]
    BY <1>6, <1>7, <1>8, <2>1
  <2> QED  BY <2>2
<1>16. \A k \in 1..n : steps[f + m + o + k] = R[k]
  <2> TAKE k \in 1..n
  <2>1. f + m + o + k \in 1..Len(steps) /\ ~(f + m + o + k <= Len(A)) /\ (f + m + o + k) - Len(A) = k
    BY <1>9, <1>10
  <2> QED  BY <1>8, <2>1
<1> HIDE DEF f, m, o, n
<1>17. \A i \in DOMAIN steps : \/ i \in 1..f
                               \/ i \in (f + 1)..(f + m) /\ i - f \in 1..m /\ f + (i - f) = i
                               \/ i - (f + m) \in 1..o /\ f + m + (i - (f + m)) = i
                               \/ i - (f + m + o) \in 1..n /\ f + m + o + (i - (f + m + o)) = i
  <2> TAKE i \in DOMAIN steps
  <2>1. i \in 1..(f + m + o + n)
    BY <1>11
  <2>2. CASE i <= f
    BY <1>9, <2>1, <2>2
  <2>3. CASE f < i /\ i <= f + m
    BY <1>9, <2>1, <2>3
  <2>4. CASE f + m < i /\ i <= f + m + o
    <3>1. i - (f + m) \in 1..o
      BY <1>9, <2>1, <2>4
    <3>2. f + m + (i - (f + m)) = i
      BY <1>9, <2>1
    <3> QED  BY <3>1, <3>2
  <2>5. CASE f + m + o < i
    <3>1. i - (f + m + o) \in 1..n
      BY <1>9, <2>1, <2>5
    <3>2. f + m + o + (i - (f + m + o)) = i
      BY <1>9, <2>1
    <3> QED  BY <3>1, <3>2
  <2> QED  BY <1>9, <2>1, <2>2, <2>3, <2>4, <2>5
<1>18. ASSUME NEW i \in DOMAIN steps
       PROVE  steps[i].phase = "Write" <=> i \in (f + 1)..(f + m)
  <2>1. CASE i \in (f + 1)..(f + m)
    <3>1. i - f \in 1..m /\ f + (i - f) = i
      BY <1>9, <2>1
    <3> QED  BY <1>12, <1>14, <2>1, <3>1
  <2>2. CASE i \notin (f + 1)..(f + m)
    <3>1. steps[i] \in N
      <4>1. CASE i \in 1..f
        BY <1>12, <1>13, <4>1
      <4>2. CASE i - (f + m) \in 1..o /\ f + m + (i - (f + m)) = i
        <5>1. ASSUME NEW j \in 1..o, f + m + j = i
              PROVE  steps[i] \in N
          <6>1. steps[f + m + j] = O[j]
            BY <1>15
          <6>2. O[j] \in N
            BY <1>12
          <6> QED  BY <5>1, <6>1, <6>2
        <5> QED  BY <4>2, <5>1
      <4>3. CASE i - (f + m + o) \in 1..n /\ f + m + o + (i - (f + m + o)) = i
        <5>1. ASSUME NEW j \in 1..n, f + m + o + j = i
              PROVE  steps[i] \in N
          <6>1. steps[f + m + o + j] = R[j]
            BY <1>16
          <6>2. R[j] \in N
            BY <1>12
          <6> QED  BY <5>1, <6>1, <6>2
        <5> QED  BY <4>3, <5>1
      <4> QED  BY <1>17, <2>2, <4>1, <4>2, <4>3
    <3> QED  BY <2>2, <3>1
  <2> QED  BY <2>1, <2>2
<1>19. (f + 1)..(f + m) \subseteq DOMAIN steps
  BY <1>9, <1>11
<1> QED
  BY <1>14, <1>18, <1>19 DEF f, m, steps, WritesFrom, WritePlaces

\* The write steps of every plan that flashes, counted from the first.
LEMMA WritesOfThePlan ==
  ASSUME NEW i, NEW j, NEW o, j.kind = "Flash", Plan(i, j, o).ok
  PROVE  /\ EraseBlocksFor(Len(j.image)) \in Nat
         /\ WritesAre(Plan(i, j, o).value, WriteSteps(j.image, EraseBlocksFor(Len(j.image)), o))
<1> DEFINE reload == TimerReload(i.measured_hz, o.transfer_baud)
           c  == EraseBlocksFor(Len(j.image))
           w  == (c * EraseBlock) \div WriteBlock
           B  == BaudSteps(reload.value, o)
           L  == LinkTestSteps(i, o)
           E  == << EraseStep(c, o) >>
           W  == WriteSteps(j.image, c, o)
           O  == IF j.write_options THEN OptionsSteps(i, o) ELSE <<>>
           R  == << RunStep(o) >>
           N  == {B[1], B[2], E[1], OptionsSteps(i, o)[1], R[1]} \cup {L[k] : k \in 1..LinkTestRepeats}
           V  == {W[k] : k \in 1..w}
           steps  == Plan(i, j, o).value
           writes == WritePlaces(steps)
<1>1. c \in 1..255 /\ steps = B \o L \o E \o (W \o O) \o R
  BY DEF Plan, Ok, Error, EraseCount
<1>2. w \in Nat
  <2> HIDE DEF c
  <2>1. c * EraseBlock \in Nat
    BY <1>1, SizesAssumption
  <2> QED  BY <2>1, SizesAssumption, SMT
<1>3. \A x \in N : x.phase # "Write"
  <2>1. \A k \in 1..LinkTestRepeats : L[k].phase # "Write"
    BY DEF LinkTestSteps, PlainStep
  <2>2. B[1].phase # "Write" /\ B[2].phase # "Write" /\ E[1].phase # "Write"
    BY DEF BaudSteps, EraseStep, PlainStep
  <2>3. OptionsSteps(i, o)[1].phase # "Write" /\ R[1].phase # "Write"
    BY DEF OptionsSteps, RunStep, PlainStep
  <2> HIDE DEF B, L, E, R
  <2> QED  BY <2>1, <2>2, <2>3
<1>4. W = [k \in 1..w |-> W[k]] /\ \A k \in 1..w : W[k].phase = "Write"
  BY DEF WriteSteps, PlainStep
<1>5. B \in Seq(N) /\ E \in Seq(N) /\ R \in Seq(N) /\ O \in Seq(N)
  <2>1. B = <<B[1], B[2]>> /\ OptionsSteps(i, o) = << OptionsSteps(i, o)[1] >>
    BY DEF BaudSteps, OptionsSteps
  <2>2. E = <<E[1]>> /\ R = <<R[1]>>
    OBVIOUS
  <2>3. {B[1], B[2], E[1], OptionsSteps(i, o)[1], R[1]} \subseteq N
    OBVIOUS
  <2>4. O = <<>> \/ O = << OptionsSteps(i, o)[1] >>
    BY <2>1
  <2> HIDE DEF B, E, R, N, O
  <2>5. \A x, y \in N : <<x>> \in Seq(N) /\ <<x, y>> \in Seq(N) /\ <<>> \in Seq(N)
    OBVIOUS
  <2>6. B \in Seq(N)
    BY <2>1, <2>3, <2>5
  <2>7. E \in Seq(N) /\ R \in Seq(N)
    BY <2>2, <2>3, <2>5
  <2>8. O \in Seq(N)
    BY <2>3, <2>4, <2>5
  <2> QED  BY <2>6, <2>7, <2>8
<1>6. L \in Seq(N)
  <2>1. L = [k \in 1..LinkTestRepeats |-> L[k]]
    BY DEF LinkTestSteps
  <2>2. \A k \in 1..LinkTestRepeats : L[k] \in N
    OBVIOUS
  <2> HIDE DEF L, N
  <2> QED  BY <2>1, <2>2, SizesAssumption
<1>7. W \in Seq(V) /\ Len(W) = w
  <2> HIDE DEF W, w
  <2> QED  BY <1>2, <1>4
<1>8. \A x \in V : x.phase = "Write"
  <2> HIDE DEF W, w
  <2> QED  BY <1>4
<1> HIDE DEF B, L, E, W, O, R, N, V, w, c, steps
<1> DEFINE F == B \o L \o E
           f == Len(F)
<1>9. F \in Seq(N) /\ f \in Nat
  BY <1>5, <1>6
<1>10. steps = F \o (W \o O) \o R
  BY <1>1
<1> HIDE DEF F
<1>11. writes = (f + 1)..(f + w) /\ \A k \in 1..w : steps[f + k] = W[k]
  <2>1. WritesFrom(steps, Len(F), W)
    BY <1>3, <1>5, <1>7, <1>8, <1>9, <1>10, WritesStand
  <2> QED  BY <1>7, <2>1 DEF WritesFrom
<1> HIDE DEF f, writes
<1>12. \A k \in f..(f + w) : Cardinality((f + 1)..k) = k - f
  <2> TAKE k \in f..(f + w)
  <2>1. f + 1 \in Int /\ k \in Int /\ k >= f
    BY <1>2, <1>9
  <2>2. Cardinality((f + 1)..k) = IF f + 1 > k THEN 0 ELSE k - (f + 1) + 1
    BY <2>1, FS_Interval
  <2> QED  BY <1>9, <2>1, <2>2
<1>13. Cardinality(writes) = w
  BY <1>2, <1>9, <1>11, <1>12
<1>14. ASSUME NEW k \in writes
       PROVE  WriteRank(steps, k) \in 1..w /\ steps[k] = W[WriteRank(steps, k)]
  <2>1. k \in f..(f + w) /\ k - f \in 1..w /\ f + (k - f) = k
    BY <1>2, <1>9, <1>11
  <2>2. {l \in writes : l <= k} = (f + 1)..k
    BY <1>2, <1>9, <1>11, <2>1
  <2>3. WriteRank(steps, k) = k - f
    BY <1>12, <2>1, <2>2 DEF WriteRank, writes
  <2> QED  BY <1>11, <2>1, <2>3
<1>15. c \in Nat
  BY <1>1
<1> QED
  BY <1>2, <1>7, <1>13, <1>14, <1>15 DEF WritesAre, steps, writes, W, c

ShownInv == shown # <<>> => stage = "exited" /\ shown = BlocksShown(image)

LEMMA ShownInvNext == ShownInv /\ [CliNext]_cli_vars => ShownInv'
<1> SUFFICES ASSUME ShownInv, [CliNext]_cli_vars  PROVE ShownInv'
  OBVIOUS
<1>1. CASE Explain
  BY <1>1 DEF Explain, Exit, ShownInv, BlocksShown
<1>2. CASE ~Explain
  <2>1. shown' = shown
    BY <1>2 DEF CliNext, ParseArgs, Main, ShowHelp, TakeFlag, TakeOption, RefuseWord, TakePlainWord,
                Dispatch, LoadImage, OpenPort, Handshake, MakePlan, Report, RunPlan, Aftermath, PrintFails,
                Parsed, cli_vars
  <2>2. stage = "exited" => stage' = "exited" /\ image' = image
    BY <1>2 DEF CliNext, ParseArgs, Main, ShowHelp, TakeFlag, TakeOption, RefuseWord, TakePlainWord,
                Dispatch, LoadImage, OpenPort, Handshake, MakePlan, Report, RunPlan, Aftermath, PrintFails,
                Prints, ReadsArg, cli_vars
  <2> QED  BY <2>1, <2>2 DEF ShownInv, BlocksShown
<1> QED
  BY <1>1, <1>2

LEMMA ShownBlocks ==
  ASSUME NEW bytes, NEW o, EraseBlocksFor(Len(bytes)) \in Nat
  PROVE  AreShown(BlocksShown(bytes), WriteSteps(bytes, EraseBlocksFor(Len(bytes)), o))
<1> DEFINE c == EraseBlocksFor(Len(bytes))
           W == WriteSteps(bytes, c, o)
           b == BlocksShown(bytes)
           w == (c * EraseBlock) \div WriteBlock
<1>1. w \in Nat
  <2>0. c \in Nat
    OBVIOUS
  <2> HIDE DEF c
  <2>1. c * EraseBlock \in Nat
    BY <2>0, SizesAssumption
  <2> QED  BY <2>1, SizesAssumption, SMT
<1>2. W = [k \in 1..w |-> W[k]] /\ b = [k \in 1..w |-> b[k]]
  BY DEF WriteSteps, BlocksShown
<1>3. \A k \in 1..w : b[k] = [addr |-> W[k].write_addr, ack |-> W[k].expect.sum]
  BY DEF WriteSteps, BlocksShown, PlainStep, ExpectBlockAck
<1> HIDE DEF W, b, w
<1>4. Len(W) = w /\ Len(b) = w
  BY <1>1, <1>2
<1> QED
  BY <1>3, <1>4 DEF AreShown, W, b, c

\* For all images and chips: what `explain` prints without a chip is what `write`
\* sends to any it can be planned for (stcbsl.rs 241-258).
THEOREM ExplainIsTrue == CliSpec => []ExplainShowsTheWrites
<1>1. CliInit => ShownInv
  BY DEF CliInit, ShownInv
<1>2. ShownInv => ExplainShowsTheWrites
  <2> SUFFICES ASSUME ShownInv  PROVE ExplainShowsTheWrites
    OBVIOUS
  <2> DEFINE job == [kind |-> "Flash", image |-> image, write_options |-> FALSE]
             o   == [Opts EXCEPT !.transfer_baud = 115200]
             W   == WriteSteps(image, EraseBlocksFor(Len(image)), o)
  <2>1. ASSUME NEW i, FlashPlan(i).ok, shown # <<>>
        PROVE  LET steps == FlashPlan(i).value
               IN  /\ Len(shown) = Cardinality(WritePlaces(steps))
                   /\ \A k \in WritePlaces(steps) :
                        shown[WriteRank(steps, k)] = [addr |-> steps[k].write_addr,
                                                      ack  |-> steps[k].expect.sum]
    <3> DEFINE steps == FlashPlan(i).value
    <3>1. /\ FlashPlan(i) = Plan(i, job, o)
          /\ job.kind = "Flash" /\ job.image = image /\ shown = BlocksShown(image)
      BY <2>1 DEF ShownInv, FlashPlan
    <3> HIDE DEF job, o
    <3>2. EraseBlocksFor(Len(image)) \in Nat /\ WritesAre(steps, W)
      BY <2>1, <3>1, WritesOfThePlan
    <3>3. AreShown(shown, W)
      BY <3>1, <3>2, ShownBlocks
    <3> HIDE DEF W, steps
    <3>4. /\ Len(shown) = Cardinality(WritePlaces(steps))
          /\ \A k \in WritePlaces(steps) :
               shown[WriteRank(steps, k)] = [addr |-> steps[k].write_addr, ack |-> steps[k].expect.sum]
      BY <3>2, <3>3 DEF WritesAre, AreShown
    <3> QED
      BY <3>4 DEF steps
  <2> QED
    BY <2>1 DEF ExplainShowsTheWrites, WritePlaces, WriteRank
<1> QED
  BY <1>1, <1>2, ShownInvNext, PTL DEF CliSpec
==============================================================================
