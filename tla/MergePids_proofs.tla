--------------------------- MODULE MergePids_proofs ---------------------------
(***************************************************************************)
(* Proofs about MergePids, for every sequence of files: what is printed is *)
(* what the files say, and the script bails out only over a contradiction. *)
(***************************************************************************)
EXTENDS MergePids, TLAPS

Texts    == DOMAIN NumberOf
ModeMaps == Dicts(Texts, Pidmaps)

\* What one mode of a dictionary says.
ModeSays(mode) == {<< Key(mode), Key(pid), Val(pid) >> : pid \in Range(Val(mode))}

-----------------------------------------------------------------------------
(***************************************************************************)
(* Dictionaries.                                                           *)
(***************************************************************************)

LEMMA InModeSays ==
  ASSUME NEW mode, NEW x
  PROVE  x \in ModeSays(mode) <=>
           \E j \in DOMAIN Val(mode) :
             x = << Key(mode), Key(Val(mode)[j]), Val(Val(mode)[j]) >>
BY DEF ModeSays, Range

LEMMA InSays ==
  ASSUME NEW modes, NEW x
  PROVE  x \in Says(modes) <=> \E k \in DOMAIN modes : x \in ModeSays(modes[k])
BY DEF Says, ModeSays, Range

LEMMA InKeys ==
  ASSUME NEW S, NEW dict \in Seq(S), NEW key
  PROVE  key \in Keys(dict) <=> \E k \in DOMAIN dict : Key(dict[k]) = key
BY DEF Keys

LEMMA IsDict ==
  ASSUME NEW K, NEW V, NEW dict
  PROVE  dict \in Dicts(K, V) <=> dict \in Seq(K \X V) /\ SaysOnce(dict)
BY DEF Dicts

\* The pairs of a dictionary.
LEMMA PairsOf ==
  ASSUME NEW K, NEW V, NEW dict \in Dicts(K, V)
  PROVE  /\ dict \in Seq(K \X V) /\ DOMAIN dict = 1..Len(dict) /\ Len(dict) \in Nat
         /\ \A k \in DOMAIN dict : Key(dict[k]) \in K /\ Val(dict[k]) \in V
         /\ \A j, k \in DOMAIN dict : Key(dict[j]) = Key(dict[k]) => j = k
<1>1. dict \in Seq(K \X V) /\ SaysOnce(dict)
  BY IsDict
<1>2. ASSUME NEW k \in DOMAIN dict PROVE dict[k] \in K \X V
  BY <1>1
<1>. QED
  BY <1>1, <1>2 DEF Key, Val, SaysOnce

\* A key that a dictionary has is at one place.
LEMMA PlaceOfKey ==
  ASSUME NEW K, NEW V, NEW dict \in Dicts(K, V), NEW key \in Keys(dict)
  PROVE  PlaceOf(dict, key) \in DOMAIN dict /\ Key(dict[PlaceOf(dict, key)]) = key
<1>1. \E k \in DOMAIN dict : Key(dict[k]) = key
  <2>1. dict \in Seq(K \X V)
    BY PairsOf
  <2>. QED
    BY <2>1, InKeys
<1>. QED
  BY <1>1 DEF PlaceOf

\* One more pair, with a key of its own.
OneLonger(longer, dict, pair) ==
  /\ DOMAIN longer = 1..(Len(dict) + 1)
  /\ \A k \in DOMAIN dict : longer[k] = dict[k]
  /\ longer[Len(dict) + 1] = pair

LEMMA DictAppend ==
  ASSUME NEW K, NEW V, NEW dict \in Dicts(K, V), NEW key \in K, NEW val \in V,
         key \notin Keys(dict), NEW longer, longer = Append(dict, << key, val >>)
  PROVE  longer \in Dicts(K, V) /\ OneLonger(longer, dict, << key, val >>)
<1>1. dict \in Seq(K \X V) /\ << key, val >> \in K \X V
  BY PairsOf
<1>2. /\ longer \in Seq(K \X V) /\ DOMAIN longer = 1..(Len(dict) + 1)
      /\ \A k \in DOMAIN dict : longer[k] = dict[k]
      /\ longer[Len(dict) + 1] = << key, val >>
      /\ Len(longer) = Len(dict) + 1 /\ Len(dict) \in Nat /\ DOMAIN dict = 1..Len(dict)
  BY <1>1
<1>3. \A k \in DOMAIN dict : Key(dict[k]) # key
  BY <1>1, InKeys
<1>4. /\ Key(<< key, val >>) = key
      /\ \A j, k \in DOMAIN dict : Key(dict[j]) = Key(dict[k]) => j = k
  BY PairsOf DEF Key
<1>5. ASSUME NEW j \in 1..Len(longer), NEW k \in 1..Len(longer), Key(longer[j]) = Key(longer[k])
      PROVE  j = k
  <2>1. j \in DOMAIN dict \/ j = Len(dict) + 1
    BY <1>2
  <2>2. k \in DOMAIN dict \/ k = Len(dict) + 1
    BY <1>2
  <2>. QED
    BY <1>2, <1>3, <1>4, <1>5, <2>1, <2>2
<1>. QED
  BY <1>2, <1>5, IsDict DEF SaysOnce, OneLonger

\* Two dictionaries with different keys, behind each other.
PairsOfBoth(both, a, b) ==
  \A x : (\E j \in DOMAIN both : x = both[j]) <=>
        (\E j \in DOMAIN a : x = a[j]) \/ (\E j \in DOMAIN b : x = b[j])

LEMMA DictConcat ==
  ASSUME NEW K, NEW V, NEW a \in Dicts(K, V), NEW b \in Dicts(K, V),
         Keys(a) \cap Keys(b) = {}, NEW both, both = a \o b
  PROVE  both \in Dicts(K, V) /\ PairsOfBoth(both, a, b)
<1>1. a \in Seq(K \X V) /\ b \in Seq(K \X V)
  BY PairsOf
<1>. DEFINE la == Len(a)
            lb == Len(b)
<1>2. /\ both \in Seq(K \X V) /\ Len(both) = la + lb /\ DOMAIN both = 1..(la + lb)
      /\ la \in Nat /\ lb \in Nat /\ DOMAIN a = 1..la /\ DOMAIN b = 1..lb
      /\ \A k \in 1..la : both[k] = a[k]
      /\ \A k \in 1..lb : both[la + k] = b[k]
  BY <1>1
<1>. HIDE DEF la, lb
<1>3. ASSUME NEW k \in DOMAIN both
      PROVE  k \in 1..la \/ (k - la \in 1..lb /\ both[k] = b[k - la])
  <2>1. k \in Nat /\ k >= 1 /\ k <= la + lb
    BY <1>2
  <2>2. CASE k > la
    <3>1. k - la \in 1..lb /\ la + (k - la) = k
      BY <1>2, <2>1, <2>2
    <3>. QED
      BY <1>2, <3>1
  <2>. QED
    BY <1>2, <2>1, <2>2
<1>4. /\ \A j \in 1..la, k \in 1..lb : Key(a[j]) # Key(b[k])
      /\ \A j, k \in DOMAIN a : Key(a[j]) = Key(a[k]) => j = k
      /\ \A j, k \in DOMAIN b : Key(b[j]) = Key(b[k]) => j = k
  <2>1. \A j \in 1..la, k \in 1..lb : Key(a[j]) # Key(b[k])
    BY <1>1, <1>2, InKeys
  <2>. QED
    BY <2>1, PairsOf
<1>5. ASSUME NEW j \in DOMAIN both, NEW k \in DOMAIN both, Key(both[j]) = Key(both[k])
      PROVE  j = k
  <2>1. CASE j \in 1..la /\ k \in 1..la
    BY <1>2, <1>4, <1>5, <2>1
  <2>2. CASE j - la \in 1..lb /\ k - la \in 1..lb /\ both[j] = b[j - la] /\ both[k] = b[k - la]
    <3>1. j - la = k - la
      BY <1>2, <1>4, <1>5, <2>2
    <3>. QED
      BY <1>2, <3>1
  <2>. QED
    BY <1>2, <1>3, <1>4, <1>5, <2>1, <2>2
<1>6. both \in Dicts(K, V)
  BY <1>2, <1>5, IsDict DEF SaysOnce
<1>7. ASSUME NEW x PROVE (\E j \in DOMAIN both : x = both[j]) <=>
                         (\E j \in DOMAIN a : x = a[j]) \/ (\E j \in DOMAIN b : x = b[j])
  <2>1. ASSUME NEW j \in DOMAIN b PROVE la + j \in DOMAIN both /\ both[la + j] = b[j]
    BY <1>2
  <2>2. ASSUME NEW j \in DOMAIN a PROVE j \in DOMAIN both /\ both[j] = a[j]
    BY <1>2
  <2>3. ASSUME NEW j \in DOMAIN both, x = both[j]
        PROVE  (\E k \in DOMAIN a : x = a[k]) \/ (\E k \in DOMAIN b : x = b[k])
    BY <1>2, <1>3, <2>3
  <2>. QED
    BY <2>1, <2>2, <2>3
<1>. QED
  BY <1>6, <1>7 DEF PairsOfBoth

\* A mode says the same with its pairs in one place or in two.
LEMMA SaysConcat ==
  ASSUME NEW t, NEW a \in Pidmaps, NEW b \in Pidmaps, Keys(a) \cap Keys(b) = {}
  PROVE  /\ a \o b \in Pidmaps
         /\ \A x : x \in ModeSays(<< t, a \o b >>) <=>
                   x \in ModeSays(<< t, a >>) \/ x \in ModeSays(<< t, b >>)
<1>. DEFINE both == a \o b
<1>1. /\ both \in Pidmaps
      /\ \A y : (\E j \in DOMAIN both : y = both[j]) <=>
                (\E j \in DOMAIN a : y = a[j]) \/ (\E j \in DOMAIN b : y = b[j])
  <2>. DEFINE K == DOMAIN NumberOf
  <2>1. a \in Dicts(K, Descriptions) /\ b \in Dicts(K, Descriptions)
    BY DEF Pidmaps
  <2>2. both = a \o b
    OBVIOUS
  <2>. HIDE DEF both, K
  <2>3. both \in Dicts(K, Descriptions)
    BY <2>1, <2>2, DictConcat
  <2>4. PairsOfBoth(both, a, b)
    BY <2>1, <2>2, DictConcat
  <2>. QED
    BY <2>3, <2>4 DEF Pidmaps, K, PairsOfBoth
<1>. HIDE DEF both
<1>2. ASSUME NEW x, NEW dict
      PROVE  x \in ModeSays(<< t, dict >>) <=>
               \E j \in DOMAIN dict : x = << t, Key(dict[j]), Val(dict[j]) >>
  <2>1. Key(<< t, dict >>) = t /\ Val(<< t, dict >>) = dict
    BY DEF Key, Val
  <2>. QED
    BY <2>1, InModeSays
<1>3. ASSUME NEW x
      PROVE  x \in ModeSays(<< t, both >>) <=>
               x \in ModeSays(<< t, a >>) \/ x \in ModeSays(<< t, b >>)
  <2>1. (\E j \in DOMAIN both : x = << t, Key(both[j]), Val(both[j]) >>) <=>
          \/ \E j \in DOMAIN a : x = << t, Key(a[j]), Val(a[j]) >>
          \/ \E j \in DOMAIN b : x = << t, Key(b[j]), Val(b[j]) >>
    BY <1>1
  <2>. QED
    BY <1>2, <2>1
<1>. QED
  BY <1>1, <1>3 DEF both

\* What merge_pidmap() makes of the PIDs so far: they say what they said, and
\* what the mode says.
Extends(new, old, mode) ==
  /\ new \in ModeMaps
  /\ \A x : x \in Says(new) <=> x \in Says(old) \/ x \in ModeSays(mode)
  /\ \A t : t \in Keys(new) <=> t \in Keys(old) \/ t = Key(mode)

LEMMA AppendExtends ==
  ASSUME NEW old \in ModeMaps, NEW t \in Texts, NEW pids \in Pidmaps, t \notin Keys(old)
  PROVE  Extends(Append(old, << t, pids >>), old, << t, pids >>)
<1>. DEFINE new == Append(old, << t, pids >>)
            len == Len(old)
<1>1. /\ new \in ModeMaps /\ DOMAIN new = 1..(len + 1)
      /\ \A k \in DOMAIN old : new[k] = old[k]
      /\ new[len + 1] = << t, pids >>
  <2>1. old \in Dicts(Texts, Pidmaps) /\ new = Append(old, << t, pids >>)
    BY DEF ModeMaps
  <2>. HIDE DEF new
  <2>2. new \in Dicts(Texts, Pidmaps) /\ OneLonger(new, old, << t, pids >>)
    BY <2>1, DictAppend
  <2>. QED
    BY <2>2 DEF ModeMaps, OneLonger
<1>2. DOMAIN old = 1..len /\ len \in Nat
  BY PairsOf DEF ModeMaps
<1>. HIDE DEF new, len
<1>3. \A k : k \in DOMAIN new <=> k \in DOMAIN old \/ k = len + 1
  BY <1>1, <1>2
<1>4. ASSUME NEW x PROVE x \in Says(new) <=> x \in Says(old) \/ x \in ModeSays(<< t, pids >>)
  BY <1>1, <1>3, InSays
<1>5. ASSUME NEW u PROVE u \in Keys(new) <=> u \in Keys(old) \/ u = t
  <2>1. new \in Seq(Texts \X Pidmaps) /\ old \in Seq(Texts \X Pidmaps)
    BY <1>1, PairsOf DEF ModeMaps
  <2>2. Key(<< t, pids >>) = t
    BY DEF Key
  <2>3. u \in Keys(new) <=> \E k \in DOMAIN new : Key(new[k]) = u
    BY <2>1, InKeys
  <2>4. u \in Keys(old) <=> \E k \in DOMAIN old : Key(old[k]) = u
    BY <2>1, InKeys
  <2>. QED
    BY <1>1, <1>3, <2>2, <2>3, <2>4
<1>6. Key(<< t, pids >>) = t
  BY DEF Key
<1>7. Extends(new, old, << t, pids >>)
  BY <1>1, <1>4, <1>5, <1>6 DEF Extends
<1>. QED
  BY <1>7 DEF new

LEMMA InPlaceExtends ==
  ASSUME NEW old \in ModeMaps, NEW place \in DOMAIN old, NEW t \in Texts, NEW pids \in Pidmaps,
         Key(old[place]) = t, Keys(Val(old[place])) \cap Keys(pids) = {}
  PROVE  Extends([old EXCEPT ![place] = << t, Val(old[place]) \o pids >>], old, << t, pids >>)
<1>. DEFINE had  == Val(old[place])
            both == had \o pids
            new  == [old EXCEPT ![place] = << t, both >>]
<1>1. /\ old \in Seq(Texts \X Pidmaps) /\ DOMAIN old = 1..Len(old)
      /\ had \in Pidmaps
      /\ \A j, k \in DOMAIN old : Key(old[j]) = Key(old[k]) => j = k
  BY PairsOf DEF ModeMaps
<1>2. /\ both \in Pidmaps
      /\ \A x : x \in ModeSays(<< t, both >>) <=>
                x \in ModeSays(<< t, had >>) \/ x \in ModeSays(<< t, pids >>)
  BY <1>1, SaysConcat
<1>3. ModeSays(<< t, had >>) = ModeSays(old[place])
  BY DEF ModeSays, Key, Val
<1>. HIDE DEF had, both
<1>4. /\ new \in Seq(Texts \X Pidmaps) /\ Len(new) = Len(old) /\ DOMAIN new = DOMAIN old
      /\ new[place] = << t, both >> /\ \A k \in DOMAIN old \ {place} : new[k] = old[k]
  BY <1>1, <1>2
<1>5. Key(<< t, both >>) = t /\ Key(<< t, pids >>) = t
  BY DEF Key
<1>. HIDE DEF new
<1>6. \A k \in DOMAIN old : Key(new[k]) = Key(old[k])
  BY <1>4, <1>5
<1>7. new \in ModeMaps
  <2>1. ASSUME NEW j \in 1..Len(new), NEW k \in 1..Len(new), Key(new[j]) = Key(new[k])
        PROVE  j = k
    BY <1>1, <1>4, <1>6, <2>1
  <2>. QED
    BY <1>4, <2>1, IsDict DEF ModeMaps, SaysOnce
<1>8. ASSUME NEW x PROVE x \in Says(new) <=> x \in Says(old) \/ x \in ModeSays(<< t, pids >>)
  <2>1. x \in ModeSays(new[place]) <=> x \in ModeSays(old[place]) \/ x \in ModeSays(<< t, pids >>)
    BY <1>2, <1>3, <1>4
  <2>. QED
    BY <1>4, <2>1, InSays
<1>9. ASSUME NEW u PROVE u \in Keys(new) <=> u \in Keys(old) \/ u = t
  <2>1. u \in Keys(new) <=> \E k \in DOMAIN new : Key(new[k]) = u
    BY <1>4, InKeys
  <2>2. u \in Keys(old) <=> \E k \in DOMAIN old : Key(old[k]) = u
    BY <1>1, InKeys
  <2>. QED
    BY <1>4, <1>6, <2>1, <2>2
<1>10. Extends(new, old, << t, pids >>)
  BY <1>5, <1>7, <1>8, <1>9 DEF Extends
<1>. QED
  BY <1>10 DEF new, both, had

-----------------------------------------------------------------------------
(***************************************************************************)
(* What is printed.                                                        *)
(***************************************************************************)

\* A dictionary with numbers for texts.
LEMMA NumberedPairs ==
  ASSUME NEW V, NEW dict \in Dicts(Texts, V)
  PROVE  /\ DOMAIN Numbered(dict) = DOMAIN dict /\ Len(Numbered(dict)) = Len(dict)
         /\ \A k \in DOMAIN dict : /\ Key(Numbered(dict)[k]) = NumberOf[Key(dict[k])]
                                  /\ Val(Numbered(dict)[k]) = Val(dict[k])
<1>1. DOMAIN dict = 1..Len(dict) /\ Len(dict) \in Nat
  BY PairsOf
<1>. QED
  BY <1>1 DEF Numbered, Key, Val

\* No two of the texts have one number.
Spelled(texts) == \A s, t \in texts : NumberOf[s] = NumberOf[t] => s = t

LEMMA NumberedOnce ==
  ASSUME NEW V, NEW dict \in Dicts(Texts, V)
  PROVE  SaysOnce(Numbered(dict)) <=> Spelled(Keys(dict))
<1>. DEFINE num == Numbered(dict)
<1>1. /\ dict \in Seq(Texts \X V) /\ DOMAIN dict = 1..Len(dict)
      /\ \A j, k \in DOMAIN dict : Key(dict[j]) = Key(dict[k]) => j = k
  BY PairsOf
<1>2. /\ Len(num) = Len(dict)
      /\ \A k \in DOMAIN dict : Key(num[k]) = NumberOf[Key(dict[k])]
  BY NumberedPairs
<1>3. Keys(dict) = {Key(dict[k]) : k \in DOMAIN dict}
  BY <1>1 DEF Keys
<1>. HIDE DEF num
<1>4. SaysOnce(num) <=>
        \A j, k \in DOMAIN dict : NumberOf[Key(dict[j])] = NumberOf[Key(dict[k])] => j = k
  BY <1>1, <1>2 DEF SaysOnce
<1>5. Spelled(Keys(dict)) <=>
        \A j, k \in DOMAIN dict :
          NumberOf[Key(dict[j])] = NumberOf[Key(dict[k])] => Key(dict[j]) = Key(dict[k])
  BY <1>3 DEF Spelled
<1>6. SaysOnce(num) <=> Spelled(Keys(dict))
  BY <1>1, <1>4, <1>5
<1>. QED
  BY <1>6 DEF num

PrintedModes ==
  Numbered([k \in DOMAIN merged |-> << Key(merged[k]), Numbered(Val(merged[k])) >>])

LEMMA PrintedPairs ==
  ASSUME merged \in ModeMaps
  PROVE  /\ DOMAIN PrintedModes = DOMAIN merged /\ Len(PrintedModes) = Len(merged)
         /\ \A k \in DOMAIN merged :
              /\ Key(PrintedModes[k]) = NumberOf[Key(merged[k])]
              /\ Val(PrintedModes[k]) = Numbered(Val(merged[k]))
         /\ SaysOnce(PrintedModes) <=> Spelled(Keys(merged))
<1>. DEFINE inner == [k \in DOMAIN merged |-> << Key(merged[k]), Numbered(Val(merged[k])) >>]
            V     == {Numbered(Val(merged[k])) : k \in DOMAIN merged}
<1>1. /\ merged \in Seq(Texts \X Pidmaps) /\ DOMAIN merged = 1..Len(merged)
      /\ Len(merged) \in Nat
      /\ \A k \in DOMAIN merged : Key(merged[k]) \in Texts
      /\ \A j, k \in DOMAIN merged : Key(merged[j]) = Key(merged[k]) => j = k
  BY PairsOf DEF ModeMaps
<1>2. /\ DOMAIN inner = DOMAIN merged
      /\ \A k \in DOMAIN merged : /\ inner[k] \in Texts \X V
                                 /\ Key(inner[k]) = Key(merged[k])
                                 /\ Val(inner[k]) = Numbered(Val(merged[k]))
  BY <1>1 DEF Key, Val
<1>3. inner \in Seq(Texts \X V) /\ Len(inner) = Len(merged)
  <2>1. inner \in [1..Len(merged) -> Texts \X V]
    BY <1>1, <1>2
  <2>. HIDE DEF inner, V
  <2>. QED
    BY <1>1, <2>1
<1>. HIDE DEF inner, V
<1>4. inner \in Dicts(Texts, V)
  <2>1. ASSUME NEW j \in 1..Len(inner), NEW k \in 1..Len(inner), Key(inner[j]) = Key(inner[k])
        PROVE  j = k
    BY <1>1, <1>2, <1>3, <2>1
  <2>. QED
    BY <1>3, <2>1, IsDict DEF SaysOnce
<1>5. Keys(inner) = Keys(merged)
  <2>1. Len(inner) = Len(merged) /\ \A k \in 1..Len(merged) : Key(inner[k]) = Key(merged[k])
    BY <1>1, <1>2, <1>3
  <2>. QED
    BY ONLY <2>1 DEF Keys
<1>6. PrintedModes = Numbered(inner)
  BY DEF PrintedModes, inner
<1>7. SaysOnce(PrintedModes) <=> Spelled(Keys(merged))
  BY <1>4, <1>5, <1>6, NumberedOnce
<1>8. /\ DOMAIN Numbered(inner) = DOMAIN inner /\ Len(Numbered(inner)) = Len(inner)
      /\ \A k \in DOMAIN inner : /\ Key(Numbered(inner)[k]) = NumberOf[Key(inner[k])]
                                /\ Val(Numbered(inner)[k]) = Val(inner[k])
  BY <1>4, NumberedPairs
<1>. QED
  BY <1>2, <1>3, <1>6, <1>7, <1>8

\* The printed schema says what was merged, in numbers.
LEMMA PrintedSays ==
  ASSUME merged \in ModeMaps
  PROVE  Says(PrintedModes) = InNumbers(Says(merged))
<1>1. /\ DOMAIN PrintedModes = DOMAIN merged
      /\ \A k \in DOMAIN merged :
           /\ Key(PrintedModes[k]) = NumberOf[Key(merged[k])]
           /\ Val(PrintedModes[k]) = Numbered(Val(merged[k]))
  BY PrintedPairs
<1>2. \A k \in DOMAIN merged : Val(merged[k]) \in Dicts(Texts, Descriptions)
  BY PairsOf DEF ModeMaps, Pidmaps, Texts
<1>3. ASSUME NEW k \in DOMAIN merged
      PROVE  /\ DOMAIN Numbered(Val(merged[k])) = DOMAIN Val(merged[k])
             /\ \A j \in DOMAIN Val(merged[k]) :
                  /\ Key(Numbered(Val(merged[k]))[j]) = NumberOf[Key(Val(merged[k])[j])]
                  /\ Val(Numbered(Val(merged[k]))[j]) = Val(Val(merged[k])[j])
  BY <1>2, NumberedPairs
<1>4. ASSUME NEW x
      PROVE  x \in Says(PrintedModes) <=>
               \E k \in DOMAIN merged : \E j \in DOMAIN Val(merged[k]) :
                 x = << NumberOf[Key(merged[k])], NumberOf[Key(Val(merged[k])[j])],
                        Val(Val(merged[k])[j]) >>
  <2>1. x \in Says(PrintedModes) <=>
          \E k \in DOMAIN PrintedModes : x \in ModeSays(PrintedModes[k])
    BY InSays
  <2>2. ASSUME NEW k \in DOMAIN merged
        PROVE  x \in ModeSays(PrintedModes[k]) <=>
                 \E j \in DOMAIN Val(merged[k]) :
                   x = << NumberOf[Key(merged[k])], NumberOf[Key(Val(merged[k])[j])],
                          Val(Val(merged[k])[j]) >>
    <3>1. x \in ModeSays(PrintedModes[k]) <=>
            \E j \in DOMAIN Val(PrintedModes[k]) :
              x = << Key(PrintedModes[k]), Key(Val(PrintedModes[k])[j]),
                     Val(Val(PrintedModes[k])[j]) >>
      BY InModeSays
    <3>. QED
      BY <1>1, <1>3, <3>1
  <2>. QED
    BY <1>1, <2>1, <2>2
<1>5. ASSUME NEW x
      PROVE  x \in InNumbers(Says(merged)) <=>
               \E k \in DOMAIN merged : \E j \in DOMAIN Val(merged[k]) :
                 x = << NumberOf[Key(merged[k])], NumberOf[Key(Val(merged[k])[j])],
                        Val(Val(merged[k])[j]) >>
  <2>1. \A y : y \in Says(merged) <=>
          \E k \in DOMAIN merged : \E j \in DOMAIN Val(merged[k]) :
            y = << Key(merged[k]), Key(Val(merged[k])[j]), Val(Val(merged[k])[j]) >>
    BY InSays, InModeSays
  <2>2. x \in InNumbers(Says(merged)) <=>
          \E y \in Says(merged) : x = << NumberOf[y[1]], NumberOf[y[2]], y[3] >>
    BY DEF InNumbers
  <2>3. ASSUME NEW y \in Says(merged), x = << NumberOf[y[1]], NumberOf[y[2]], y[3] >>
        PROVE  \E k \in DOMAIN merged : \E j \in DOMAIN Val(merged[k]) :
                 x = << NumberOf[Key(merged[k])], NumberOf[Key(Val(merged[k])[j])],
                        Val(Val(merged[k])[j]) >>
    <3>1. PICK k \in DOMAIN merged : \E j \in DOMAIN Val(merged[k]) :
            y = << Key(merged[k]), Key(Val(merged[k])[j]), Val(Val(merged[k])[j]) >>
      BY <2>1
    <3>2. PICK j \in DOMAIN Val(merged[k]) :
            y = << Key(merged[k]), Key(Val(merged[k])[j]), Val(Val(merged[k])[j]) >>
      BY <3>1
    <3>3. /\ y[1] = Key(merged[k]) /\ y[2] = Key(Val(merged[k])[j])
          /\ y[3] = Val(Val(merged[k])[j])
      BY <3>2
    <3>. QED
      BY <2>3, <3>3
  <2>4. ASSUME NEW k \in DOMAIN merged, NEW j \in DOMAIN Val(merged[k]),
               x = << NumberOf[Key(merged[k])], NumberOf[Key(Val(merged[k])[j])],
                      Val(Val(merged[k])[j]) >>
        PROVE  \E y \in Says(merged) : x = << NumberOf[y[1]], NumberOf[y[2]], y[3] >>
    <3>. DEFINE y == << Key(merged[k]), Key(Val(merged[k])[j]), Val(Val(merged[k])[j]) >>
    <3>1. y \in Says(merged)
      BY <2>1
    <3>2. /\ y[1] = Key(merged[k]) /\ y[2] = Key(Val(merged[k])[j])
          /\ y[3] = Val(Val(merged[k])[j])
      OBVIOUS
    <3>. HIDE DEF y
    <3>. QED
      BY <2>4, <3>1, <3>2
  <2>. QED
    BY <2>2, <2>3, <2>4
<1>. QED
  BY <1>4, <1>5

\* The value of the printed schema's second pair.
LEMMA PrintedDocument ==
  /\ Scalar(print_schema, "modepid") = PrintedModes
  /\ NothingTwice(print_schema) <=>
       /\ SaysOnce(PrintedModes)
       /\ \A k \in 1..Len(PrintedModes) :
            LET pids == Val(PrintedModes[k])
            IN  SaysOnce(pids) /\ \A p \in 1..Len(pids) : SaysOnce(Val(pids[p]))
<1>. DEFINE doc == << << "endian", endian >>, << "modepid", PrintedModes >> >>
<1>1. print_schema = doc
  BY Zenon DEF print_schema, PrintedModes
<1>2. /\ Len(doc) = 2
      /\ Key(doc[1]) = "endian" /\ Key(doc[2]) = "modepid" /\ Val(doc[2]) = PrintedModes
  BY DEF Key, Val
<1>. HIDE DEF doc
<1>3. \A k \in 1..Len(doc) : k = 1 \/ k = 2
  BY <1>2
<1>4. Scalar(doc, "modepid") = PrintedModes
  <2>. DEFINE Counts(k) == Key(doc[k]) = "modepid" /\
                           \A l \in (k + 1)..Len(doc) : Key(doc[l]) # "modepid"
  <2>1. \A k \in 1..Len(doc) : Counts(k) <=> k = 2
    BY <1>2, <1>3
  <2>2. Scalar(doc, "modepid") = Val(doc[CHOOSE k \in 1..Len(doc) : Counts(k)])
    BY Zenon DEF Scalar
  <2>3. 2 \in 1..Len(doc)
    BY <1>2
  <2>. HIDE DEF Counts
  <2>. QED
    BY <1>2, <2>1, <2>2, <2>3
<1>5. SaysOnce(doc)
  BY <1>2, <1>3 DEF SaysOnce
<1>6. \A k \in 1..Len(doc) : Key(doc[k]) = "modepid" <=> k = 2
  BY <1>2, <1>3
<1>7. 2 \in 1..Len(doc)
  BY <1>2
<1>. DEFINE Once(modes) ==
              /\ SaysOnce(modes)
              /\ \A k \in 1..Len(modes) :
                   LET pids == Val(modes[k])
                   IN  SaysOnce(pids) /\ \A p \in 1..Len(pids) : SaysOnce(Val(pids[p]))
<1>8. NothingTwice(doc) <=>
        SaysOnce(doc) /\ \A k \in 1..Len(doc) : Key(doc[k]) = "modepid" => Once(Val(doc[k]))
  BY Zenon DEF NothingTwice
<1>9. NothingTwice(doc) <=> Once(PrintedModes)
  <2>. HIDE DEF Once
  <2>. QED
    BY <1>2, <1>5, <1>6, <1>7, <1>8
<1>. QED
  BY <1>1, <1>4, <1>9

\* Where two PIDs of a mode have one number, they are said to have it.
LEMMA PidsSpelled ==
  ASSUME merged \in ModeMaps
  PROVE  (\A k \in DOMAIN merged : Spelled(Keys(Val(merged[k])))) <=>
           ~\E x, y \in Says(merged) :
              x[1] = y[1] /\ x[2] # y[2] /\ NumberOf[x[2]] = NumberOf[y[2]]
<1>1. \A j, k \in DOMAIN merged : Key(merged[j]) = Key(merged[k]) => j = k
  BY PairsOf DEF ModeMaps
<1>2. \A k \in DOMAIN merged : Val(merged[k]) \in Seq(Texts \X Descriptions)
  <2>1. \A k \in DOMAIN merged : Val(merged[k]) \in Dicts(Texts, Descriptions)
    BY PairsOf DEF ModeMaps, Pidmaps, Texts
  <2>. QED
    BY <2>1, IsDict
<1>3. ASSUME NEW k \in DOMAIN merged, NEW t
      PROVE  t \in Keys(Val(merged[k])) <=>
               \E j \in DOMAIN Val(merged[k]) : Key(Val(merged[k])[j]) = t
  BY <1>2, InKeys
<1>4. ASSUME \A k \in DOMAIN merged : Spelled(Keys(Val(merged[k]))),
             NEW x \in Says(merged), NEW y \in Says(merged), x[1] = y[1],
             NumberOf[x[2]] = NumberOf[y[2]]
      PROVE  x[2] = y[2]
  <2>1. PICK k \in DOMAIN merged : x \in ModeSays(merged[k])
    BY InSays
  <2>2. PICK l \in DOMAIN merged : y \in ModeSays(merged[l])
    BY InSays
  <2>3. /\ x[1] = Key(merged[k]) /\ x[2] \in Keys(Val(merged[k]))
        /\ y[1] = Key(merged[l]) /\ y[2] \in Keys(Val(merged[l]))
    <3>1. PICK i \in DOMAIN Val(merged[k]) :
            x = << Key(merged[k]), Key(Val(merged[k])[i]), Val(Val(merged[k])[i]) >>
      BY <2>1, InModeSays
    <3>2. PICK j \in DOMAIN Val(merged[l]) :
            y = << Key(merged[l]), Key(Val(merged[l])[j]), Val(Val(merged[l])[j]) >>
      BY <2>2, InModeSays
    <3>3. /\ x[1] = Key(merged[k]) /\ x[2] = Key(Val(merged[k])[i])
          /\ y[1] = Key(merged[l]) /\ y[2] = Key(Val(merged[l])[j])
      BY <3>1, <3>2
    <3>. QED
      BY <1>3, <3>3
  <2>4. k = l
    BY <1>1, <1>4, <2>3
  <2>. QED
    BY <1>4, <2>3, <2>4 DEF Spelled
<1>5. ASSUME NEW k \in DOMAIN merged, NEW s \in Keys(Val(merged[k])),
             NEW t \in Keys(Val(merged[k])), NumberOf[s] = NumberOf[t], s # t
      PROVE  \E x, y \in Says(merged) :
               x[1] = y[1] /\ x[2] # y[2] /\ NumberOf[x[2]] = NumberOf[y[2]]
  <2>1. PICK i \in DOMAIN Val(merged[k]) : Key(Val(merged[k])[i]) = s
    BY <1>3
  <2>2. PICK j \in DOMAIN Val(merged[k]) : Key(Val(merged[k])[j]) = t
    BY <1>3
  <2>. DEFINE x == << Key(merged[k]), Key(Val(merged[k])[i]), Val(Val(merged[k])[i]) >>
              y == << Key(merged[k]), Key(Val(merged[k])[j]), Val(Val(merged[k])[j]) >>
  <2>3. x \in Says(merged) /\ y \in Says(merged)
    <3>1. x \in ModeSays(merged[k]) /\ y \in ModeSays(merged[k])
      BY InModeSays
    <3>. HIDE DEF x, y
    <3>. QED
      BY <3>1, InSays
  <2>4. x[1] = y[1] /\ x[2] = s /\ y[2] = t
    BY <2>1, <2>2
  <2>. HIDE DEF x, y
  <2>. QED
    BY <1>5, <2>3, <2>4
<1>. QED
  BY <1>4, <1>5 DEF Spelled

\* The printed schema says something twice exactly if a number is written in
\* two ways where it matters.
LEMMA PrintedOnce ==
  ASSUME merged \in ModeMaps, Keys(merged) = ModeTexts, Says(merged) = AllSaid
  PROVE  NothingTwice(print_schema) <=> ~Respelled
<1>1. /\ DOMAIN PrintedModes = DOMAIN merged /\ Len(PrintedModes) = Len(merged)
      /\ \A k \in DOMAIN merged :
           /\ Key(PrintedModes[k]) = NumberOf[Key(merged[k])]
           /\ Val(PrintedModes[k]) = Numbered(Val(merged[k]))
      /\ SaysOnce(PrintedModes) <=> Spelled(Keys(merged))
  BY PrintedPairs
<1>2. DOMAIN merged = 1..Len(merged)
  BY PairsOf DEF ModeMaps
<1>3. ASSUME NEW k \in DOMAIN merged
      PROVE  LET pids == Val(PrintedModes[k])
             IN  SaysOnce(pids) /\ (\A p \in 1..Len(pids) : SaysOnce(Val(pids[p])))
                   <=> Spelled(Keys(Val(merged[k])))
  <2>. DEFINE dict == Val(merged[k])
              pids == Val(PrintedModes[k])
  <2>1. dict \in Dicts(Texts, Descriptions)
    BY PairsOf DEF ModeMaps, Pidmaps, Texts
  <2>2. pids = Numbered(dict)
    BY <1>1
  <2>. HIDE DEF dict, pids
  <2>3. SaysOnce(pids) <=> Spelled(Keys(dict))
    BY <2>1, <2>2, NumberedOnce
  <2>4. \A p \in DOMAIN dict : Val(dict[p]) \in Descriptions
    BY <2>1, PairsOf
  <2>5. DOMAIN dict = 1..Len(dict)
    BY <2>1, PairsOf
  <2>6. Len(pids) = Len(dict) /\ \A p \in DOMAIN dict : Val(pids[p]) = Val(dict[p])
    BY <2>1, <2>2, NumberedPairs
  <2>7. \A p \in 1..Len(pids) : SaysOnce(Val(pids[p]))
    BY <2>4, <2>5, <2>6, MergeAssumption
  <2>. QED
    BY <2>3, <2>7 DEF dict, pids
<1>4. NothingTwice(print_schema) <=>
        /\ SaysOnce(PrintedModes)
        /\ \A k \in 1..Len(PrintedModes) :
             LET pids == Val(PrintedModes[k])
             IN  SaysOnce(pids) /\ \A p \in 1..Len(pids) : SaysOnce(Val(pids[p]))
  BY PrintedDocument
<1>5. NothingTwice(print_schema) <=>
        Spelled(Keys(merged)) /\ \A k \in DOMAIN merged : Spelled(Keys(Val(merged[k])))
  BY <1>1, <1>2, <1>3, <1>4
<1>6. Spelled(Keys(merged)) <=>
        ~\E x, y \in ModeTexts : x # y /\ NumberOf[x] = NumberOf[y]
  BY DEF Spelled
<1>. QED
  BY <1>5, <1>6, PidsSpelled DEF Respelled

-----------------------------------------------------------------------------
(***************************************************************************)
(* The script.  What is merged so far is what the modes say that it has    *)
(* been through, and no two files of those contradict each other.          *)
(***************************************************************************)

\* Mode i of file k is merged.
Reached(k, i) ==
  /\ k \in DOMAIN argv /\ i \in DOMAIN argv[k].modepid
  /\ k < n \/ (k = n /\ status = "merging" /\ i < m)

SaidSoFar ==
  /\ \A x : x \in Says(merged) <=>
            \E k, i : Reached(k, i) /\ x \in ModeSays(argv[k].modepid[i])
  /\ \A t : t \in Keys(merged) <=>
            \E k, i : Reached(k, i) /\ t = Key(argv[k].modepid[i])

NoClashSoFar ==
  \A j, i, k, l : Reached(j, i) /\ Reached(k, l) /\ j # k =>
    \A x \in ModeSays(argv[j].modepid[i]), y \in ModeSays(argv[k].modepid[l]) :
      ~(x[1] = y[1] /\ x[2] = y[2])

\* The files that were opened share the byte order.
EndianSoFar(opened) ==
  \A k \in DOMAIN argv : k <= opened => argv[k].endian = endian

Opening ==
  /\ EndianSoFar(n - 1) /\ (endian = "None" \/ n > 1)
  /\ SaidSoFar /\ NoClashSoFar

Merging ==
  /\ n <= Len(argv) /\ m <= Len(file.modepid) + 1
  /\ EndianSoFar(n)
  /\ SaidSoFar /\ NoClashSoFar

Printed == Keys(merged) = ModeTexts /\ Says(merged) = AllSaid /\ SameEndian /\ ~Clash

MInv ==
  /\ argv \in Invocations /\ n \in 1..(Len(argv) + 1) /\ m \in Nat \ {0}
  /\ merged \in ModeMaps
  /\ status = "opening" => Opening
  /\ status = "merging" => Merging
  /\ status = "printed" => Printed
  /\ status = "bailed" => Clash \/ ~SameEndian

\* The files.
LEMMA FilesOfCall ==
  ASSUME argv \in Invocations
  PROVE  /\ DOMAIN argv = 1..Len(argv) /\ Len(argv) \in Nat
         /\ \A k \in DOMAIN argv :
              /\ argv[k].endian # "None" /\ argv[k].modepid \in ModeMaps
              /\ DOMAIN argv[k].modepid = 1..Len(argv[k].modepid)
              /\ Len(argv[k].modepid) \in Nat
              /\ \A i \in DOMAIN argv[k].modepid :
                   /\ Key(argv[k].modepid[i]) \in Texts /\ Val(argv[k].modepid[i]) \in Pidmaps
                   /\ argv[k].modepid[i] = << Key(argv[k].modepid[i]), Val(argv[k].modepid[i]) >>
              /\ \A i, j \in DOMAIN argv[k].modepid :
                   Key(argv[k].modepid[i]) = Key(argv[k].modepid[j]) => i = j
<1>1. argv \in Seq(Files)
  BY MergeAssumption
<1>2. DOMAIN argv = 1..Len(argv) /\ Len(argv) \in Nat /\ \A k \in DOMAIN argv : argv[k] \in Files
  BY <1>1
<1>3. ASSUME NEW k \in DOMAIN argv
      PROVE  argv[k].endian # "None" /\ argv[k].modepid \in Dicts(Texts, Pidmaps)
  BY <1>2 DEF Files, Texts
<1>4. ASSUME NEW modes \in Dicts(Texts, Pidmaps)
      PROVE  /\ modes \in Seq(Texts \X Pidmaps)
             /\ DOMAIN modes = 1..Len(modes) /\ Len(modes) \in Nat
             /\ \A i \in DOMAIN modes :
                  /\ Key(modes[i]) \in Texts /\ Val(modes[i]) \in Pidmaps
                  /\ modes[i] = << Key(modes[i]), Val(modes[i]) >>
             /\ \A i, j \in DOMAIN modes : Key(modes[i]) = Key(modes[j]) => i = j
  <2>1. /\ modes \in Seq(Texts \X Pidmaps)
        /\ DOMAIN modes = 1..Len(modes) /\ Len(modes) \in Nat
        /\ \A i \in DOMAIN modes : Key(modes[i]) \in Texts /\ Val(modes[i]) \in Pidmaps
        /\ \A i, j \in DOMAIN modes : Key(modes[i]) = Key(modes[j]) => i = j
    BY PairsOf
  <2>2. ASSUME NEW i \in DOMAIN modes PROVE modes[i] = << modes[i][1], modes[i][2] >>
    <3>1. modes[i] \in Texts \X Pidmaps
      BY <2>1
    <3>. QED
      BY <3>1
  <2>. QED
    BY <2>1, <2>2 DEF Key, Val
<1>. QED
  BY <1>2, <1>3, <1>4 DEF ModeMaps

\* A step that reaches no mode and merges nothing.
LEMMA SoFarKept ==
  ASSUME SaidSoFar, NoClashSoFar, UNCHANGED << argv, merged >>,
         \A k, i : Reached(k, i)' <=> Reached(k, i)
  PROVE  SaidSoFar' /\ NoClashSoFar'
BY DEF SaidSoFar, NoClashSoFar

LEMMA InitMInv == Init => MInv
<1>. SUFFICES ASSUME Init PROVE MInv
  OBVIOUS
<1>1. DOMAIN argv = 1..Len(argv) /\ Len(argv) \in Nat
  BY FilesOfCall DEF Init
<1>2. \A k, i : ~Reached(k, i)
  BY <1>1 DEF Init, Reached
<1>3. merged \in ModeMaps /\ (\A x : x \notin Says(merged)) /\ Keys(merged) = {}
  <2>1. << >> \in Seq(Texts \X Pidmaps) /\ Len(<< >>) = 0 /\ DOMAIN << >> = {}
    OBVIOUS
  <2>2. SaysOnce(<< >>)
    BY DEF SaysOnce
  <2>3. << >> \in ModeMaps
    BY <2>1, <2>2, IsDict DEF ModeMaps
  <2>4. \A x : x \notin Says(<< >>)
    BY <2>1, InSays
  <2>5. Keys(<< >>) = {}
    BY DEF Keys
  <2>. QED
    BY <2>3, <2>4, <2>5 DEF Init
<1>4. Opening
  BY <1>1, <1>2, <1>3 DEF Init, Opening, EndianSoFar, SaidSoFar, NoClashSoFar
<1>. QED
  BY <1>1, <1>3, <1>4 DEF Init, MInv

LEMMA OpenMInv == MInv /\ Open => MInv'
<1>. SUFFICES ASSUME MInv, Open PROVE MInv'
  OBVIOUS
<1>1. /\ DOMAIN argv = 1..Len(argv) /\ Len(argv) \in Nat
      /\ \A k \in DOMAIN argv : argv[k].endian # "None" /\ Len(argv[k].modepid) \in Nat
  BY FilesOfCall DEF MInv
<1>2. /\ status = "opening" /\ n <= Len(argv) /\ UNCHANGED << argv, n, merged >>
      /\ n \in Nat /\ n >= 1 /\ n \in DOMAIN argv
      /\ Opening
  BY <1>1 DEF Open, MInv
<1>3. CASE endian \in {"None", file.endian}
  <2>1. endian' = file.endian /\ m' = 1 /\ status' = "merging"
    BY <1>3 DEF Open
  <2>2. \A k, i : Reached(k, i)' <=> Reached(k, i)
    BY <1>1, <1>2, <2>1 DEF Reached
  <2>3. SaidSoFar' /\ NoClashSoFar'
    BY <1>2, <2>2, SoFarKept DEF Opening
  <2>4. EndianSoFar(n)'
    <3>. SUFFICES ASSUME NEW k \in DOMAIN argv, k <= n PROVE argv[k].endian = file.endian
      BY <1>2, <2>1 DEF EndianSoFar
    <3>1. CASE k = n
      BY <3>1 DEF file
    <3>2. CASE k < n
      <4>1. k <= n - 1 /\ 1 < n
        BY <1>1, <1>2, <3>2
      <4>2. argv[k].endian = endian
        BY <1>2, <4>1 DEF Opening, EndianSoFar
      <4>. QED
        BY <1>1, <1>3, <4>2
    <3>. QED
      BY <1>1, <1>2, <3>1, <3>2
  <2>5. Len(file.modepid)' = Len(file.modepid) /\ Len(file.modepid) \in Nat
    BY <1>1, <1>2 DEF file
  <2>6. Merging'
    BY <1>2, <2>1, <2>3, <2>4, <2>5 DEF Merging
  <2>. QED
    BY <1>2, <2>1, <2>6 DEF MInv
<1>4. CASE endian \notin {"None", file.endian}
  <2>1. status' = "bailed" /\ UNCHANGED << endian, m >>
    BY <1>4 DEF Open
  <2>2. n > 1
    BY <1>2, <1>4 DEF Opening
  <2>3. 1 \in DOMAIN argv /\ 1 <= n - 1
    BY <1>1, <1>2, <2>2
  <2>4. argv[1].endian = endian
    BY <1>2, <2>3 DEF Opening, EndianSoFar
  <2>5. argv[1].endian # argv[n].endian
    BY <1>4, <2>4 DEF file
  <2>6. ~SameEndian'
    BY <1>2, <2>3, <2>5 DEF SameEndian
  <2>. QED
    BY <1>2, <2>1, <2>6 DEF MInv
<1>. QED
  BY <1>3, <1>4

LEMMA CloseMInv == MInv /\ Close => MInv'
<1>. SUFFICES ASSUME MInv, Close PROVE MInv'
  OBVIOUS
<1>1. /\ DOMAIN argv = 1..Len(argv) /\ Len(argv) \in Nat
      /\ \A k \in DOMAIN argv : DOMAIN argv[k].modepid = 1..Len(argv[k].modepid)
                              /\ Len(argv[k].modepid) \in Nat
  BY FilesOfCall DEF MInv
<1>2. /\ status = "merging" /\ m > Len(file.modepid) /\ n' = n + 1 /\ status' = "opening"
      /\ UNCHANGED << argv, m, endian, merged >>
      /\ n \in Nat /\ n >= 1 /\ m \in Nat /\ Merging
  BY <1>1 DEF Close, MInv
<1>3. n \in DOMAIN argv
  BY <1>1, <1>2 DEF Merging
<1>4. \A k, i : Reached(k, i)' <=> Reached(k, i)
  <2>1. \A i \in DOMAIN argv[n].modepid : i < m
    BY <1>1, <1>2, <1>3 DEF file
  <2>2. \A k \in DOMAIN argv : k < n + 1 <=> k < n \/ k = n
    BY <1>1, <1>2
  <2>3. \A k \in DOMAIN argv : ~(k < n /\ k = n)
    BY <1>1, <1>2
  <2>. QED
    BY <1>2, <1>3, <2>1, <2>2, <2>3 DEF Reached
<1>5. SaidSoFar' /\ NoClashSoFar'
  BY <1>2, <1>4, SoFarKept DEF Merging
<1>6. EndianSoFar(n - 1)'
  <2>1. (n + 1) - 1 = n
    BY <1>2
  <2>. QED
    BY <1>2, <2>1 DEF EndianSoFar, Merging
<1>7. Opening'
  BY <1>2, <1>5, <1>6 DEF Opening
<1>8. n + 1 \in 1..(Len(argv) + 1)
  BY <1>1, <1>2, <1>3
<1>. QED
  BY <1>2, <1>7, <1>8 DEF MInv

\* One mode more is merged.
LEMMA ModeMerged ==
  ASSUME MInv, Merging, status = "merging", m <= Len(file.modepid),
         m' = m + 1, UNCHANGED << argv, n, endian, status >>,
         Extends(merged', merged, file.modepid[m]),
         \A x \in Says(merged), y \in ModeSays(file.modepid[m]) : ~(x[1] = y[1] /\ x[2] = y[2])
  PROVE  MInv'
<1>1. /\ DOMAIN argv = 1..Len(argv) /\ Len(argv) \in Nat
      /\ \A k \in DOMAIN argv : DOMAIN argv[k].modepid = 1..Len(argv[k].modepid)
                              /\ Len(argv[k].modepid) \in Nat
  BY FilesOfCall DEF MInv
<1>2. n \in DOMAIN argv /\ n \in Nat /\ m \in Nat /\ m >= 1 /\ m \in DOMAIN argv[n].modepid
  <2>1. n \in Nat /\ n >= 1 /\ n <= Len(argv) /\ m \in Nat /\ m >= 1
    BY <1>1 DEF MInv, Merging
  <2>2. n \in DOMAIN argv
    BY <1>1, <2>1
  <2>. QED
    BY <1>1, <2>1, <2>2 DEF file
<1>3. \A k, i : Reached(k, i)' <=> Reached(k, i) \/ (k = n /\ i = m)
  <2>1. \A i \in DOMAIN argv[n].modepid : i < m + 1 <=> i < m \/ i = m
    BY <1>1, <1>2
  <2>2. ~(n < n)
    BY <1>2
  <2>. QED
    BY <1>2, <2>1, <2>2 DEF Reached
<1>4. file.modepid[m] = argv[n].modepid[m]
  BY DEF file
<1>. DEFINE mode == argv[n].modepid[m]
<1>5. SaidSoFar'
  <2>1. ASSUME NEW x
        PROVE  x \in Says(merged)' <=>
                 \E k, i : Reached(k, i)' /\ x \in ModeSays(argv[k].modepid[i])
    <3>1. x \in Says(merged)' <=> x \in Says(merged) \/ x \in ModeSays(mode)
      BY <1>4 DEF Extends
    <3>2. x \in Says(merged) <=>
            \E k, i : Reached(k, i) /\ x \in ModeSays(argv[k].modepid[i])
      BY DEF Merging, SaidSoFar
    <3>. QED
      BY <1>3, <3>1, <3>2
  <2>2. ASSUME NEW t
        PROVE  t \in Keys(merged)' <=>
                 \E k, i : Reached(k, i)' /\ t = Key(argv[k].modepid[i])
    <3>1. t \in Keys(merged)' <=> t \in Keys(merged) \/ t = Key(mode)
      BY <1>4 DEF Extends
    <3>2. t \in Keys(merged) <=>
            \E k, i : Reached(k, i) /\ t = Key(argv[k].modepid[i])
      BY DEF Merging, SaidSoFar
    <3>. QED
      BY <1>3, <3>1, <3>2
  <2>. QED
    BY <2>1, <2>2 DEF SaidSoFar
<1>6. NoClashSoFar'
  <2>. SUFFICES ASSUME NEW j, NEW i, NEW k, NEW l, Reached(j, i)', Reached(k, l)', j # k,
                       NEW x \in ModeSays(argv[j].modepid[i]),
                       NEW y \in ModeSays(argv[k].modepid[l])
                PROVE  ~(x[1] = y[1] /\ x[2] = y[2])
    BY DEF NoClashSoFar
  <2>1. CASE Reached(j, i) /\ Reached(k, l)
    BY <2>1 DEF Merging, NoClashSoFar
  <2>2. CASE Reached(j, i) /\ k = n /\ l = m
    <3>1. x \in Says(merged)
      BY <2>2 DEF Merging, SaidSoFar
    <3>. QED
      BY <1>4, <2>2, <3>1
  <2>3. CASE j = n /\ i = m /\ Reached(k, l)
    <3>1. y \in Says(merged)
      BY <2>3 DEF Merging, SaidSoFar
    <3>. QED
      BY <1>4, <2>3, <3>1
  <2>. QED
    BY <1>3, <2>1, <2>2, <2>3
<1>7. Merging'
  <2>1. m + 1 <= Len(file.modepid) + 1
    BY <1>1, <1>2 DEF file
  <2>2. EndianSoFar(n)'
    BY DEF EndianSoFar, Merging
  <2>3. Len(file.modepid)' = Len(file.modepid)
    BY DEF file
  <2>. QED
    BY <1>5, <1>6, <2>1, <2>2, <2>3 DEF Merging
<1>8. merged' \in ModeMaps /\ m' \in Nat \ {0}
  BY <1>2 DEF Extends
<1>. QED
  BY <1>7, <1>8 DEF MInv

LEMMA MergeMInv == MInv /\ Merge => MInv'
<1>. SUFFICES ASSUME MInv, Merge PROVE MInv'
  OBVIOUS
<1>. DEFINE mode   == file.modepid[m]
            t      == Key(mode)
            pids   == Val(mode)
            place  == PlaceOf(merged, t)
            pidmap == Val(merged[place])
<1>1. /\ status = "merging" /\ m <= Len(file.modepid) /\ merge_pidmap(t, pids)
      /\ UNCHANGED << argv, n, endian >> /\ Merging /\ merged \in ModeMaps
  BY DEF Merge, merge_pidmap, MInv
<1>2. n \in DOMAIN argv /\ m \in DOMAIN argv[n].modepid
  <2>1. DOMAIN argv = 1..Len(argv) /\ Len(argv) \in Nat
    BY FilesOfCall DEF MInv
  <2>2. n \in DOMAIN argv
    BY <1>1, <2>1 DEF MInv, Merging
  <2>3. DOMAIN argv[n].modepid = 1..Len(argv[n].modepid) /\ Len(argv[n].modepid) \in Nat
    BY <2>2, FilesOfCall DEF MInv
  <2>. QED
    BY <1>1, <2>2, <2>3 DEF MInv, file
<1>3. /\ t \in Texts /\ pids \in Pidmaps /\ mode = << t, pids >>
      /\ \A i, j \in DOMAIN argv[n].modepid :
           Key(argv[n].modepid[i]) = Key(argv[n].modepid[j]) => i = j
  BY <1>2, FilesOfCall DEF MInv, file
<1>4. ASSUME NEW x, x \in Says(merged), x[1] = t
      PROVE  t \in Keys(merged) /\ x[2] \in Keys(pidmap)
  <2>1. PICK k \in DOMAIN merged : x \in ModeSays(merged[k])
    BY <1>4, InSays
  <2>2. PICK j \in DOMAIN Val(merged[k]) :
          x = << Key(merged[k]), Key(Val(merged[k])[j]), Val(Val(merged[k])[j]) >>
    BY <2>1, InModeSays
  <2>3. x[1] = Key(merged[k]) /\ x[2] = Key(Val(merged[k])[j])
    BY <2>2
  <2>4. /\ merged \in Seq(Texts \X Pidmaps)
        /\ \A i, l \in DOMAIN merged : Key(merged[i]) = Key(merged[l]) => i = l
        /\ \A i \in DOMAIN merged : Val(merged[i]) \in Dicts(Texts, Descriptions)
    BY <1>1, PairsOf DEF ModeMaps, Pidmaps, Texts
  <2>5. t \in Keys(merged)
    BY <1>4, <2>3, <2>4, InKeys
  <2>6. place \in DOMAIN merged /\ Key(merged[place]) = t
    BY <1>1, <2>5, PlaceOfKey DEF ModeMaps
  <2>7. place = k
    BY <1>4, <2>3, <2>4, <2>6
  <2>8. Val(merged[k]) \in Seq(Texts \X Descriptions)
    BY <2>4, IsDict
  <2>9. x[2] \in Keys(Val(merged[k]))
    BY <2>3, <2>8, InKeys
  <2>. QED
    BY <2>5, <2>7, <2>9
<1>5. ASSUME NEW y \in ModeSays(mode)
      PROVE  y[1] = t /\ y[2] \in Keys(pids)
  <2>1. PICK j \in DOMAIN pids : y = << t, Key(pids[j]), Val(pids[j]) >>
    BY InModeSays
  <2>2. y[1] = t /\ y[2] = Key(pids[j])
    BY <2>1
  <2>3. pids \in Seq(Texts \X Descriptions)
    BY <1>3, IsDict DEF Pidmaps, Texts
  <2>. QED
    BY <2>2, <2>3, InKeys
<1>6. ASSUME t \in Keys(merged)
      PROVE  place \in DOMAIN merged /\ Key(merged[place]) = t
  BY <1>1, <1>6, PlaceOfKey DEF ModeMaps
<1>7. CASE t \notin Keys(merged)
  <2>1. merged' = Append(merged, << t, pids >>) /\ m' = m + 1 /\ UNCHANGED status
    BY <1>1, <1>7 DEF merge_pidmap
  <2>2. Extends(merged', merged, mode)
    BY <1>1, <1>3, <1>7, <2>1, AppendExtends
  <2>3. \A x \in Says(merged), y \in ModeSays(mode) : ~(x[1] = y[1] /\ x[2] = y[2])
    BY <1>4, <1>5, <1>7
  <2>. QED
    BY <1>1, <2>1, <2>2, <2>3, ModeMerged
<1>8. CASE t \in Keys(merged) /\ Keys(pidmap) \cap Keys(pids) = {}
  <2>1. /\ merged' = [merged EXCEPT ![place] = << t, pidmap \o pids >>]
        /\ m' = m + 1 /\ UNCHANGED status
    BY <1>1, <1>8 DEF merge_pidmap
  <2>2. Extends(merged', merged, mode)
    BY <1>1, <1>3, <1>6, <1>8, <2>1, InPlaceExtends
  <2>3. \A x \in Says(merged), y \in ModeSays(mode) : ~(x[1] = y[1] /\ x[2] = y[2])
    BY <1>4, <1>5, <1>8
  <2>. QED
    BY <1>1, <2>1, <2>2, <2>3, ModeMerged
<1>9. CASE t \in Keys(merged) /\ Keys(pidmap) \cap Keys(pids) # {}
  <2>1. status' = "bailed" /\ UNCHANGED << m, merged >>
    BY <1>1, <1>9 DEF merge_pidmap
  <2>2. PICK p \in Keys(pidmap) : p \in Keys(pids)
    BY <1>9
  <2>3. \E x \in Says(merged) : x[1] = t /\ x[2] = p
    <3>1. pidmap \in Seq(Texts \X Descriptions)
      <4>1. \A k \in DOMAIN merged : Val(merged[k]) \in Pidmaps
        BY <1>1, PairsOf DEF ModeMaps
      <4>2. pidmap \in Pidmaps
        BY <1>6, <1>9, <4>1
      <4>. HIDE DEF pidmap
      <4>. QED
        BY <4>2, IsDict DEF Pidmaps, Texts
    <3>2. PICK j \in DOMAIN pidmap : Key(pidmap[j]) = p
      BY <3>1, InKeys
    <3>. DEFINE x == << Key(merged[place]), Key(pidmap[j]), Val(pidmap[j]) >>
    <3>3. x \in ModeSays(merged[place])
      BY InModeSays
    <3>4. x[1] = t /\ x[2] = p
      BY <1>6, <1>9, <3>2
    <3>. HIDE DEF x
    <3>5. x \in Says(merged)
      BY <1>6, <1>9, <3>3, InSays
    <3>. QED
      BY <3>4, <3>5
  <2>4. PICK x \in Says(merged) : x[1] = t /\ x[2] = p
    BY <2>3
  <2>5. \E y \in ModeSays(mode) : y[1] = t /\ y[2] = p
    <3>1. pids \in Seq(Texts \X Descriptions)
      BY <1>3, IsDict DEF Pidmaps, Texts
    <3>2. PICK j \in DOMAIN pids : Key(pids[j]) = p
      BY <2>2, <3>1, InKeys
    <3>. DEFINE y == << t, Key(pids[j]), Val(pids[j]) >>
    <3>3. y \in ModeSays(mode)
      BY InModeSays
    <3>4. y[1] = t /\ y[2] = p
      BY <3>2
    <3>. HIDE DEF y
    <3>. QED
      BY <3>3, <3>4
  <2>6. PICK y \in ModeSays(mode) : y[1] = t /\ y[2] = p
    BY <2>5
  <2>7. PICK k, i : Reached(k, i) /\ x \in ModeSays(argv[k].modepid[i])
    BY <1>1 DEF Merging, SaidSoFar
  <2>8. x[1] = Key(argv[k].modepid[i])
    <3>1. PICK j \in DOMAIN Val(argv[k].modepid[i]) :
            x = << Key(argv[k].modepid[i]), Key(Val(argv[k].modepid[i])[j]),
                   Val(Val(argv[k].modepid[i])[j]) >>
      BY <2>7, InModeSays
    <3>. QED
      BY <3>1
  <2>9. k # n
    <3>. SUFFICES ASSUME k = n PROVE FALSE
      OBVIOUS
    <3>1. i \in DOMAIN argv[n].modepid /\ (i < m \/ n < n)
      BY <2>7 DEF Reached
    <3>2. i = m
      BY <1>2, <1>3, <2>4, <2>8, <3>1 DEF file
    <3>3. n \in Nat /\ m \in Nat
      BY DEF MInv
    <3>. QED
      BY <3>1, <3>2, <3>3
  <2>10. x \in Says(argv[k].modepid) /\ y \in Says(argv[n].modepid)
    BY <1>2, <2>7, InSays DEF Reached, file
  <2>11. Clash
    BY <1>2, <2>4, <2>6, <2>7, <2>9, <2>10 DEF Clash, Reached
  <2>12. Clash'
    BY <1>1, <2>11 DEF Clash
  <2>. QED
    BY <1>1, <2>1, <2>12 DEF MInv
<1>. QED
  BY <1>7, <1>8, <1>9

LEMMA PrintMInv == MInv /\ PrintSchema => MInv'
<1>. SUFFICES ASSUME MInv, PrintSchema PROVE MInv'
  OBVIOUS
<1>1. /\ status = "opening" /\ n > Len(argv) /\ status' = "printed"
      /\ UNCHANGED << argv, n, m, endian, merged >> /\ Opening
  BY DEF PrintSchema, MInv
<1>2. DOMAIN argv = 1..Len(argv) /\ Len(argv) \in Nat /\ n \in Nat
  BY FilesOfCall DEF MInv
<1>3. \A k \in DOMAIN argv : k < n /\ k <= n - 1
  BY <1>1, <1>2
<1>4. \A k, i : Reached(k, i) <=> k \in DOMAIN argv /\ i \in DOMAIN argv[k].modepid
  BY <1>3 DEF Reached
<1>5. Says(merged) = AllSaid
  <2>1. ASSUME NEW x
        PROVE  x \in AllSaid <=> \E k \in DOMAIN argv : x \in Says(argv[k].modepid)
    BY DEF AllSaid
  <2>2. ASSUME NEW x
        PROVE  x \in Says(merged) <=>
                 \E k \in DOMAIN argv : \E i \in DOMAIN argv[k].modepid :
                   x \in ModeSays(argv[k].modepid[i])
    BY <1>1, <1>4 DEF Opening, SaidSoFar
  <2>. QED
    BY <2>1, <2>2, InSays
<1>6. Keys(merged) = ModeTexts
  <2>1. ASSUME NEW t
        PROVE  t \in ModeTexts <=> \E k \in DOMAIN argv : t \in Keys(argv[k].modepid)
    BY DEF ModeTexts
  <2>2. ASSUME NEW t, NEW k \in DOMAIN argv
        PROVE  t \in Keys(argv[k].modepid) <=>
                 \E i \in DOMAIN argv[k].modepid : t = Key(argv[k].modepid[i])
    <3>1. DOMAIN argv[k].modepid = 1..Len(argv[k].modepid)
      BY FilesOfCall DEF MInv
    <3>. QED
      BY <3>1 DEF Keys
  <2>3. ASSUME NEW t
        PROVE  t \in Keys(merged) <=>
                 \E k \in DOMAIN argv : \E i \in DOMAIN argv[k].modepid :
                   t = Key(argv[k].modepid[i])
    BY <1>1, <1>4 DEF Opening, SaidSoFar
  <2>. QED
    BY <2>1, <2>2, <2>3
<1>7. SameEndian
  BY <1>1, <1>3 DEF Opening, EndianSoFar, SameEndian
<1>8. ~Clash
  <2>. SUFFICES ASSUME NEW j \in DOMAIN argv, NEW k \in DOMAIN argv, j # k,
                       NEW x \in Says(argv[j].modepid), NEW y \in Says(argv[k].modepid),
                       x[1] = y[1], x[2] = y[2]
                PROVE  FALSE
    BY DEF Clash
  <2>1. PICK i \in DOMAIN argv[j].modepid : x \in ModeSays(argv[j].modepid[i])
    BY InSays
  <2>2. PICK l \in DOMAIN argv[k].modepid : y \in ModeSays(argv[k].modepid[l])
    BY InSays
  <2>. QED
    BY <1>1, <1>4, <2>1, <2>2 DEF Opening, NoClashSoFar
<1>9. Printed'
  BY <1>1, <1>5, <1>6, <1>7, <1>8 DEF Printed, AllSaid, ModeTexts, SameEndian, Clash
<1>. QED
  BY <1>1, <1>9 DEF MInv

LEMMA StutterMInv == MInv /\ UNCHANGED vars => MInv'
<1>. SUFFICES ASSUME MInv, UNCHANGED vars PROVE MInv'
  OBVIOUS
<1>1. UNCHANGED << argv, n, m, endian, merged, status >>
  BY DEF vars
<1>2. \A k, i : Reached(k, i)' <=> Reached(k, i)
  BY <1>1 DEF Reached
<1>3. SaidSoFar /\ NoClashSoFar => SaidSoFar' /\ NoClashSoFar'
  BY <1>1, <1>2, SoFarKept
<1>4. Opening => Opening'
  BY <1>1, <1>3 DEF Opening, EndianSoFar
<1>5. Merging => Merging'
  BY <1>1, <1>3 DEF Merging, EndianSoFar, file
<1>6. (Printed => Printed') /\ (Clash \/ ~SameEndian => (Clash \/ ~SameEndian)')
  BY <1>1 DEF Printed, ModeTexts, AllSaid, SameEndian, Clash
<1>. QED
  BY <1>1, <1>4, <1>5, <1>6 DEF MInv

\* merge-pids prints what the files say, all of it and nothing else, and bails
\* out only if two files contradict each other or differ in their byte order:
\* for any number of files, with any modes, PIDs and spellings.
THEOREM MergesEverything == Spec => []MergesAll
<1>1. MInv /\ [Next]_vars => MInv'
  BY OpenMInv, CloseMInv, MergeMInv, PrintMInv, StutterMInv DEF Next, Ended
<1>2. MInv => MergesAll
  <2>. SUFFICES ASSUME MInv PROVE MergesAll
    OBVIOUS
  <2>1. ASSUME status = "printed"
        PROVE  /\ Says(Scalar(print_schema, "modepid")) = InNumbers(AllSaid)
               /\ SameEndian /\ ~Clash
               /\ NothingTwice(print_schema) <=> ~Respelled
    <3>1. Printed /\ merged \in ModeMaps
      BY <2>1 DEF MInv
    <3>2. Scalar(print_schema, "modepid") = PrintedModes
      BY PrintedDocument
    <3>3. Says(PrintedModes) = InNumbers(AllSaid)
      BY <3>1, PrintedSays DEF Printed
    <3>4. NothingTwice(print_schema) <=> ~Respelled
      BY <3>1, PrintedOnce DEF Printed
    <3>. QED
      BY <3>1, <3>2, <3>3, <3>4 DEF Printed
  <2>. QED
    BY <2>1 DEF MInv, MergesAll
<1>. QED
  BY <1>1, <1>2, InitMInv, PTL DEF Spec
=============================================================================
