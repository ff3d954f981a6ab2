----------------------------- MODULE MainProofs -----------------------------
(***************************************************************************)
(* The whole program, for words, counts and times of any size.  First the  *)
(* numbers: what ft_parse_uint makes of a word, what append_u64 writes,    *)
(* and that the one reads what the other has written.  Then main: with its *)
(* command line in front and its exit status behind, it does what Launch   *)
(* says, the status tells what has become of the run, and a run starts     *)
(* exactly for the command lines that ask for one.                         *)
(***************************************************************************)
EXTENDS Main, LaunchProofs, WellFoundedInduction, SequenceTheorems

-----------------------------------------------------------------------------
(* Loops.  What holds before each turn of a loop follows from the turn that  *)
(* would be the first for it not to hold.                                  *)

(* The numbers are well ordered: a set of them has a least one. *)
Less == {pair \in Nat \X Nat : pair[1] < pair[2]}

LEMMA LeastNumber ==
  ASSUME NEW S \in SUBSET Nat, S # {}
  PROVE  \E n \in S : \A m \in S : ~(m < n)
<1>1. IsWellFoundedOn(Less, Nat)
  BY NatLessThanWellFounded DEF OpToRel, Less
<1>2. PICK n \in S : \A m \in S : ~ (<<m, n>> \in Less)
  BY <1>1, WFMin, Zenon
<1> QED
  BY <1>2 DEF Less

(* f is what a loop of k turns goes through from base on, turn by turn. *)
iterates(k, f, S, base, step) ==
  /\ f \in [0 .. k -> S]
  /\ f[0] = base
  /\ \A i \in 1 .. k : f[i] = step[i][f[i - 1]]

(* A loop whose turns stay in a set goes through values of that set. *)
LEMMA Iteration ==
  ASSUME NEW n \in Nat, NEW S, NEW base \in S, NEW step \in [1 .. n -> [S -> S]]
  PROVE  \E f : iterates(n, f, S, base, step)
<1> DEFINE Bad == {k \in 0 .. n : ~ \E f : iterates(k, f, S, base, step)}
<1> SUFFICES ASSUME Bad # {} PROVE FALSE
  OBVIOUS
<1>1. PICK k \in Bad : \A m \in Bad : ~(m < k)
  <2>1. Bad \in SUBSET Nat
    OBVIOUS
  <2> HIDE DEF Bad
  <2> QED
    BY <2>1, LeastNumber
<1>2. k # 0
  <2>1. iterates(0, [i \in 0 .. 0 |-> base], S, base, step)
    BY DEF iterates
  <2> QED
    BY <2>1
<1>3. k \in 1 .. n /\ k - 1 \in 0 .. n /\ k - 1 \notin Bad
  BY <1>1, <1>2
<1>4. PICK g : iterates(k - 1, g, S, base, step)
  BY <1>3
<1> DEFINE f == [i \in 0 .. k |-> IF i = k THEN step[k][g[k - 1]] ELSE g[i]]
<1>5. f \in [0 .. k -> S]
  BY <1>3, <1>4 DEF iterates
<1>6. f[0] = base
  BY <1>3, <1>4 DEF iterates
<1>7. \A i \in 1 .. k : f[i] = step[i][f[i - 1]]
  BY <1>3, <1>4 DEF iterates
<1>8. iterates(k, f, S, base, step)
  BY <1>5, <1>6, <1>7 DEF iterates
<1> QED
  BY <1>8

-----------------------------------------------------------------------------
(* ft_parse_uint. *)

Values == (0 .. MaxU64) \cup {int_err}

(* The overflow test is exact, and what passes it does not wrap. *)
LEMMA CharTyped ==
  ASSUME NEW v \in Values, NEW ch
  PROVE  read_char(v, ch) = IF v # int_err /\ ch \in Digits /\ v * 10 + ch <= MaxU64
                            THEN v * 10 + ch ELSE int_err
<1>1. CASE v # int_err /\ ch \in Digits
  <2>1. v \in 0 .. MaxU64 /\ ch \in 0 .. 9 /\ MaxU64 \in Nat /\ 9 <= MaxU64
    BY <1>1, WordSizes DEF Values, Digits
  <2>2. fits(v, ch) <=> v * 10 + ch <= MaxU64
    BY <2>1 DEF fits
  <2>3. v * 10 + ch <= MaxU64 => (v * 10 + ch) % (MaxU64 + 1) = v * 10 + ch
    BY <2>1
  <2> QED
    BY <1>1, <2>2, <2>3 DEF read_char
<1> QED
  BY <1>1 DEF read_char

(* The values of the loop are what its definition says. *)
LEMMA Reading ==
  ASSUME NEW T, NEW str \in Seq(T)
  PROVE  /\ reading(str)[0] = 0
         /\ \A i \in 1 .. Len(str) :
              reading(str)[i] = read_char(reading(str)[i - 1], str[i])
<1> DEFINE step == [i \in 1 .. Len(str) |-> [v \in Values |-> read_char(v, str[i])]]
           IsReading(f) == f = [i \in 0 .. Len(str) |->
                             IF i = 0 THEN 0 ELSE read_char(f[i - 1], str[i])]
<1>1. step \in [1 .. Len(str) -> [Values -> Values]]
  <2>1. \A v \in Values : \A ch : read_char(v, ch) \in Values
    BY WordSizes, CharTyped DEF Values, Digits
  <2> QED
    BY <2>1
<1>2. PICK f : iterates(Len(str), f, Values, 0, step)
  <2>1. Len(str) \in Nat /\ 0 \in Values
    BY WordSizes DEF Values
  <2> HIDE DEF step
  <2> QED
    BY <1>1, <2>1, Iteration
<1>3. IsReading(f)
  <2>1. f \in [0 .. Len(str) -> Values] /\ f[0] = 0
    BY <1>2 DEF iterates
  <2>2. \A i \in 1 .. Len(str) : f[i] = read_char(f[i - 1], str[i])
    <3> SUFFICES ASSUME NEW i \in 1 .. Len(str)
                 PROVE  f[i] = read_char(f[i - 1], str[i])
      OBVIOUS
    <3>1. Len(str) \in Nat /\ f[i - 1] \in Values
      BY <2>1
    <3>2. step[i][f[i - 1]] = read_char(f[i - 1], str[i])
      BY <3>1
    <3>3. f[i] = step[i][f[i - 1]]
      BY <1>2 DEF iterates
    <3> QED
      BY <3>2, <3>3
  <2> QED
    BY <2>1, <2>2
<1>4. reading(str) = CHOOSE g : IsReading(g)
  BY Zenon DEF reading
<1>5. IsReading(reading(str))
  <2> HIDE DEF IsReading
  <2> QED
    BY <1>3, <1>4, Zenon
<1> QED
  BY <1>5

(* The number of each beginning of a word of digits. *)
LEMMA Numbers ==
  ASSUME NEW w \in Seq(Digits)
  PROVE  /\ numbers(w) \in [0 .. Len(w) -> Nat]
         /\ numbers(w)[0] = 0
         /\ \A i \in 1 .. Len(w) : numbers(w)[i] = numbers(w)[i - 1] * 10 + w[i]
<1> DEFINE step == [i \in 1 .. Len(w) |-> [n \in Nat |-> n * 10 + w[i]]]
           IsNumbers(f) == f = [i \in 0 .. Len(w) |->
                                IF i = 0 THEN 0 ELSE f[i - 1] * 10 + w[i]]
<1>1. step \in [1 .. Len(w) -> [Nat -> Nat]]
  BY DEF Digits
<1>2. PICK f : iterates(Len(w), f, Nat, 0, step)
  <2>1. Len(w) \in Nat
    OBVIOUS
  <2> HIDE DEF step
  <2> QED
    BY <1>1, <2>1, Iteration
<1>3. IsNumbers(f)
  <2>1. f \in [0 .. Len(w) -> Nat] /\ f[0] = 0
    BY <1>2 DEF iterates
  <2>2. \A i \in 1 .. Len(w) : f[i] = f[i - 1] * 10 + w[i]
    <3> SUFFICES ASSUME NEW i \in 1 .. Len(w)
                 PROVE  f[i] = f[i - 1] * 10 + w[i]
      OBVIOUS
    <3>1. Len(w) \in Nat /\ f[i - 1] \in Nat
      BY <2>1
    <3>2. step[i][f[i - 1]] = f[i - 1] * 10 + w[i]
      BY <3>1
    <3>3. f[i] = step[i][f[i - 1]]
      BY <1>2 DEF iterates
    <3> QED
      BY <3>2, <3>3
  <2> QED
    BY <2>1, <2>2
<1>4. numbers(w) = CHOOSE g : IsNumbers(g)
  BY Zenon DEF numbers
<1>5. IsNumbers(numbers(w))
  <2> HIDE DEF IsNumbers
  <2> QED
    BY <1>3, <1>4, Zenon
<1>6. /\ numbers(w)[0] = 0
      /\ \A i \in 1 .. Len(w) : numbers(w)[i] = numbers(w)[i - 1] * 10 + w[i]
  BY <1>5
<1>7. \A i \in 0 .. Len(w) : numbers(w)[i] \in Nat
  <2> DEFINE Bad == {i \in 0 .. Len(w) : numbers(w)[i] \notin Nat}
  <2> SUFFICES ASSUME Bad # {} PROVE FALSE
    OBVIOUS
  <2>1. PICK k \in Bad : \A m \in Bad : ~(m < k)
    <3>1. Bad \in SUBSET Nat
      OBVIOUS
    <3> HIDE DEF Bad
    <3> QED
      BY <3>1, LeastNumber
  <2>2. k \in 1 .. Len(w) /\ k - 1 \in 0 .. Len(w) /\ numbers(w)[k - 1] \in Nat
    BY <1>6, <2>1
  <2>3. w[k] \in 0 .. 9 /\ numbers(w)[k] = numbers(w)[k - 1] * 10 + w[k]
    BY <1>6, <2>2 DEF Digits
  <2>4. numbers(w)[k] \in Nat
    BY <2>2, <2>3
  <2> QED
    BY <2>1, <2>4
<1> QED
  BY <1>5, <1>6, <1>7

(* As long as the number fits, the loop has it; from the first digit on at   *)
(* which it does not, the parser has failed.                               *)
LEMMA ReadsNumbers ==
  ASSUME NEW w \in Seq(Digits), NEW i \in 0 .. Len(w)
  PROVE  reading(w)[i] = IF numbers(w)[i] <= MaxU64 THEN numbers(w)[i] ELSE int_err
<1> DEFINE right(j) == IF numbers(w)[j] <= MaxU64 THEN numbers(w)[j] ELSE int_err
           Bad == {j \in 0 .. Len(w) : reading(w)[j] # right(j)}
<1> SUFFICES ASSUME Bad # {} PROVE FALSE
  OBVIOUS
<1>1. PICK k \in Bad : \A m \in Bad : ~(m < k)
  <2>1. Bad \in SUBSET Nat
    OBVIOUS
  <2> HIDE DEF Bad
  <2> QED
    BY <2>1, LeastNumber
<1>2. k # 0
  <2>1. reading(w)[0] = 0 /\ numbers(w)[0] = 0
    BY Reading, Numbers
  <2> QED
    BY <2>1, WordSizes
<1> DEFINE n == numbers(w)[k - 1]
<1>3. /\ k \in 1 .. Len(w) /\ w[k] \in Digits
      /\ n \in Nat
      /\ numbers(w)[k] = n * 10 + w[k]
      /\ reading(w)[k] = read_char(reading(w)[k - 1], w[k])
      /\ reading(w)[k - 1] = right(k - 1)
  <2>1. k \in 1 .. Len(w) /\ k - 1 \in 0 .. Len(w)
    BY <1>1, <1>2
  <2>2. k - 1 \notin Bad
    BY <1>1
  <2>3. /\ n \in Nat
        /\ numbers(w)[k] = n * 10 + w[k]
        /\ reading(w)[k] = read_char(reading(w)[k - 1], w[k])
    BY <2>1, Reading, Numbers
  <2> QED
    BY <2>1, <2>2, <2>3
<1>4. right(k - 1) \in Values
  BY <1>3, WordSizes DEF Values
<1>5. reading(w)[k] = right(k)
  <2>1. CASE n <= MaxU64
    BY <1>3, <1>4, <2>1, CharTyped DEF int_err
  <2>2. CASE ~(n <= MaxU64)
    <3>1. reading(w)[k] = int_err
      BY <1>3, <2>2 DEF read_char
    <3>2. ~(numbers(w)[k] <= MaxU64)
      <4> HIDE DEF n
      <4> QED
        BY <1>3, <2>2, WordSizes DEF Digits
    <3> QED
      BY <3>1, <3>2
  <2> QED
    BY <2>1, <2>2
<1> QED
  BY <1>1, <1>5

(* A character that is no digit ends it, whatever follows. *)
LEMMA RefusesOthers ==
  ASSUME NEW T, NEW w \in Seq(T), NEW j \in 1 .. Len(w), w[j] \notin Digits
  PROVE  reading(w)[Len(w)] = int_err
<1> DEFINE Bad == {i \in j .. Len(w) : reading(w)[i] # int_err}
<1> SUFFICES ASSUME Bad # {} PROVE FALSE
  OBVIOUS
<1>1. PICK k \in Bad : \A m \in Bad : ~(m < k)
  <2>1. Bad \in SUBSET Nat
    OBVIOUS
  <2> HIDE DEF Bad
  <2> QED
    BY <2>1, LeastNumber
<1>2. /\ k \in 1 .. Len(w) /\ k \in j .. Len(w)
      /\ reading(w)[k] = read_char(reading(w)[k - 1], w[k])
  BY <1>1, Reading
<1>3. k = j \/ reading(w)[k - 1] = int_err
  BY <1>1, <1>2
<1>4. reading(w)[k] = int_err
  BY <1>2, <1>3 DEF read_char
<1> QED
  BY <1>1, <1>4

(***************************************************************************)
(* The parser returns the number a word stands for, when the word is one   *)
(* and the number has room in the field it is for, and fails otherwise     *)
(* (ft_parse_uint): it never takes a number for a smaller one.             *)
(***************************************************************************)
THEOREM ParsesNumbers ==
  ASSUME NEW T, NEW w \in Seq(T), NEW is_u32 \in BOOLEAN
  PROVE  /\ ft_parse_uint(w, is_u32) =
              IF is_number(w) /\ number(w) <= (IF is_u32 THEN MaxU32 ELSE MaxU64)
              THEN number(w) ELSE int_err
         /\ is_number(w) => number(w) \in Nat
<1>1. CASE is_number(w)
  <2>1. w \in Seq(Digits) /\ Len(w) \in Nat /\ w # <<>>
    BY <1>1 DEF is_number
  <2>2. number(w) \in Nat
    BY <2>1, Numbers DEF number
  <2>3. reading(w)[Len(w)] = IF number(w) <= MaxU64 THEN number(w) ELSE int_err
    BY <2>1, ReadsNumbers DEF number
  <2> QED
    BY <1>1, <2>1, <2>2, <2>3, WordSizes DEF ft_parse_uint, int_err
<1>2. CASE ~is_number(w)
  <2>1. CASE w = <<>>
    BY <1>2, <2>1 DEF ft_parse_uint
  <2>2. CASE w # <<>>
    <3>1. PICK j \in 1 .. Len(w) : w[j] \notin Digits
      BY <1>2, <2>2 DEF is_number
    <3>2. reading(w)[Len(w)] = int_err
      BY <3>1, RefusesOthers
    <3> QED
      BY <1>2, <3>2, WordSizes DEF ft_parse_uint, int_err
  <2> QED
    BY <2>1, <2>2
<1> QED
  BY <1>1, <1>2
-----------------------------------------------------------------------------
(* append_u64. *)

(* f is append_u64 up to k. *)
written(k, f) ==
  /\ f \in [0 .. k -> Seq(Digits)]
  /\ \A n \in 0 .. k :
       f[n] = IF n >= 100 THEN f[n \div 100] \o digits(n % 100) ELSE head(n)

(* The entries of digits_lookup. *)
LEMMA TwoDigits ==
  ASSUME NEW n \in 0 .. 99
  PROVE  digits(n) \in Seq(Digits) /\ head(n) \in Seq(Digits)
<1>1. n \div 10 \in Digits /\ n % 10 \in Digits
  BY DEF Digits
<1>2. n < 10 => n \in Digits
  BY DEF Digits
<1> QED
  BY <1>1, <1>2 DEF digits, head

(* Its loop ends: n / 100 is smaller than n. *)
LEMMA Writing ==
  ASSUME NEW limit \in Nat
  PROVE  \E f : written(limit, f)
<1> DEFINE Bad == {k \in 0 .. limit : ~ \E f : written(k, f)}
<1> SUFFICES ASSUME Bad # {} PROVE FALSE
  OBVIOUS
<1>1. PICK k \in Bad : \A m \in Bad : ~(m < k)
  <2>1. Bad \in SUBSET Nat
    OBVIOUS
  <2> HIDE DEF Bad
  <2> QED
    BY <2>1, LeastNumber
<1>2. k \in Nat /\ ~ \E f : written(k, f)
  BY <1>1
<1>3. PICK g : g \in [0 .. k - 1 -> Seq(Digits)] /\ (k # 0 => written(k - 1, g))
  <2>1. CASE k = 0
    <3>1. [n \in 0 .. k - 1 |-> <<>>] \in [0 .. k - 1 -> Seq(Digits)]
      BY <2>1
    <3> QED
      BY <2>1, <3>1
  <2>2. CASE k # 0
    <3>1. k - 1 \in 0 .. limit /\ k - 1 \notin Bad
      BY <1>1, <2>2
    <3>2. PICK g : written(k - 1, g)
      BY <3>1
    <3> QED
      BY <3>2 DEF written
  <2> QED
    BY <2>1, <2>2
<1> DEFINE last == IF k >= 100 THEN g[k \div 100] \o digits(k % 100) ELSE head(k)
           f == [n \in 0 .. k |-> IF n = k THEN last ELSE g[n]]
<1>4. last \in Seq(Digits)
  <2>1. CASE k >= 100
    <3>1. k \div 100 \in 0 .. k - 1 /\ k % 100 \in 0 .. 99
      BY <1>2, <2>1
    <3>2. g[k \div 100] \in Seq(Digits) /\ digits(k % 100) \in Seq(Digits)
      BY <1>3, <3>1, TwoDigits
    <3>3. g[k \div 100] \o digits(k % 100) \in Seq(Digits)
      BY <3>2
    <3> QED
      BY <2>1, <3>3
  <2>2. CASE ~(k >= 100)
    <3>1. k \in 0 .. 99
      BY <1>2, <2>2
    <3> QED
      BY <2>2, <3>1, TwoDigits
  <2> QED
    BY <2>1, <2>2
<1>5. f \in [0 .. k -> Seq(Digits)]
  <2> HIDE DEF last
  <2> QED
    BY <1>2, <1>3, <1>4
<1>6. ASSUME NEW n \in 0 .. k
      PROVE  f[n] = IF n >= 100 THEN f[n \div 100] \o digits(n % 100) ELSE head(n)
  <2>1. n >= 100 => n \div 100 \in 0 .. n - 1
    BY <1>2
  <2>2. n >= 100 => f[n \div 100] = g[n \div 100]
    BY <1>2, <2>1
  <2>3. CASE n = k
    BY <2>2, <2>3
  <2>4. CASE n # k
    <3>1. n \in 0 .. k - 1 /\ k # 0 /\ f[n] = g[n]
      BY <1>2, <2>4
    <3>2. g[n] = IF n >= 100 THEN g[n \div 100] \o digits(n % 100) ELSE head(n)
      BY <1>3, <3>1 DEF written
    <3> QED
      BY <2>2, <3>1, <3>2
  <2> QED
    BY <2>3, <2>4
<1>7. written(k, f)
  <2> HIDE DEF f
  <2> QED
    BY <1>5, <1>6 DEF written
<1> QED
  BY <1>2, <1>7

(* So the recursive function is there, and writes digits. *)
LEMMA Appending == written(MaxU64, append_u64)
<1> DEFINE IsAppend(f) ==
      f = [n \in 0 .. MaxU64 |->
            IF n >= 100 THEN f[n \div 100] \o digits(n % 100) ELSE head(n)]
<1>1. PICK f : written(MaxU64, f)
  BY WordSizes, Writing
<1>2. IsAppend(f)
  BY <1>1 DEF written
<1>3. append_u64 = CHOOSE g : IsAppend(g)
  BY Zenon DEF append_u64
<1>4. IsAppend(append_u64)
  <2> HIDE DEF IsAppend
  <2> QED
    BY <1>2, <1>3, Zenon
<1>5. \A n \in 0 .. MaxU64 : append_u64[n] \in Seq(Digits)
  <2> DEFINE Bad == {n \in 0 .. MaxU64 : append_u64[n] \notin Seq(Digits)}
  <2> SUFFICES ASSUME Bad # {} PROVE FALSE
    OBVIOUS
  <2>1. PICK k \in Bad : \A m \in Bad : ~(m < k)
    <3>1. Bad \in SUBSET Nat
      OBVIOUS
    <3> HIDE DEF Bad
    <3> QED
      BY <3>1, LeastNumber
  <2>2. k \in 0 .. MaxU64 /\ append_u64[k] =
          IF k >= 100 THEN append_u64[k \div 100] \o digits(k % 100) ELSE head(k)
    BY <1>4
  <2>3. CASE k >= 100
    <3>1. /\ k \div 100 \in 0 .. MaxU64 /\ k \div 100 < k
          /\ k % 100 \in 0 .. 99
      BY <2>2, <2>3, WordSizes
    <3>2. append_u64[k \div 100] \in Seq(Digits) /\ digits(k % 100) \in Seq(Digits)
      BY <2>1, <3>1, TwoDigits
    <3>3. append_u64[k \div 100] \o digits(k % 100) \in Seq(Digits)
      BY <3>2
    <3> QED
      BY <2>1, <2>2, <2>3, <3>3
  <2>4. CASE ~(k >= 100)
    <3>1. k \in 0 .. 99
      BY <2>2, <2>4, WordSizes
    <3> QED
      BY <2>1, <2>2, <2>4, <3>1, TwoDigits
  <2> QED
    BY <2>3, <2>4
<1> QED
  <2>1. append_u64 = [n \in 0 .. MaxU64 |-> append_u64[n]]
    BY <1>4
  <2>2. append_u64 \in [0 .. MaxU64 -> Seq(Digits)]
    BY <1>5, <2>1
  <2> QED
    BY <1>4, <2>2 DEF written

(* What is put behind a word does not change the number of its beginning. *)
LEMMA SameBeginning ==
  ASSUME NEW s \in Seq(Digits), NEW t \in Seq(Digits), NEW i \in 0 .. Len(s)
  PROVE  numbers(s \o t)[i] = numbers(s)[i]
<1> DEFINE Bad == {j \in 0 .. Len(s) : numbers(s \o t)[j] # numbers(s)[j]}
<1> SUFFICES ASSUME Bad # {} PROVE FALSE
  OBVIOUS
<1>1. PICK k \in Bad : \A m \in Bad : ~(m < k)
  <2>1. Bad \in SUBSET Nat
    OBVIOUS
  <2> HIDE DEF Bad
  <2> QED
    BY <2>1, LeastNumber
<1>2. /\ s \o t \in Seq(Digits)
      /\ Len(s \o t) = Len(s) + Len(t)
      /\ Len(s) \in Nat /\ Len(t) \in Nat
      /\ \A j \in 1 .. Len(s) : (s \o t)[j] = s[j]
  OBVIOUS
<1>3. k # 0
  <2>1. numbers(s)[0] = 0 /\ numbers(s \o t)[0] = 0
    BY <1>2, Numbers
  <2> QED
    BY <1>1, <2>1
<1>4. /\ k \in 1 .. Len(s) /\ k \in 1 .. Len(s \o t)
      /\ numbers(s \o t)[k - 1] = numbers(s)[k - 1]
  BY <1>1, <1>2, <1>3
<1>5. /\ numbers(s)[k] = numbers(s)[k - 1] * 10 + s[k]
      /\ numbers(s \o t)[k] = numbers(s \o t)[k - 1] * 10 + (s \o t)[k]
  BY <1>2, <1>4, Numbers
<1> QED
  BY <1>1, <1>2, <1>4, <1>5

(* The elements of a concatenation. *)
LEMMA Joined ==
  ASSUME NEW S, NEW s \in Seq(S), NEW t \in Seq(S)
  PROVE  /\ s \o t \in Seq(S)
         /\ Len(s \o t) = Len(s) + Len(t)
         /\ Len(s) \in Nat /\ Len(t) \in Nat
         /\ \A i \in 1 .. Len(s) : (s \o t)[i] = s[i]
         /\ \A i \in 1 .. Len(t) : (s \o t)[Len(s) + i] = t[i]
<1>1. /\ s \o t \in Seq(S)
      /\ Len(s \o t) = Len(s) + Len(t)
      /\ Len(s) \in Nat /\ Len(t) \in Nat
      /\ \A i \in 1 .. Len(s) : (s \o t)[i] = s[i]
  OBVIOUS
<1>2. ASSUME NEW i \in 1 .. Len(t)
      PROVE  (s \o t)[Len(s) + i] = t[i]
  <2>1. Len(s) + i \in Len(s) + 1 .. Len(s) + Len(t) /\ (Len(s) + i) - Len(s) = i
    BY <1>1
  <2> QED
    BY <1>1, <2>1
<1> QED
  BY <1>1, <1>2

(* One turn of append_u64 read back. *)
LEMMA TwoMoreDigits ==
  ASSUME NEW s \in Seq(Digits), NEW part \in 0 .. 99
  PROVE  number(s \o digits(part)) = number(s) * 100 + part
<1> DEFINE t == digits(part)
           w == s \o t
<1>1. t \in Seq(Digits)
  BY TwoDigits
<1>2. /\ Len(t) = 2 /\ t[1] = part \div 10 /\ t[2] = part % 10
      /\ part \div 10 \in 0 .. 9 /\ part % 10 \in 0 .. 9
      /\ part = (part \div 10) * 10 + (part % 10)
  BY DEF digits
<1> HIDE DEF t
<1>3. /\ w \in Seq(Digits) /\ Len(w) = Len(s) + 2 /\ Len(s) \in Nat
      /\ w[Len(s) + 1] = t[1] /\ w[Len(s) + 2] = t[2]
  <2>1. /\ w \in Seq(Digits)
        /\ Len(w) = Len(s) + Len(t)
        /\ Len(s) \in Nat
        /\ \A i \in 1 .. Len(t) : w[Len(s) + i] = t[i]
    BY <1>1, Joined
  <2> QED
    BY <1>2, <2>1
<1>4. numbers(w)[Len(s)] = number(s) /\ number(s) \in Nat
  BY <1>1, SameBeginning, Numbers DEF number
<1> HIDE DEF w
<1>5. /\ numbers(w)[Len(s) + 1] = numbers(w)[Len(s)] * 10 + w[Len(s) + 1]
      /\ numbers(w)[Len(s) + 2] = numbers(w)[Len(s) + 1] * 10 + w[Len(s) + 2]
  <2>1. /\ Len(s) + 1 \in 1 .. Len(w) /\ Len(s) + 2 \in 1 .. Len(w)
        /\ Len(s) + 1 - 1 = Len(s) /\ Len(s) + 2 - 1 = Len(s) + 1
    BY <1>3
  <2> QED
    BY <1>3, <2>1, Numbers
<1>6. number(w) = (number(s) * 10 + part \div 10) * 10 + (part % 10)
  BY <1>2, <1>3, <1>4, <1>5 DEF number
<1>7. number(w) = number(s) * 100 + part
  BY <1>2, <1>4, <1>6
<1> QED
  BY <1>7 DEF w, t

(* What it ends with. *)
LEMMA ShortNumbers ==
  ASSUME NEW n \in 0 .. 99
  PROVE  /\ head(n) \in Seq(Digits)
         /\ n < 10 => Len(head(n)) = 1
         /\ n >= 10 => Len(head(n)) = 2
         /\ number(head(n)) = n
         /\ head(n)[1] = 0 => n = 0
<1> DEFINE w == head(n)
<1>1. w \in Seq(Digits)
  BY TwoDigits
<1>2. CASE n < 10
  <2>1. Len(w) = 1 /\ w[1] = n
    BY <1>2 DEF head
  <2> HIDE DEF w
  <2>2. /\ numbers(w)[0] = 0
        /\ numbers(w)[1] = numbers(w)[1 - 1] * 10 + w[1]
    <3>1. /\ numbers(w)[0] = 0
          /\ \A i \in 1 .. Len(w) : numbers(w)[i] = numbers(w)[i - 1] * 10 + w[i]
      BY <1>1, Numbers
    <3> QED
      BY <2>1, <3>1
  <2>3. number(w) = n
    BY <2>1, <2>2 DEF number
  <2> QED
    BY <1>1, <1>2, <2>1, <2>3 DEF w
<1>3. CASE ~(n < 10)
  <2>1. Len(w) = 2 /\ w[1] = n \div 10 /\ w[2] = n % 10
    BY <1>3 DEF head, digits
  <2> HIDE DEF w
  <2>2. /\ numbers(w)[0] = 0
        /\ numbers(w)[1] = numbers(w)[1 - 1] * 10 + w[1]
        /\ numbers(w)[2] = numbers(w)[2 - 1] * 10 + w[2]
    BY <1>1, <2>1, Numbers
  <2>3. number(w) = n
    BY <2>1, <2>2 DEF number
  <2> QED
    BY <1>1, <1>3, <2>1, <2>3 DEF w
<1> QED
  BY <1>2, <1>3

(* What append_u64 writes is the number, without leading zeros ... *)
LEMMA NumbersAreWritten ==
  ASSUME NEW n \in 0 .. MaxU64
  PROVE  /\ append_u64[n] \in Seq(Digits)
         /\ append_u64[n] # <<>>
         /\ number(append_u64[n]) = n
         /\ append_u64[n][1] = 0 => n = 0
<1> DEFINE good(m) == /\ Len(append_u64[m]) >= 1
                      /\ number(append_u64[m]) = m
                      /\ append_u64[m][1] = 0 => m = 0
           Bad == {m \in 0 .. MaxU64 : ~good(m)}
<1>1. \A m \in 0 .. MaxU64 :
        /\ append_u64[m] \in Seq(Digits)
        /\ append_u64[m] = IF m >= 100 THEN append_u64[m \div 100] \o digits(m % 100)
                           ELSE head(m)
  BY Appending DEF written
<1>2. Bad = {}
  <2> SUFFICES ASSUME Bad # {} PROVE FALSE
    OBVIOUS
  <2>1. PICK k \in Bad : \A m \in Bad : ~(m < k)
    <3>1. Bad \in SUBSET Nat
      OBVIOUS
    <3> HIDE DEF Bad
    <3> QED
      BY <3>1, LeastNumber
  <2>2. k \in 0 .. MaxU64 /\ k \in Nat
    OBVIOUS
  <2>3. CASE k >= 100
    <3> DEFINE q == k \div 100
               r == k % 100
               s == append_u64[q]
    <3>1. q \in 1 .. MaxU64 /\ q < k /\ r \in 0 .. 99 /\ k = q * 100 + r
      BY <2>2, <2>3, WordSizes
    <3>2. append_u64[k] = s \o digits(r)
      BY <1>1, <2>2, <2>3
    <3> HIDE DEF q, r
    <3>3. s \in Seq(Digits) /\ good(q)
      BY <1>1, <2>1, <3>1
    <3>4. digits(r) \in Seq(Digits) /\ number(s \o digits(r)) = q * 100 + r
      BY <3>1, <3>3, TwoDigits, TwoMoreDigits
    <3>5. Len(s \o digits(r)) >= 1 /\ (s \o digits(r))[1] = s[1]
      BY <3>3, <3>4
    <3>6. /\ Len(append_u64[k]) >= 1
          /\ number(append_u64[k]) = k
          /\ append_u64[k][1] # 0
      BY <3>1, <3>2, <3>3, <3>4, <3>5
    <3> QED
      BY <2>1, <3>6
  <2>4. CASE ~(k >= 100)
    <3>1. k \in 0 .. 99 /\ append_u64[k] = head(k)
      BY <1>1, <2>2, <2>4
    <3> HIDE DEF Bad
    <3>2. number(head(k)) = k /\ (head(k)[1] = 0 => k = 0)
      BY <3>1, ShortNumbers
    <3>3. Len(head(k)) >= 1
      <4>1. k < 10 \/ k >= 10
        BY <3>1
      <4>2. k < 10 => Len(head(k)) = 1
        BY <3>1, ShortNumbers
      <4>3. k >= 10 => Len(head(k)) = 2
        BY <3>1, ShortNumbers
      <4> QED
        BY <4>1, <4>2, <4>3
    <3>4. good(k)
      BY <3>1, <3>2, <3>3
    <3> QED
      BY <2>1, <3>4 DEF Bad
  <2> QED
    BY <2>3, <2>4
<1> QED
  BY <1>1, <1>2

(* ... and a larger number takes at least as much room. *)
LEMMA LargerIsLonger ==
  ASSUME NEW a \in 0 .. MaxU64, NEW b \in 0 .. MaxU64, a <= b
  PROVE  Len(append_u64[a]) <= Len(append_u64[b])
<1> DEFINE Bad == {m \in 0 .. MaxU64 :
                    \E n \in 0 .. m : Len(append_u64[n]) > Len(append_u64[m])}
<1>1. \A m \in 0 .. MaxU64 :
        /\ append_u64[m] \in Seq(Digits)
        /\ append_u64[m] = IF m >= 100 THEN append_u64[m \div 100] \o digits(m % 100)
                           ELSE head(m)
  BY Appending DEF written
<1>2. \A m \in 0 .. MaxU64 : Len(append_u64[m]) \in Nat /\ Len(append_u64[m]) >= 1
  BY NumbersAreWritten
<1>3. \A m \in 0 .. MaxU64 : m >= 100 =>
        /\ m \div 100 \in 0 .. MaxU64 /\ m \div 100 < m
        /\ Len(append_u64[m]) = Len(append_u64[m \div 100]) + 2
  <2> SUFFICES ASSUME NEW m \in 0 .. MaxU64, m >= 100
               PROVE  /\ m \div 100 \in 0 .. MaxU64 /\ m \div 100 < m
                      /\ Len(append_u64[m]) = Len(append_u64[m \div 100]) + 2
    OBVIOUS
  <2>1. /\ m \div 100 \in 0 .. MaxU64 /\ m \div 100 < m
        /\ m % 100 \in 0 .. 99
    BY WordSizes
  <2>2. Len(digits(m % 100)) = 2 /\ digits(m % 100) \in Seq(Digits)
    BY <2>1, TwoDigits DEF digits
  <2> DEFINE s == append_u64[m \div 100]
             t == digits(m % 100)
  <2>3. append_u64[m] = s \o t /\ s \in Seq(Digits)
    BY <1>1, <2>1
  <2>4. Len(t) = 2 /\ t \in Seq(Digits)
    BY <2>2
  <2> HIDE DEF s, t
  <2>5. Len(s \o t) = Len(s) + Len(t)
    BY <2>3, <2>4, Joined
  <2> QED
    BY <2>1, <2>3, <2>4, <2>5 DEF s
<1>4. \A m \in 0 .. 99 : m <= MaxU64 =>
        /\ m < 10 => Len(append_u64[m]) = 1
        /\ m >= 10 => Len(append_u64[m]) = 2
  <2> SUFFICES ASSUME NEW m \in 0 .. 99, m <= MaxU64
               PROVE  /\ m < 10 => Len(append_u64[m]) = 1
                      /\ m >= 10 => Len(append_u64[m]) = 2
    OBVIOUS
  <2>1. append_u64[m] = head(m)
    BY <1>1, WordSizes
  <2> QED
    BY <2>1, ShortNumbers
<1>5. Bad = {}
  <2> SUFFICES ASSUME Bad # {} PROVE FALSE
    OBVIOUS
  <2>1. PICK k \in Bad : \A m \in Bad : ~(m < k)
    <3>1. Bad \in SUBSET Nat
      OBVIOUS
    <3> HIDE DEF Bad
    <3> QED
      BY <3>1, LeastNumber
  <2>2. PICK n \in 0 .. k : Len(append_u64[n]) > Len(append_u64[k])
    BY <2>1
  <2>3. k \in 0 .. MaxU64 /\ n \in 0 .. MaxU64
    BY WordSizes
  <2>4. CASE k < 100
    <3>1. k \in 0 .. 99 /\ n \in 0 .. 99 /\ k <= MaxU64 /\ n <= MaxU64
      BY <2>3, <2>4, WordSizes
    <3> DEFINE la == Len(append_u64[n])
               lb == Len(append_u64[k])
    <3>2. /\ n < 10 => la = 1
          /\ n >= 10 => la = 2
          /\ k < 10 => lb = 1
          /\ k >= 10 => lb = 2
      BY <1>4, <3>1
    <3>3. la > lb /\ n <= k
      BY <2>2, <3>1
    <3> HIDE DEF Bad, la, lb
    <3> QED
      BY <3>1, <3>2, <3>3
  <2>5. CASE k >= 100 /\ n < 100
    <3>1. n \in 0 .. 99 /\ n <= MaxU64
      BY <2>3, <2>5, WordSizes
    <3> HIDE DEF Bad
    <3>2. Len(append_u64[n]) = 1 \/ Len(append_u64[n]) = 2
      BY <1>4, <3>1
    <3>3. Len(append_u64[k]) >= 3
      BY <1>2, <1>3, <2>3, <2>5
    <3> DEFINE la == Len(append_u64[n])
               lb == Len(append_u64[k])
    <3>4. la > lb /\ (la = 1 \/ la = 2) /\ lb >= 3 /\ lb \in Nat
      BY <1>2, <2>2, <2>3, <3>2, <3>3
    <3> HIDE DEF la, lb
    <3> QED
      BY <3>4
  <2>6. CASE k >= 100 /\ n >= 100
    <3>1. n \div 100 \in 0 .. k \div 100
      BY <2>3, <2>6, WordSizes
    <3>2. k \div 100 \notin Bad /\ k \div 100 \in 0 .. MaxU64
      BY <1>3, <2>1, <2>3, <2>6
    <3>3. ~(Len(append_u64[n \div 100]) > Len(append_u64[k \div 100]))
      BY <3>1, <3>2
    <3>4. /\ Len(append_u64[n]) = Len(append_u64[n \div 100]) + 2
          /\ Len(append_u64[k]) = Len(append_u64[k \div 100]) + 2
          /\ n \div 100 \in 0 .. MaxU64
      BY <1>3, <2>3, <2>6
    <3>5. /\ Len(append_u64[n \div 100]) \in Nat
          /\ Len(append_u64[k \div 100]) \in Nat
      BY <1>2, <3>2, <3>4
    <3> HIDE DEF Bad
    <3> QED
      BY <2>2, <3>3, <3>4, <3>5
  <2> QED
    BY <2>3, <2>4, <2>5, <2>6
<1>6. ~(Len(append_u64[a]) > Len(append_u64[b]))
  BY <1>5
<1> QED
  BY <1>2, <1>6

-----------------------------------------------------------------------------
(* Lines. *)

(* The id of a coder is an uint32_t. *)
LEMMA SmallRemainder ==
  ASSUME NEW n \in Nat, NEW m \in Nat \ {0}
  PROVE  n % m \in 0 .. m - 1
OBVIOUS

(* Cutting a line at its first blank. *)
LEMMA LineParts ==
  ASSUME NEW a \in Seq(Digits), NEW b \in Seq(Digits), NEW msg,
         NEW line, line = a \o <<Blank>> \o b \o <<Blank, msg, NewLine>>
  PROVE  /\ Len(line) = Len(a) + Len(b) + 4
         /\ \A i \in 1 .. Len(a) : line[i] = a[i]
         /\ line[Len(a) + 1] = Blank
         /\ \A i \in 1 .. Len(b) : line[Len(a) + 1 + i] = b[i]
<1> DEFINE Chars == Digits \cup {Blank, msg, NewLine}
           s == a \o <<Blank>>
           t == s \o b
           u == <<Blank, msg, NewLine>>
<1>1. /\ a \in Seq(Chars) /\ b \in Seq(Chars)
      /\ <<Blank>> \in Seq(Chars) /\ u \in Seq(Chars)
      /\ Len(<<Blank>>) = 1 /\ <<Blank>>[1] = Blank /\ Len(u) = 3
  OBVIOUS
<1> HIDE DEF Chars
<1>2. /\ s \in Seq(Chars) /\ Len(s) = Len(a) + 1 /\ Len(a) \in Nat
      /\ \A i \in 1 .. Len(a) : s[i] = a[i]
      /\ s[Len(a) + 1] = Blank
  BY <1>1, Joined
<1> HIDE DEF s, u
<1>3. /\ t \in Seq(Chars) /\ Len(t) = Len(s) + Len(b) /\ Len(b) \in Nat
      /\ \A i \in 1 .. Len(s) : t[i] = s[i]
      /\ \A i \in 1 .. Len(b) : t[Len(s) + i] = b[i]
  <2>1. s \in Seq(Chars) /\ b \in Seq(Chars)
    BY <1>1, <1>2
  <2> QED
    BY <2>1, Joined
<1> HIDE DEF t
<1>4. /\ Len(t \o u) = Len(t) + 3
      /\ \A i \in 1 .. Len(t) : (t \o u)[i] = t[i]
  <2>1. t \in Seq(Chars) /\ u \in Seq(Chars)
    BY <1>1, <1>3
  <2>2. /\ Len(t \o u) = Len(t) + Len(u)
        /\ \A i \in 1 .. Len(t) : (t \o u)[i] = t[i]
    BY <2>1, Joined
  <2> QED
    BY <1>1, <2>2
<1>5. line = t \o u
  BY DEF t, s, u
<1>6. Len(line) = Len(a) + Len(b) + 4
  BY <1>2, <1>3, <1>4, <1>5
<1>7. \A i \in 1 .. Len(a) + 1 : line[i] = s[i]
  BY <1>2, <1>3, <1>4, <1>5
<1>8. ASSUME NEW i \in 1 .. Len(b)
      PROVE  line[Len(a) + 1 + i] = b[i]
  <2>1. Len(s) + i \in 1 .. Len(t)
    BY <1>2, <1>3
  <2> QED
    BY <1>2, <1>3, <1>4, <1>5, <2>1
<1> QED
  BY <1>2, <1>6, <1>7, <1>8

(* Where a line is cut. *)
LEMMA FirstBlank ==
  ASSUME NEW line, Len(line) \in Nat,
         NEW gap \in 1 .. Len(line), line[gap] = Blank,
         \A i \in 1 .. gap - 1 : line[i] # Blank
  PROVE  first_blank(line) = gap
<1> DEFINE I == {i \in 1 .. Len(line) : line[i] = Blank}
<1>1. gap \in I /\ \A i \in I : gap <= i
  OBVIOUS
<1>2. \A x \in I : (\A y \in I : x <= y) => x = gap
  BY <1>1
<1>3. Min(I) = gap
  <2> HIDE DEF I
  <2> QED
    BY <1>1, <1>2 DEF Min
<1> QED
  BY <1>1, <1>3 DEF first_blank, SelectInSeq

(* What is cut out of a line is the word that was put there. *)
LEMMA SameWord ==
  ASSUME NEW w \in Seq(Digits), NEW line, NEW from \in Nat, w # <<>>,
         \A i \in 1 .. Len(w) : line[from + i] = w[i]
  PROVE  SubSeq(line, from + 1, from + Len(w)) = w
<1> DEFINE cut == SubSeq(line, from + 1, from + Len(w))
<1>1. Len(w) \in Nat /\ Len(w) >= 1 /\ \A i \in 1 .. Len(w) : w[i] \in Digits
  OBVIOUS
<1>2. \A i \in from + 1 .. from + Len(w) : line[i] \in Digits
  <2> SUFFICES ASSUME NEW i \in from + 1 .. from + Len(w)
               PROVE  line[i] \in Digits
    OBVIOUS
  <2>1. i - from \in 1 .. Len(w) /\ from + (i - from) = i
    BY <1>1
  <2> QED
    BY <1>1, <2>1
<1>3. /\ cut \in Seq(Digits)
      /\ Len(cut) = (from + Len(w)) - (from + 1) + 1
      /\ \A i \in 1 .. (from + Len(w)) - (from + 1) + 1 :
           cut[i] = line[(from + 1) + i - 1]
  <2>1. from + 1 \in Int /\ from + Len(w) \in Int /\ from + 1 <= from + Len(w)
    BY <1>1
  <2> QED
    BY <1>2, <2>1, SubSeqProperties
<1>4. Len(cut) = Len(w)
  BY <1>1, <1>3
<1>5. ASSUME NEW i \in 1 .. Len(w)
      PROVE  cut[i] = w[i]
  <2>1. i \in 1 .. (from + Len(w)) - (from + 1) + 1 /\ (from + 1) + i - 1 = from + i
    BY <1>1
  <2> QED
    BY <1>3, <2>1
<1> HIDE DEF cut
<1>6. cut = w
  BY <1>3, <1>4, <1>5
<1> QED
  BY <1>6 DEF cut

(* The parser on the two words of a line. *)
LEMMA LineIsReadBack ==
  ASSUME NEW time \in 0 .. MaxU64, NEW id \in 0 .. MaxU32
  PROVE  reads_back(time, id)
<1> DEFINE line == build_line(time, id, NewLine)
           gap  == first_blank(line)
           a    == append_u64[time]
           b    == append_u64[id]
<1>1. id \in 0 .. MaxU64
  BY WordSizes
<1>2. /\ a \in Seq(Digits) /\ a # <<>> /\ number(a) = time
      /\ a[1] = 0 => time = 0
      /\ Len(a) <= Len(append_u64[MaxU64])
  BY WordSizes, NumbersAreWritten, LargerIsLonger
<1>3. b \in Seq(Digits) /\ b # <<>> /\ number(b) = id
  BY <1>1, NumbersAreWritten
<1>4. line = a \o <<Blank>> \o b \o <<Blank, NewLine, NewLine>>
  BY DEF build_line
<1> HIDE DEF a, b, line
<1>5. /\ Len(line) = Len(a) + Len(b) + 4
      /\ \A i \in 1 .. Len(a) : line[i] = a[i]
      /\ line[Len(a) + 1] = Blank
      /\ \A i \in 1 .. Len(b) : line[Len(a) + 1 + i] = b[i]
  BY <1>2, <1>3, <1>4, LineParts
<1>6. Len(a) \in Nat /\ Len(b) \in Nat /\ Len(a) >= 1
  BY <1>2, <1>3
<1>7. gap = Len(a) + 1
  <2>1. \A i \in 1 .. Len(a) : line[i] # Blank
    <3> SUFFICES ASSUME NEW i \in 1 .. Len(a) PROVE line[i] # Blank
      OBVIOUS
    <3>1. line[i] = a[i] /\ a[i] \in Digits
      BY <1>2, <1>5
    <3> QED
      BY <3>1, WordSizes DEF Digits
  <2>2. /\ Len(a) + 1 \in 1 .. Len(line) /\ Len(line) \in Nat
        /\ (Len(a) + 1) - 1 = Len(a)
    BY <1>5, <1>6
  <2> QED
    BY <1>5, <2>1, <2>2, FirstBlank
<1> HIDE DEF gap
<1>8. SubSeq(line, 1, gap - 1) = a
  <2>1. SubSeq(line, 0 + 1, 0 + Len(a)) = a
    BY <1>2, <1>5, <1>6, SameWord
  <2> QED
    BY <1>6, <1>7, <2>1
<1>9. SubSeq(line, gap + 1, Len(line) - 3) = b
  <2>1. SubSeq(line, (Len(a) + 1) + 1, (Len(a) + 1) + Len(b)) = b
    BY <1>3, <1>5, <1>6, SameWord
  <2>2. gap + 1 = (Len(a) + 1) + 1 /\ Len(line) - 3 = (Len(a) + 1) + Len(b)
    BY <1>5, <1>6, <1>7
  <2> QED
    BY <2>1, <2>2
<1>10. is_number(a) /\ is_number(b)
  BY <1>2, <1>3 DEF is_number
<1>11. ft_parse_uint(a, FALSE) = time
  <2>1. ft_parse_uint(a, FALSE) =
          IF is_number(a) /\ number(a) <= MaxU64 THEN number(a) ELSE int_err
    BY <1>2, ParsesNumbers
  <2>2. number(a) <= MaxU64
    BY <1>2, WordSizes
  <2> QED
    BY <1>2, <1>10, <2>1, <2>2
<1>12. ft_parse_uint(b, TRUE) = id
  <2>1. ft_parse_uint(b, TRUE) =
          IF is_number(b) /\ number(b) <= MaxU32 THEN number(b) ELSE int_err
    BY <1>3, ParsesNumbers
  <2>2. number(b) <= MaxU32
    BY <1>3, WordSizes
  <2> QED
    BY <1>3, <1>10, <2>1, <2>2
<1>13. (line[1] = 0 => time = 0) /\ gap - 1 <= Len(append_u64[MaxU64])
  BY <1>2, <1>5, <1>6, <1>7
<1> QED
  BY <1>8, <1>9, <1>11, <1>12, <1>13 DEF reads_back, gap, line

(***************************************************************************)
(* Whatever a log line says, the program's own parser reads it back        *)
(* (append_u64, build_line, ft_parse_uint), for words of any size.         *)
(***************************************************************************)
THEOREM LinesAreReadBack == MainSpec => []LinesReadBack
<1>1. ASSUME NEW time \in Elapsed
      PROVE  reads_back(time, time % (MaxU32 + 1))
  <2>1. time \in 0 .. MaxU64 /\ time % (MaxU32 + 1) \in 0 .. MaxU32
    BY Clocks, WordSizes, SmallRemainder
  <2> QED
    BY <2>1, LineIsReadBack
<1>2. LinesReadBack
  BY <1>1 DEF LinesReadBack
<1> QED
  BY <1>2, PTL

-----------------------------------------------------------------------------
(* main is a launch. *)

LEMMA MainInitIsInit == MainInit => Init
BY DEF MainInit

(* A rejected command line ends like a failing first step: nothing to undo. *)
LEMMA MainStepIsStep ==
  ASSUME IInv, [MainNext]_main_vars
  PROVE  [Next]_vars
<1>1. CASE parse_arguments
  BY <1>1 DEF parse_arguments
<1>2. CASE parse_error
  <2>1. main = "app" /\ live = {}
    BY <1>2 DEF IInv, LiveInv, InitSteps, undo, parse_error, parsing
  <2>2. init_fail
    BY <1>2, <2>1 DEF parse_error, init_fail, init_vars, InitSteps
  <2> QED
    BY <2>2 DEF Next, main_step
<1>3. CASE run(main_step)
  BY <1>3 DEF run, Next
<1>4. CASE \/ run(\E t \in Threads : thread_step(t))
           \/ run(\E t \in Threads : spurious_wakeup(t))
  BY <1>4 DEF run, Next
<1>5. CASE UNCHANGED main_vars
  BY <1>5 DEF main_vars
<1> QED
  BY <1>1, <1>2, <1>3, <1>4, <1>5 DEF MainNext, main_runs

(***************************************************************************)
(* The program implements Launch's specification: parse_arguments stutters *)
(* and a parse error is a first initialisation that fails.                 *)
(***************************************************************************)
THEOREM MainIsALaunch == MainSpec => Spec
<1>1. IInv /\ [Next]_vars => IInv'
  BY InvarianceStep
<1>2. MainInit => Init /\ IInv
  BY MainInitIsInit, InitIInv
<1>3. IInv /\ [MainNext]_main_vars => [Next]_vars
  BY MainStepIsStep
<1> QED
  BY <1>1, <1>2, <1>3, PTL DEF MainSpec, Spec

-----------------------------------------------------------------------------
(* The status. *)

(***************************************************************************)
(* The status is 1 from the first failure on, and only a start that is     *)
(* complete gets to the join, or to the end, without one.                  *)
(***************************************************************************)
StatusInv ==
  /\ status \in {0, 1}
  /\ status = 1 => ~simulation_started /\ main \in {"abort", "join", "cleanup", "exit"}
  /\ main = "abort" => status = 1
  /\ main \in {"join", "cleanup", "exit"} /\ status = 0 => simulation_started
  /\ simulation_started => main \in {"join", "cleanup", "exit"}

(* Only a step that fails counts as a failure. *)
LEMMA FailingSteps ==
  ASSUME IInv, [Next]_vars
  PROVE  \/ ~fails /\ UNCHANGED <<main, simulation_started>>
         \/ /\ fails
            /\ UNCHANGED simulation_started
            /\ main \in InitSteps \cup {"create_monitor", "create_coders"}
            /\ main' \in {"abort", "cleanup", "exit"}
         \/ /\ ~fails
            /\ main \in InitSteps \cup {"create_monitor"}
            /\ main' \in InitSteps \cup {"create_monitor", "create_coders"}
            /\ UNCHANGED simulation_started
         \/ /\ ~fails
            /\ main = "create_coders" /\ main' = "join"
            /\ simulation_started'
         \/ /\ ~fails
            /\ main \in {"abort", "join", "cleanup"}
            /\ main' \in {"join", "cleanup", "exit"}
            /\ UNCHANGED simulation_started
<1> USE DEF fails, InitSteps, DongleParts
<1>1. CASE init_fail \/ create_monitor_fails \/ start_coder_fails
  BY <1>1 DEF init_fail, create_monitor_fails, start_coder_fails, flag_vars
<1>2. ASSUME main \notin InitSteps \/ main' # "exit",
             main # "create_monitor" \/ main' # "cleanup",
             main # "create_coders" \/ main' # "abort"
      PROVE  ~fails
  BY <1>2 DEF init_fail, create_monitor_fails, start_coder_fails
<1>3. CASE init_step
  <2>1. main' \in InitSteps \cup {"create_monitor"}
    BY <1>3 DEF init_step, after
  <2> QED
    BY <1>2, <1>3, <2>1 DEF init_step, flag_vars
<1>4. CASE create_monitor \/ start_coder \/ abort_start \/ start_all_threads
  BY <1>2, <1>4 DEF create_monitor, start_coder, abort_start,
                    start_all_threads, flag_vars
<1>5. CASE joining
  BY <1>2, <1>5 DEF joining, join_coder, join_monitor, cleanup_app, flag_vars
<1>6. CASE \E t \in Threads : thread_step(t) \/ spurious_wakeup(t)
  BY <1>2, <1>6, ThreadFrame DEF main_rests, thread_step, wait_for_start, wake,
     stop_running, return, wake_all_dongles, spurious_wakeup, thread_frame
<1>7. CASE UNCHANGED vars
  BY <1>2, <1>7 DEF vars, flag_vars
<1> QED
  BY <1>1, <1>3, <1>4, <1>5, <1>6, <1>7, StepCases DEF initialising, starting

LEMMA StatusStep ==
  ASSUME IInv, [MainNext]_main_vars, StatusInv
  PROVE  StatusInv'
<1> USE DEF StatusInv, InitSteps, DongleParts
<1>1. CASE parse_arguments \/ UNCHANGED main_vars
  BY <1>1 DEF parse_arguments, main_vars, vars, flag_vars
<1>2. CASE parse_error
  BY <1>2 DEF parse_error, parsing, flag_vars
<1>3. CASE MainNext /\ ~parse_arguments /\ ~parse_error
  <2>1. status' = IF fails THEN 1 ELSE status
    BY <1>3 DEF MainNext, main_runs, run
  <2>2. [Next]_vars
    BY MainStepIsStep
  <2> QED
    BY <2>1, <2>2, FailingSteps
<1> QED
  BY <1>1, <1>2, <1>3

(***************************************************************************)
(* main's exit status tells the run: 0 when everybody was let start and    *)
(* has returned, 1 when nobody was, wherever the start failed and whatever *)
(* was joined after the failure (main, start_simulation).                  *)
(***************************************************************************)
THEOREM StatusIsRight == MainSpec => []StatusTellsTheRun
<1>1. MainInit => StatusInv
  BY DEF MainInit, Init, StatusInv
<1>2. IInv /\ StatusInv /\ [MainNext]_main_vars => StatusInv'
  BY StatusStep
<1>3. IInv /\ StatusInv => StatusTellsTheRun
  BY DEF IInv, BarrierInv, LocksOutliveThreads, StatusInv, StatusTellsTheRun
<1> QED
  BY <1>1, <1>2, <1>3, MainIsALaunch, Invariance, PTL DEF MainSpec

-----------------------------------------------------------------------------
(* The command line. *)

(* What parse_arguments has found out stays so. *)
ParseInv ==
  /\ argv \in Commands
  /\ parsed => accepts
  /\ ~parsed /\ ~parsing => ~accepts

LEMMA ParseStep ==
  ASSUME ParseInv, [MainNext]_main_vars
  PROVE  ParseInv'
<1>1. UNCHANGED argv
  BY DEF MainNext, main_runs, parse_arguments, parse_error, run, main_vars
<1>2. accepts' <=> accepts
  BY <1>1 DEF accepts, parse_values, parse_scheduler, validate_semantic_constraints,
              args, word
<1>3. parsed' => accepts
  BY DEF ParseInv, MainNext, main_runs, parse_arguments, parse_error, run, main_vars
<1>4. ~parsed' /\ ~parsing' => ~accepts
  BY DEF ParseInv, parsing, MainNext, main_runs, parse_arguments, parse_error, run,
         main_vars, vars
<1> QED
  BY <1>1, <1>2, <1>3, <1>4 DEF ParseInv

(* Each field has a word of its own on a command line of the right length. *)
LEMMA FieldsHaveWords ==
  ASSUME argv \in Commands, Len(argv) = 8, NEW field \in Range(fields)
  PROVE  /\ args(field) = IF is_number(word(field)) /\
                             number(word(field)) <= (IF field \in Counts THEN MaxU32
                                                     ELSE MaxU64)
                          THEN number(word(field)) ELSE int_err
         /\ is_number(word(field)) => number(word(field)) \in Nat
<1> DEFINE i == CHOOSE j \in DOMAIN fields : fields[j] = field
<1>1. DOMAIN fields = 1 .. 7
  BY DEF fields
<1>2. i \in DOMAIN fields
  BY DEF Range
<1>3. i \in DOMAIN argv \cap DOMAIN fields
  BY <1>1, <1>2, CommandLines
<1>4. word(field) = argv[i]
  BY DEF word
<1> HIDE DEF i
<1>5. word(field) \in Seq(Range(word(field)))
  BY <1>3, <1>4, CommandLines
<1>6. (field \in Counts) \in BOOLEAN
  OBVIOUS
<1> QED
  BY <1>5, <1>6, ParsesNumbers DEF args

(* What a command line is accepted for is what it asks for. *)
LEMMA AcceptsWhatIsAskedFor ==
  ASSUME argv \in Commands
  PROVE  /\ accepts <=> well_formed
         /\ accepts => \A f \in Range(fields) : args(f) = number(word(f))
<1>1. Len(argv) + 1 = 9 <=> Len(argv) = 8
  <2>1. Len(argv) \in Nat
    BY CommandLines
  <2>2. \A n \in Nat : n + 1 = 9 <=> n = 8
    OBVIOUS
  <2> QED
    BY <2>1, <2>2
<1>2. CASE Len(argv) # 8
  BY <1>1, <1>2 DEF accepts, well_formed
<1>3. CASE Len(argv) = 8
  <2>1. Counts \subseteq Range(fields) /\ Range(fields) = Counts \cup Times
    <3>1. fields[1] = "number_of_coders" /\ fields[6] = "number_of_compiles_required"
      BY DEF fields
    <3>2. 1 \in DOMAIN fields /\ 6 \in DOMAIN fields
      BY DEF fields
    <3>3. Counts \subseteq Range(fields)
      BY <3>1, <3>2 DEF Counts, Range
    <3> QED
      BY <3>3 DEF Times
  <2>2. ASSUME NEW f \in Counts
        PROVE  args(f) # int_err /\ args(f) # 0 <=> asked_for(f, 1 .. MaxU32)
    <3>1. f \in Range(fields)
      BY <2>1
    <3>2. /\ args(f) = IF is_number(word(f)) /\ number(word(f)) <= MaxU32
                       THEN number(word(f)) ELSE int_err
          /\ is_number(word(f)) => number(word(f)) \in Nat
      BY <1>3, <3>1, FieldsHaveWords
    <3> QED
      BY <3>2, WordSizes DEF asked_for, int_err
  <2>3. ASSUME NEW f \in Times
        PROVE  args(f) # int_err /\ args(f) <= MaxTime <=> asked_for(f, 0 .. MaxTime)
    <3>1. f \in Range(fields) /\ f \notin Counts
      BY DEF Times
    <3>2. /\ args(f) = IF is_number(word(f)) /\ number(word(f)) <= MaxU64
                       THEN number(word(f)) ELSE int_err
          /\ is_number(word(f)) => number(word(f)) \in Nat
      BY <1>3, <3>1, FieldsHaveWords
    <3>3. MaxTime \in Nat /\ MaxTime <= MaxU64 /\ MaxU64 \in Nat
      BY Clocks, WordSizes
    <3> QED
      BY <3>2, <3>3 DEF asked_for, int_err
  <2>4. accepts <=> well_formed
    <3>1. accepts <=> /\ \A f \in Counts \cup Times : args(f) # int_err
                      /\ parse_scheduler
                      /\ \A f \in Counts : args(f) # 0
                      /\ \A f \in Times : args(f) <= MaxTime
      BY <1>1, <1>3, <2>1
         DEF accepts, parse_values, validate_semantic_constraints, checked_times
    <3>2. well_formed <=> /\ \A f \in Counts : asked_for(f, 1 .. MaxU32)
                          /\ \A f \in Times : asked_for(f, 0 .. MaxTime)
                          /\ parse_scheduler
      BY <1>3 DEF well_formed, parse_scheduler
    <3> QED
      BY <2>2, <2>3, <3>1, <3>2
  <2>5. ASSUME accepts, NEW f \in Range(fields)
        PROVE  args(f) = number(word(f))
    <3>1. args(f) # int_err
      BY <2>5 DEF accepts, parse_values
    <3> QED
      BY <1>3, <3>1, FieldsHaveWords
  <2> QED
    BY <2>4, <2>5
<1> QED
  BY <1>2, <1>3

LEMMA Parsing == MainSpec => []ParseInv
<1>1. MainInit => ParseInv
  BY DEF MainInit, Init, ParseInv, parsing
<1>2. ParseInv /\ [MainNext]_main_vars => ParseInv'
  BY ParseStep
<1> QED
  BY <1>1, <1>2, PTL DEF MainSpec

(***************************************************************************)
(* A run starts exactly for the command lines that ask for one, and with   *)
(* the numbers their words stand for (parse_arguments, ft_parse_uint),     *)
(* whatever the widths of the words and of the fields.                     *)
(***************************************************************************)
THEOREM RunsStartAsAskedFor == MainSpec => []StartsAsAskedFor
<1>1. ParseInv => StartsAsAskedFor
  BY AcceptsWhatIsAskedFor DEF ParseInv, StartsAsAskedFor
<1> QED
  BY <1>1, Parsing, PTL

(***************************************************************************)
(* The times of a run that was let start, added to the clock, stay within  *)
(* int64_t: validate_semantic_constraints bounds every one of them.        *)
(***************************************************************************)
THEOREM TimesAddUp == MainSpec => []SumsFit
<1>1. ParseInv => SumsFit
  <2> SUFFICES ASSUME ParseInv, parsed, NEW field \in Times, NEW now \in Uptimes
               PROVE  now + args(field) + 10 <= MaxI64
    BY DEF SumsFit
  <2>1. well_formed /\ args(field) = number(word(field))
    BY AcceptsWhatIsAskedFor DEF ParseInv, Times
  <2>2. args(field) \in 0 .. MaxTime
    BY <2>1 DEF well_formed, asked_for
  <2>3. now \in 0 .. MaxTime
    BY Clocks
  <2> QED
    BY <2>2, <2>3, Clocks
<1> QED
  BY <1>1, Parsing, PTL

=============================================================================
