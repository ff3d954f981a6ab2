------------------------------ MODULE Decimal -------------------------------
(***************************************************************************)
(* Numbers as the program reads them from its arguments and writes them    *)
(* into its log.  A string is a sequence of characters; a digit is its     *)
(* value, every other character stands for itself.  The word sizes are     *)
(* constants: the program's are 2^64 - 1 and 2^32 - 1.                     *)
(***************************************************************************)
EXTENDS Integers, SequencesExt

CONSTANTS
  MaxU64, MaxU32,
  Blank, NewLine   (* characters that are no digits                        *)

ASSUME WordSizes ==
  /\ MaxU32 \in Nat
  /\ MaxU64 \in Nat
  /\ 9 <= MaxU32 /\ MaxU32 < MaxU64
  /\ {Blank, NewLine} \cap (0 .. 9) = {}

Digits  == 0 .. 9
int_err == -1  (* the result of a parser that fails: no unsigned value *)

(* Mutant of fits: the digit that is added may wrap the product. *)
product_fits(value, d) == value <= MaxU64 \div 10

(* Does value * 10 + d fit into an uint64_t? *)
fits(value, d) == value <= (MaxU64 - d) \div 10

(* One turn of ft_parse_uint's loop. *)
read_char(value, ch) ==
  IF value # int_err /\ ch \in Digits /\ fits(value, ch)
  THEN (value * 10 + ch) % (MaxU64 + 1) ELSE int_err

(* What it has read before each turn of the loop, and behind the last one.  *)
reading(str) ==
  LET value[i \in 0 .. Len(str)] ==
        IF i = 0 THEN 0 ELSE read_char(value[i - 1], str[i])
  IN  value

ft_parse_uint(str, is_u32) ==
  LET value == reading(str)[Len(str)]
  IN  IF str = <<>> \/ (is_u32 /\ value > MaxU32) THEN int_err ELSE value

-----------------------------------------------------------------------------

(* The two characters at 2 * part of digits_lookup's table. *)
digits(part) == <<part \div 10, part % 10>>

(* Mutant of head: a single digit is copied from the table, too. *)
head_of_two(n) == digits(n)

(* What append_u64 puts in front of the pairs. *)
head(n) == IF n < 10 THEN <<n>> ELSE digits(n)

(* append_u64 fills its buffer from the end, two digits at a time. *)
append_u64[n \in 0 .. MaxU64] ==
  IF n >= 100 THEN append_u64[n \div 100] \o digits(n % 100) ELSE head(n)

(* The message is one character here. *)
build_line(time, id, msg) ==
  append_u64[time] \o <<Blank>> \o append_u64[id] \o <<Blank, msg, NewLine>>

=============================================================================
