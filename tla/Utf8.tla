-------------------------------- MODULE Utf8 --------------------------------
(***************************************************************************)
(* Reading UTF-8 as UTF-32 and writing it (thorin/util/utf8.cpp), byte by     *)
(* byte.  What is read here has been written by decode, or is any file.       *)
(***************************************************************************)
EXTENDS Integers, Sequences, FiniteSets

CONSTANTS Files,     \* sequences of bytes that are read
          Chars,     \* code points that are written
          MaxLen     \* bound: characters that are written and read

VARIABLES is,        \* the bytes that are left to read
          os,        \* the bytes that have been written
          put,       \* the code points that have been written
          got        \* the code points that have been read

vars == <<is, os, put, got>>

EoF == -1
Err == -2

(* c & mask == bits for the leading ones of a byte.                               *)
num_bytes(c) == IF c < 128 THEN 1 ELSE IF c \in 192..223 THEN 2 ELSE IF c \in 224..239 THEN 3 ELSE IF c \in 240..247 THEN 4 ELSE 0
first(c, n) == c % (2^(7 - n))
append(c, b) == c * 64 + (b % 64)
is_valid(b) == b \div 64 = 2
get(s)      == IF s = <<>> THEN 255 ELSE Head(s)     \* eof as a char8_t
after(s)    == IF s = <<>> THEN s ELSE Tail(s)

(* The character, and the bytes that follow.                                      *)
RECURSIVE rest(_, _, _)
rest(c, n, s) ==
    IF n = 0 THEN <<c, s>>
    ELSE IF is_valid(get(s)) THEN rest(append(c, get(s)), n - 1, after(s))
    ELSE <<Err, after(s)>>
encode_rest(n, c, s) == rest(first(c, n), n - 1, s)
encode(s) ==
    IF s = <<>> THEN <<EoF, s>>
    ELSE LET c == Head(s)
             n == num_bytes(c)
         IN CASE n = 0 -> <<0, Tail(s)>> [] n = 1 -> <<c, Tail(s)>> [] OTHER -> encode_rest(n, c, Tail(s))

ao(c, a, o) == (c % a) + o
decodable(c) == c \in 0..1114111
decode(c) ==
    CASE c <= 127                   -> <<c>>
      [] c \in 128..2047            -> <<ao(c \div 64, 32, 192), ao(c, 64, 128)>>
      [] c \in 2048..65535          -> <<ao(c \div 4096, 16, 224), ao(c \div 64, 64, 128), ao(c, 64, 128)>>
      [] c \in 65536..1114111       -> <<ao(c \div 262144, 8, 240), ao(c \div 4096, 64, 128), ao(c \div 64, 64, 128), ao(c, 64, 128)>>
      [] OTHER                      -> <<>>

Init == is \in Files /\ os = <<>> /\ put = <<>> /\ got = <<>>

Write == \E c \in Chars : /\ Len(put) < MaxLen /\ got = <<>>
                          /\ os' = os \o decode(c) /\ put' = Append(put, c) /\ is' = is \o decode(c) /\ UNCHANGED got
Read  == /\ Len(got) <= MaxLen /\ EoF \notin {got[i] : i \in DOMAIN got}
         /\ got' = Append(got, encode(is)[1]) /\ is' = encode(is)[2] /\ UNCHANGED <<os, put>>
Next == Write \/ Read
Spec == Init /\ [][Next]_vars
-----------------------------------------------------------------------------
Ended == got # <<>> /\ got[Len(got)] = EoF
Foreign == Len(got) > 0 /\ put = <<>>

(* utf8.h:33 and :37: what has been written is read again, and nothing else.        *)
RoundTrip == Ended /\ put # <<>> => got = Append(put, EoF)
(* utf8.h:37 and lexer.h:39: every character that has been read can be written.      *)
Writable  == \A i \in DOMAIN got : got[i] >= 0 => decodable(got[i])
(* utf8.h:34: bytes that are not UTF-8 are an error.                               *)
Rejects   == Foreign /\ got[1] = 0 => \E f \in Files : f = <<0>> \o is
=============================================================================
