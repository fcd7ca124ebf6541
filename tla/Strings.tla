------------------------------ MODULE Strings -------------------------------
(***************************************************************************)
(* The string functions of Kernel/src/string.c and the memory functions of *)
(* Kernel/src/mm/memory.c, loop by loop, over a small memory of bytes.     *)
(* An address is an index of the memory, NULL is -1.                       *)
(*                                                                         *)
(* One call is made from every memory, with arguments a caller may give:   *)
(* terminated strings, room for the result, source and target apart.       *)
(***************************************************************************)
EXTENDS Integers, Sequences, FiniteSets, FiniteSetsExt

CONSTANTS
  Size,       \* bytes in memory; the last one is 0
  Bytes,      \* values that bytes have, 0 among them
  SizeMax     \* SIZE_MAX, where a size_t below 0 wraps to

NULL == -1
Addresses == 0..(Size - 1)

VARIABLES
  mem,        \* memory
  before,     \* memory before the call (history)
  call        \* function and arguments of the call, <<>> before it

vars == <<mem, before, call>>

-----------------------------------------------------------------------------
(* The functions.  What changes memory returns the new one.                *)

RECURSIVE strcpy(_, _, _)
strcpy(m, d, s) ==
  IF m[s] # 0 THEN strcpy([m EXCEPT ![d] = m[s]], d + 1, s + 1) ELSE [m EXCEPT ![d] = 0]

(* Faulty variant: the terminator is copied only if there is room for it. *)
RECURSIVE Badstrncpy(_, _, _, _)
Badstrncpy(m, d, s, n) ==
  IF n # 0 /\ m[s] # 0 THEN Badstrncpy([m EXCEPT ![d] = m[s]], d + 1, s + 1, n - 1)
  ELSE IF n # 0 THEN [m EXCEPT ![d] = 0] ELSE m

RECURSIVE strncpy(_, _, _, _)
strncpy(m, d, s, n) ==
  IF n # 0 /\ m[s] # 0 THEN strncpy([m EXCEPT ![d] = m[s]], d + 1, s + 1, n - 1) ELSE [m EXCEPT ![d] = 0]

RECURSIVE strlen(_, _)
strlen(m, s) == IF m[s] # 0 THEN 1 + strlen(m, s + 1) ELSE 0

RECURSIVE strcmp(_, _, _)
strcmp(m, s, t) ==
  IF m[s] # m[t] THEN m[s] - m[t] ELSE IF m[s] = 0 THEN 0 ELSE strcmp(m, s + 1, t + 1)

RECURSIVE strncmp(_, _, _, _)
strncmp(m, s, t, n) ==
  IF n = 0 THEN 0
  ELSE IF m[s] # m[t] THEN (IF m[s] < m[t] THEN -1 ELSE 1)
  ELSE IF m[s] = 0 THEN 0 ELSE strncmp(m, s + 1, t + 1, n - 1)

(* Faulty variant: the terminator is tested first. *)
RECURSIVE Badstrchr(_, _, _)
Badstrchr(m, s, c) ==
  IF m[s] = 0 THEN NULL ELSE IF m[s] = c THEN s ELSE Badstrchr(m, s + 1, c)

RECURSIVE strchr(_, _, _)
strchr(m, s, c) ==
  IF m[s] = c THEN s ELSE IF m[s] = 0 THEN NULL ELSE strchr(m, s + 1, c)

(* n has been decremented when it is tested behind the loop: it is 0 when  *)
(* the last character searched is c, and SIZE_MAX when there was none.     *)
RECURSIVE strnchr(_, _, _, _)
strnchr(m, s, c, n) ==
  LET rest == IF n = 0 THEN SizeMax ELSE n - 1 IN
  IF n # 0 /\ m[s] # c THEN IF m[s] = 0 THEN NULL ELSE strnchr(m, s + 1, c, rest)
  ELSE IF rest <= 0 THEN NULL ELSE s

RECURSIVE strrchrFrom(_, _, _, _)
strrchrFrom(m, s, c, occ) ==
  IF m[s] = 0 THEN occ ELSE strrchrFrom(m, s + 1, c, IF m[s] = c THEN s + 1 ELSE occ)
strrchr(m, s, c) == strrchrFrom(m, s, c, NULL)

RECURSIVE strspn(_, _, _)
strspn(m, s, t) == IF m[s] # 0 /\ strchr(m, t, m[s]) # NULL THEN 1 + strspn(m, s + 1, t) ELSE 0

RECURSIVE strcspn(_, _, _)
strcspn(m, s, t) == IF m[s] # 0 /\ strchr(m, t, m[s]) = NULL THEN 1 + strcspn(m, s + 1, t) ELSE 0

(* Faulty variant: the token's last character is cut off. *)
Badstrtok_r(m, str, delim, save) ==
  LET from  == IF str # NULL THEN str ELSE save
      start == from + strspn(m, from, delim)
      end   == start + strcspn(m, start, delim)
  IN  IF from = NULL \/ end = start THEN <<NULL, m>>
      ELSE <<start, [m EXCEPT ![end - 1] = 0]>>

(* The token's address and memory; *saveptr is not written.  save is what  *)
(* *saveptr holds.                                                         *)
strtok_r(m, str, delim, save) ==
  LET from  == IF str # NULL THEN str ELSE save
      start == from + strspn(m, from, delim)
      end   == start + strcspn(m, start, delim)
  IN  IF from = NULL \/ end = start THEN <<NULL, m>>
      ELSE <<start, IF m[end] # 0 THEN [m EXCEPT ![end] = 0] ELSE m>>

strcat(m, d, s) == strcpy(m, d + strlen(m, d), s)
strncat(m, d, s, n) == strncpy(m, d + strlen(m, d), s, n)

touppercase(c) == IF c >= 97 /\ c <= 122 THEN c - 97 + 65 ELSE c

RECURSIVE strnupr(_, _, _)
strnupr(m, s, n) == IF m[s] # 0 /\ n > 0 THEN strnupr([m EXCEPT ![s] = touppercase(@)], s + 1, n - 1) ELSE m
strupr(m, s) == strnupr(m, s, Size)

RECURSIVE memset(_, _, _, _)
memset(m, a, val, count) == IF count = 0 THEN m ELSE memset([m EXCEPT ![a] = val], a + 1, val, count - 1)

(* The target pointer starts at the source: the loops copy the source onto *)
(* itself.                                                                 *)
RECURSIVE memcpyLoop(_, _, _, _)
memcpyLoop(m, dp, sp, count) ==
  IF count = 0 THEN m ELSE memcpyLoop([m EXCEPT ![dp] = m[sp]], dp + 1, sp + 1, count - 1)
memcpy(m, dest, addr, count) == memcpyLoop(m, addr, addr, count)

RECURSIVE memcmp(_, _, _, _)
memcmp(m, a, b, n) ==
  IF n = 0 THEN 0 ELSE IF m[a] # m[b] THEN m[a] - m[b] ELSE memcmp(m, a + 1, b + 1, n - 1)

-----------------------------------------------------------------------------
(* The string at an address, without its end. *)
End(m, s) == Min({i \in s..(Size - 1) : m[i] = 0})
Str(m, s) == [k \in 1..(End(m, s) - s) |-> m[s + k - 1]]

Init ==
  /\ mem \in {[a \in Addresses |-> IF a < Size - 1 THEN f[a] ELSE 0] : f \in [0..(Size - 2) -> Bytes]}
  /\ before = mem
  /\ call = <<>>

(* A call that leaves memory as m. *)
Called(name, args, m) == call' = <<name>> \o args /\ mem' = m /\ UNCHANGED before

(* The n bytes from d on exist and are none of the string at s. *)
Room(d, n, s) == d + n <= Size /\ (d + n <= s \/ d > End(mem, s))

Next ==
  call = <<>> /\ \E d, s \in Addresses :
    LET len == strlen(mem, s)
        old == strlen(mem, d) IN
    \/ Room(d, len + 1, s) /\ Called("strcpy", <<d, s>>, strcpy(mem, d, s))
    \/ Room(d, old + len + 1, s) /\ Called("strcat", <<d, s>>, strcat(mem, d, s))
    \/ Called("strupr", <<s, s>>, strupr(mem, s))
    \/ \E save \in {NULL, d} : Called("strtok_r", <<NULL, s, save>>, strtok_r(mem, NULL, s, save)[2])
    \/ Called("strtok_r", <<d, s, NULL>>, strtok_r(mem, d, s, NULL)[2])
    \/ \E n \in 0..Size :
         \/ Room(d, n + 1, s) /\ Called("strncpy", <<d, s, n>>, strncpy(mem, d, s, n))
         \/ Room(d, old + n + 1, s) /\ Called("strncat", <<d, s, n>>, strncat(mem, d, s, n))
         \/ Called("strnupr", <<s, s, n>>, strnupr(mem, s, n))
         \/ d + n < Size /\ \E v \in Bytes : Called("memset", <<d, d, n, v>>, memset(mem, d, v, n))
         \/ d + n <= s /\ s + n <= Size /\ Called("memcpy", <<d, s, n>>, memcpy(mem, d, s, n))

Spec == Init /\ [][Next]_vars

-----------------------------------------------------------------------------
TypeOK == mem \in [Addresses -> Bytes \cup {touppercase(b) : b \in Bytes}] /\ mem[Size - 1] = 0

Occurs(m, s, c) == {i \in s..(End(m, s) - 1) : m[i] = c}
Chars(m, s) == {m[i] : i \in s..(End(m, s) - 1)}

(* strlen, strchr, strspn and strcspn find what their comments say, the    *)
(* end of the string as a character included; strcmp, strncmp and memcmp   *)
(* are 0 for equal strings, prefixes and ranges, and have the sign of the  *)
(* first difference otherwise.  strnchr and strrchr agree with theirs in   *)
(* part: strnchr finds a character among the first n - 1 and nothing in a  *)
(* string that ends before, and strrchr finds something just where c is.   *)
ReadersAgree ==
  call = <<>> => \A s, t \in Addresses :
    LET differ == {k \in 0..(Size - 1 - Max({s, t})) : mem[s + k] # mem[t + k]}
        sign(x) == IF x < 0 THEN -1 ELSE IF x > 0 THEN 1 ELSE 0
        upto(n) == LET ks == {k \in differ : k < n} IN
                   IF ks = {} THEN 0 ELSE sign(mem[s + Min(ks)] - mem[t + Min(ks)])
        both    == Min({End(mem, s) - s, End(mem, t) - t}) + 1
    IN  /\ strlen(mem, s) = Len(Str(mem, s))
        /\ \A c \in Bytes : strchr(mem, s, c) = IF c = 0 THEN End(mem, s)
             ELSE IF Occurs(mem, s, c) = {} THEN NULL ELSE Min(Occurs(mem, s, c))
        /\ \A c \in Bytes \ {0} :
             LET at == Occurs(mem, s, c) IN
             /\ strrchr(mem, s, c) = NULL <=> at = {}
             /\ \A n \in 0..Size :
                  /\ at # {} /\ Min(at) < s + n - 1 => strnchr(mem, s, c, n) = Min(at)
                  /\ at = {} /\ End(mem, s) < s + n => strnchr(mem, s, c, n) = NULL
        /\ strspn(mem, s, t)  = Min({End(mem, s)} \cup {i \in s..End(mem, s) : mem[i] \notin Chars(mem, t)}) - s
        /\ strcspn(mem, s, t) = Min({End(mem, s)} \cup {i \in s..End(mem, s) : mem[i] \in Chars(mem, t)}) - s
        /\ sign(strcmp(mem, s, t)) = upto(both)
        /\ \A n \in 0..Size : strncmp(mem, s, t, n) = upto(Min({n, both}))
        /\ \A n \in 0..(Size - Max({s, t})) : sign(memcmp(mem, s, t, n)) = upto(n)

(* "Get pointer to first occurance of c in string s, searching at most n   *)
(* characters" and "Get pointer to last occurance of c in string s".  In   *)
(* the code strnchr misses the n-th character, and points behind the n     *)
(* characters when it met neither c nor the end; strrchr points behind the *)
(* last occurrence.                                                        *)
SearchesAsSaid ==
  call = <<>> => \A s \in Addresses, c \in Bytes \ {0} :
    LET at == Occurs(mem, s, c) IN
    /\ strrchr(mem, s, c) = IF at = {} THEN NULL ELSE Max(at)
    /\ \A n \in 0..Size :
         strnchr(mem, s, c, n) = IF at # {} /\ Min(at) < s + n THEN Min(at) ELSE NULL

(* The functions that write leave the string that was asked for, and       *)
(* change nothing outside it: strcpy takes one byte more than strlen       *)
(* counts, strncpy one more than n, and memcpy writes nothing at all.      *)
WritesAsAsked ==
  call # <<>> /\ call[1] # "strtok_r" =>
    LET f == call[1]
        d == call[2]
        n == IF Len(call) > 3 THEN call[4] ELSE Size
        src == SubSeq(Str(before, call[3]), 1, Min({n, Len(Str(before, call[3]))}))
        kept == IF f \in {"strcat", "strncat"} THEN Str(before, d) ELSE <<>>
        written == CASE f \in {"strcpy", "strncpy", "strcat", "strncat"} -> kept \o src \o <<0>>
                     [] f \in {"strupr", "strnupr"} -> [i \in DOMAIN src |-> touppercase(src[i])]
                     [] f = "memset" -> [i \in 1..n |-> call[5]]
                     [] OTHER -> <<>>
    IN  mem = [a \in Addresses |-> IF a \in d..(d + Len(written) - 1) THEN written[a - d + 1] ELSE before[a]]

(* strtok_r ends the first token of its string, or of the string that      *)
(* *saveptr points to, and changes nothing else.                           *)
FirstToken ==
  call # <<>> /\ call[1] = "strtok_r" =>
    LET from  == IF call[2] # NULL THEN call[2] ELSE call[4]
        delim == Chars(before, call[3])
        token == {i \in from..(End(before, from) - 1) : before[i] \notin delim}
        end   == Min({i \in Min(token)..End(before, from) : before[i] \in delim \cup {0}})
    IN  IF from = NULL \/ token = {} THEN mem = before
        ELSE /\ strtok_r(before, call[2], call[3], call[4])[1] = Min(token)
             /\ mem = [before EXCEPT ![end] = 0]
=============================================================================
