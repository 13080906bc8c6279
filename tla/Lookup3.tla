------------------------------ MODULE Lookup3 ------------------------------
(***************************************************************************)
(* libs/crypto/lookup3: the hash of the keys in the map of the peer        *)
(* service. hashlittle reads a key by words, by halves of words or by      *)
(* bytes, as its address allows, and words go beyond the end of the key.   *)
(* The machine is little-endian.                                           *)
(*                                                                         *)
(* A 32-bit word is the pair of its upper and its lower 16 bits. Memory is *)
(* a function from addresses to bytes.                                     *)
(***************************************************************************)
EXTENDS Integers, Sequences, Bitwise

CONSTANTS
    Contents,  \* the keys: sequences of bytes
    Fills      \* the bytes that may be around a key

ASSUME Lookup3Assumption ==
    /\ \A s \in Contents : \A i \in DOMAIN s : s[i] \in 0 .. 255
    /\ Fills \subseteq 0 .. 255

VARIABLES
    content,    \* the key
    memory,     \* the bytes at and around its address
    location,   \* its address
    cached      \* its hash when it was put into the map, or <<>> before

lookup3Vars == <<content, memory, location, cached>>
-----------------------------------------------------------------------------
(* Arithmetic of uint32_t                                                  *)

Half == 65536

Small(n) == <<0, n>>

plus(x, y) ==
    LET lower == x[2] + y[2] IN <<(x[1] + y[1] + (lower \div Half)) % Half, lower % Half>>

minus(x, y) ==
    LET lower == x[2] - y[2] IN <<(x[1] - y[1] + (lower \div Half)) % Half, lower % Half>>

xor(x, y) == <<x[1] ^^ y[1], x[2] ^^ y[2]>>

rot(x, k) ==
    LET w == IF k < 16 THEN x ELSE <<x[2], x[1]>>
        n == k % 16
        shifted(upper, lower) == ((upper * 2^n) % Half) + (lower \div 2^(16 - n))
    IN  <<shifted(w[1], w[2]), shifted(w[2], w[1])>>

\* The values of a, b and c.
Registers == [1 .. 3 -> (0 .. Half - 1) \X (0 .. Half - 1)]

\* Each line does the same with a, b and c in other roles.
mix(s) ==
    LET line[t \in Registers, k \in Nat] ==
            <<t[2], plus(t[3], t[2]), xor(minus(t[1], t[3]), rot(t[3], k))>>
        lines[t \in Registers] == line[line[line[line[line[line[t, 4], 6], 8], 16], 19], 4]
    IN  lines[s]

final(s) ==
    LET line[t \in Registers, k \in Nat] == <<minus(xor(t[2], t[1]), rot(t[1], k)), t[3], t[1]>>
        lines[t \in Registers] ==
            line[line[line[line[line[line[line[t, 14], 11], 25], 16], 4], 14], 24]
        last == lines[<<s[2], s[3], s[1]>>]
    IN  <<last[2], last[3], last[1]>>

add(s, words) == [i \in 1 .. 3 |-> plus(s[i], words[i])]

\* a = b = c = 0xdeadbeef + length + initval, and c += more
Start(length, initval, more) ==
    LET w == plus(plus(<<57005, 48879>>, Small(length)), initval) IN <<w, w, plus(w, more)>>

\* All but the last block, then the last one, which is not mixed if it is empty. Read(i, n)
\* are the words of block i, which has n units; a whole block has "unit" of them.
Blocks(s, length, unit, Read(_, _)) ==
    LET last == IF length = 0 THEN 0 ELSE (length - 1) \div unit
        rest == length - unit * last
        mixed[i \in 0 .. last] ==
            IF i = 0 THEN s ELSE mix(add(mixed[i - 1], Read(i - 1, unit)))
    IN  IF rest = 0 THEN mixed[last] ELSE final(add(mixed[last], Read(last, rest)))
-----------------------------------------------------------------------------
(* The key as an array of words                                            *)

WordsOf(k, i, n) == [j \in 1 .. 3 |-> IF j <= n THEN k[3 * i + j] ELSE Small(0)]

hashword2(k, pc, pb) ==
    LET s == Blocks(Start(4 * Len(k), pc, pb), Len(k), 3, LAMBDA i, n : WordsOf(k, i, n))
    IN  [pc |-> s[3], pb |-> s[2]]

hashword(k, initval) ==
    Blocks(Start(4 * Len(k), initval, Small(0)), Len(k), 3, LAMBDA i, n : WordsOf(k, i, n))[3]
-----------------------------------------------------------------------------
(* The key as bytes at an address                                          *)

\* What is read at p as uint16_t and as uint32_t.
k16(m, p) == m[p] + 256 * m[p + 1]
k32(m, p) == <<k16(m, p + 2), k16(m, p)>>

shift(byte, n) == rot(Small(byte), n)

\* Variant: the mask of three bytes is the one of two.
Masked_short(w, n) ==
    CASE n >= 4 -> w [] n \in {2, 3} -> Small(w[2]) [] n = 1 -> Small(w[2] % 256)
      [] OTHER -> Small(0)

\* The first n bytes of a word; all of it from four on.
Masked(w, n) ==
    CASE n >= 4 -> w [] n = 3 -> <<w[1] % 256, w[2]>> [] n = 2 -> Small(w[2])
      [] n = 1 -> Small(w[2] % 256) [] OTHER -> Small(0)

\* The words of a block of n bytes at p, by aligned words, by halves and by bytes.
Read32(m, p, n) ==
    [j \in 1 .. 3 |-> LET left == n - 4 * (j - 1) IN
        IF left > 0 THEN Masked(k32(m, p + 4 * (j - 1)), left) ELSE Small(0)]

Read16(m, p, n) ==
    [j \in 1 .. 3 |->
        LET q == p + 4 * (j - 1)
            left == n - 4 * (j - 1)
        IN  CASE left >= 4 -> plus(Small(k16(m, q)), <<k16(m, q + 2), 0>>)
              [] left = 3  -> plus(Small(k16(m, q)), shift(m[q + 2], 16))
              [] left = 2  -> Small(k16(m, q))
              [] left = 1  -> Small(m[q])
              [] OTHER     -> Small(0)]

\* Byte b of a word is shifted by Place(b).
Read8(m, p, n, Place(_)) ==
    [j \in 1 .. 3 |->
        LET byte(b) == IF 4 * (j - 1) + b < n
                       THEN shift(m[p + 4 * (j - 1) + b], Place(b)) ELSE Small(0)
        IN  plus(plus(byte(0), byte(1)), plus(byte(2), byte(3)))]

ReadLittle(m, key, i, n) ==
    LET p == key + 12 * i IN
    IF key % 4 = 0 THEN Read32(m, p, n)
    ELSE IF key % 2 = 0 THEN Read16(m, p, n)
    ELSE Read8(m, p, n, LAMBDA b : 8 * b)

hashlittle(m, key, length, initval) ==
    Blocks(Start(length, initval, Small(0)), length, 12,
           LAMBDA i, n : ReadLittle(m, key, i, n))[3]

hashlittle2(m, key, length, pc, pb) ==
    LET s == Blocks(Start(length, pc, pb), length, 12, LAMBDA i, n : ReadLittle(m, key, i, n))
    IN  [pc |-> s[3], pb |-> s[2]]

hashbig(m, key, length, initval) ==
    Blocks(Start(length, initval, Small(0)), length, 12,
           LAMBDA i, n : Read8(m, key + 12 * i, n, LAMBDA b : 24 - 8 * b))[3]

\* operator() of std::hash for public keys
hashOf(m, key) == hashlittle(m, key, Len(content), Small(1337))
-----------------------------------------------------------------------------
\* The key at an address, with other bytes around it.
Stored(s, p, fill) ==
    [x \in 0 .. p + Len(s) + 3 |-> IF x \in p .. p + Len(s) - 1 THEN s[x - p + 1] ELSE fill]

InitLookup3 ==
    /\ content \in Contents
    /\ location = 0 /\ memory = Stored(content, 0, 0)
    /\ cached = <<>>

\* The connection under this key is put into the map.
Emplace ==
    /\ cached = <<>>
    /\ cached' = hashOf(memory, location)
    /\ UNCHANGED <<content, memory, location>>

\* The same key is looked up from another place, a copy in a container or a message.
CopyKey(p, fill) ==
    /\ cached # <<>>
    /\ location' = p /\ memory' = Stored(content, p, fill)
    /\ UNCHANGED <<content, cached>>

NextLookup3 == Emplace \/ \E p \in 0 .. 3, fill \in Fills : CopyKey(p, fill)
-----------------------------------------------------------------------------
(* Properties                                                              *)

\* The bytes of the key as words, from the first byte on or from the last.
LittleWords == [i \in 1 .. Len(content) \div 4 |-> k32(memory, location + 4 * (i - 1))]
BigWords ==
    [i \in 1 .. Len(content) \div 4 |->
        LET p == location + 4 * (i - 1)
        IN  <<256 * memory[p] + memory[p + 1], 256 * memory[p + 2] + memory[p + 3]>>]

\* "Four score and seven years ago"
Known ==
    <<70, 111, 117, 114, 32, 115, 99, 111, 114, 101, 32, 97, 110, 100, 32, 115,
      101, 118, 101, 110, 32, 121, 101, 97, 114, 115, 32, 97, 103, 111>>

\* The hashes of driver5 in lookup3.c: 17770551, cd628161, and e3607cae for b = 1, c = 0.
KnownHashes ==
    LET n == Len(Known) IN
    /\ hashlittle(memory, location, n, Small(0)) = <<6007, 1361>>
    /\ hashlittle(memory, location, n, Small(1)) = <<52578, 33121>>
    /\ hashlittle2(memory, location, n, Small(0), Small(1)) =
          [pc |-> <<58208, 31918>>, pb |-> <<48439, 7652>>]

\* A key is found again wherever it lies: hashlittle depends on the bytes of the key
\* alone, not on the address, which chooses one of three ways to read it, nor on the
\* bytes after the key that it reads with the last ones; and, as the comments in lookup3.c say,
\* hashlittle2 gives the same hash, hashword gives it for the words of the key, and
\* hashbig for the words in the other byte order. The key of the self test has the
\* hashes that are written there.
HashOfContent ==
    content \in Contents /\ cached # <<>> =>
    LET n == Len(content)
        little == hashOf(memory, location)
    IN  /\ little = cached
        /\ hashlittle2(memory, location, n, Small(1337), Small(0)).pc = little
        /\ n % 4 = 0 =>
              /\ hashword(LittleWords, Small(1337)) = little
              /\ hashword2(LittleWords, Small(1337), Small(0)).pc = little
              /\ hashbig(memory, location, n, Small(1337)) = hashword(BigWords, Small(1337))
        /\ content = Known => KnownHashes
=============================================================================
