------------------------------ MODULE MMProofs ------------------------------
(***************************************************************************)
(* Proofs about the malloc package MM: for every size of the heap and of   *)
(* its chunks, all sizes asked for and any number of pointers, first fit   *)
(* and next fit.                                                           *)
(***************************************************************************)
EXTENDS MM, WellFoundedInduction, TLAPS

-----------------------------------------------------------------------------
(* Words and tags. *)

\* The words of the heap are its addresses divisible by 4.
LEMMA WordsAre ==
  \A p : p \in Words <=> p \in Int /\ p % 4 = 0 /\ 0 <= p /\ p < MAX_HEAP
<1>0. MAX_HEAP \in Nat /\ MAX_HEAP % 8 = 0 BY MMAssumption
<1>1. ASSUME NEW p \in Words PROVE p \in Int /\ p % 4 = 0 /\ 0 <= p /\ p < MAX_HEAP
  <2>1. PICK i \in 0..(MAX_HEAP \div 4 - 1) : p = 4 * i BY DEF Words, WSIZE
  <2> QED BY <1>0, <2>1
<1>2. ASSUME NEW p \in Int, p % 4 = 0, 0 <= p, p < MAX_HEAP PROVE p \in Words
  <2>1. p = 4 * (p \div 4) /\ p \div 4 \in 0..(MAX_HEAP \div 4 - 1) BY <1>0, <1>2
  <2> QED BY <2>1 DEF Words, WSIZE
<1> QED BY <1>1, <1>2

\* What the macros read from a tag is what PACK put into it.
LEMMA Unpacked ==
  ASSUME NEW s \in Int, s % 8 = 0, NEW a \in {0, 1}
  PROVE  (s + a) - ((s + a) % 8) = s /\ (s + a) % 2 = a
OBVIOUS

(***************************************************************************)
(* How memory m is divided into blocks up to brk: B are their addresses,   *)
(* the prologue's first, sz and al the sizes and the bits their tags hold. *)
(***************************************************************************)
Shaped(brk, B, sz, al) ==
  /\ brk \in Int /\ brk % 8 = 0 /\ 16 <= brk /\ brk <= MAX_HEAP
  /\ 8 \in B /\ sz[8] = 8 /\ al[8] = 1
  /\ \A b \in B : b \in Int /\ b % 8 = 0 /\ 8 <= b
                  /\ sz[b] \in Int /\ sz[b] % 8 = 0 /\ 8 <= sz[b] /\ (b # 8 => 16 <= sz[b])
                  /\ al[b] \in {0, 1} /\ b + sz[b] <= brk

Linked(brk, B, sz) == \A b \in B : b + sz[b] \in B \cup {brk}
Apart(B, sz) == \A b, c \in B : b < c => b + sz[b] <= c
Follows(brk, B, sz) == \A c \in B \cup {brk} : c # 8 => \E b \in B : b + sz[b] = c

TaggedAs(m, brk, B, sz, al) ==
  /\ m \in [Words -> Int] /\ m[brk - 4] = 1
  /\ \A b \in B : m[b - 4] = sz[b] + al[b] /\ m[b + sz[b] - 8] = sz[b] + al[b]
  /\ \A p \in Words : p >= brk => m[p] = Garbage

Layout(m, brk, B, sz, al) ==
  Shaped(brk, B, sz, al) /\ Linked(brk, B, sz) /\ Apart(B, sz) /\ Follows(brk, B, sz)
  /\ TaggedAs(m, brk, B, sz, al)

\* Memory n is m with a tag on both ends of [bp, bp + s), which makes one block of
\* those in it.
Joined(B, bp, s) == {b \in B : b <= bp \/ b >= bp + s}
With1(B, f, bp, v) == [b \in B |-> IF b = bp THEN v ELSE f[b]]
Retags(m, n, bp, s, v) ==
  /\ n \in [Words -> Int] /\ n[bp - 4] = v /\ n[bp + s - 8] = v
  /\ \A p \in Words : p # bp - 4 /\ p # bp + s - 8 => n[p] = m[p]

\* Tags written around the place of one or of several blocks leave a layout, with
\* one block there.
LEMMA Retag ==
  \A m, n, brk, B, sz, al, bp, s, a :
    /\ Layout(m, brk, B, sz, al)
    /\ bp \in B /\ bp # 8 /\ s \in Int /\ 16 <= s /\ s % 8 = 0 /\ bp + s \in B \cup {brk} /\ a \in {0, 1}
    /\ Retags(m, n, bp, s, s + a)
    => Layout(n, brk, Joined(B, bp, s), With1(Joined(B, bp, s), sz, bp, s),
              With1(Joined(B, bp, s), al, bp, a))
<1> SUFFICES ASSUME NEW m, NEW n, NEW brk, NEW B, NEW sz, NEW al, NEW bp, NEW s, NEW a,
                    Layout(m, brk, B, sz, al), bp \in B, bp # 8, s \in Int, 16 <= s, s % 8 = 0,
                    bp + s \in B \cup {brk}, a \in {0, 1}, Retags(m, n, bp, s, s + a)
             PROVE  Layout(n, brk, Joined(B, bp, s), With1(Joined(B, bp, s), sz, bp, s),
                           With1(Joined(B, bp, s), al, bp, a))
  OBVIOUS
<1>w. n \in [Words -> Int] /\ n[bp - 4] = s + a /\ n[bp + s - 8] = s + a
      /\ \A p \in Words : p # bp - 4 /\ p # bp + s - 8 => n[p] = m[p]
  BY DEF Retags
<1> DEFINE C == Joined(B, bp, s)
           z == With1(C, sz, bp, s)
           f == With1(C, al, bp, a)
<1>0. bp \in C /\ 8 \in C /\ (\A b \in C : b \in B /\ (b <= bp \/ b >= bp + s))
      /\ z[bp] = s /\ f[bp] = a /\ (\A b \in C : b # bp => z[b] = sz[b] /\ f[b] = al[b])
  BY DEF Joined, With1, Layout, Shaped
<1>1. \A b \in B : b <= bp \/ b >= bp + s => b \in C BY DEF Joined
<1> HIDE DEF C, z, f
<1>2. bp + s <= brk
  BY DEF Layout, Shaped
<1>3. Shaped(brk, C, z, f)
  <2> SUFFICES ASSUME NEW b \in C
               PROVE  b \in Int /\ b % 8 = 0 /\ 8 <= b
                      /\ z[b] \in Int /\ z[b] % 8 = 0 /\ 8 <= z[b] /\ (b # 8 => 16 <= z[b])
                      /\ f[b] \in {0, 1} /\ b + z[b] <= brk
    BY <1>0 DEF Shaped, Layout
  <2>1. CASE b = bp BY <1>0, <1>2, <2>1 DEF Layout, Shaped
  <2>2. CASE b # bp BY <1>0, <2>2 DEF Layout, Shaped
  <2> QED BY <2>1, <2>2
<1>4. Apart(C, z)
  <2> SUFFICES ASSUME NEW b \in C, NEW c \in C, b < c PROVE b + z[b] <= c BY DEF Apart
  <2>1. b \in Int /\ c \in Int /\ bp \in Int BY <1>0 DEF Layout, Shaped
  <2>2. CASE b = bp BY <1>0, <2>1, <2>2
  <2>3. CASE b # bp BY <1>0, <2>3 DEF Layout, Apart
  <2> QED BY <2>2, <2>3
<1>5. Linked(brk, C, z)
  <2> SUFFICES ASSUME NEW b \in C, b + z[b] # brk PROVE b + z[b] \in C BY DEF Linked
  <2>1. b \in Int /\ bp \in Int /\ z[b] \in Int BY <1>0, <1>3 DEF Layout, Shaped
  <2>2. CASE b = bp BY <1>0, <1>1, <2>1, <2>2
  <2>3. CASE b < bp
    <3>1. b + z[b] <= bp BY <1>0, <1>4, <2>3 DEF Apart
    <3>2. b + z[b] \in B BY <1>0, <2>1, <2>3 DEF Layout, Linked
    <3> QED BY <1>1, <3>1, <3>2
  <2>4. CASE b > bp
    <3>1. b + z[b] \in B BY <1>0, <2>1, <2>4 DEF Layout, Linked
    <3>2. b + z[b] >= bp + s BY <1>0, <1>3, <2>1, <2>4 DEF Shaped
    <3> QED BY <1>1, <3>1, <3>2
  <2> QED BY <2>1, <2>2, <2>3, <2>4
<1>6. Follows(brk, C, z)
  <2> SUFFICES ASSUME NEW c \in C \cup {brk}, c # 8 PROVE \E b \in C : b + z[b] = c BY DEF Follows
  <2>1. c \in B \cup {brk} BY <1>0
  <2>2. PICK q \in B : q + sz[q] = c BY <2>1 DEF Layout, Follows
  <2>3. q \in Int /\ sz[q] \in Int /\ 8 <= sz[q] /\ c \in Int /\ bp \in Int BY <2>1 DEF Layout, Shaped
  <2>4. CASE c = bp + s BY <1>0, <2>4
  <2>5. CASE c <= bp
    <3>1. q < bp BY <2>2, <2>3, <2>5
    <3> QED BY <1>0, <1>1, <2>2, <2>3, <3>1
  <2>6. CASE c > bp /\ c # bp + s
    <3>1. c > bp + s BY <1>0, <1>2, <2>3, <2>6
    <3>2. c <= brk BY <2>1, <2>3 DEF Layout, Shaped
    <3>3. bp + s \in B BY <2>3, <3>1, <3>2
    <3>4. q >= bp + s
      <4> SUFFICES ASSUME q < bp + s PROVE FALSE BY <2>3
      <4>1. q + sz[q] <= bp + s BY <3>3 DEF Layout, Apart
      <4> QED BY <2>2, <2>3, <3>1, <4>1
    <3>5. q # bp BY <2>3, <3>4
    <3>6. q \in C BY <1>1, <3>4
    <3> QED BY <1>0, <2>2, <3>5, <3>6
  <2> QED BY <2>3, <2>4, <2>5, <2>6
<1>7. TaggedAs(n, brk, C, z, f)
  <2>0. bp \in Int /\ brk \in Int /\ bp % 8 = 0 /\ brk % 8 = 0 /\ 16 <= bp /\ 16 <= brk /\ brk <= MAX_HEAP
        /\ MAX_HEAP \in Nat
    BY MMAssumption DEF Layout, Shaped
  <2>1. n[brk - 4] = 1
    <3>1. brk - 4 # bp - 4 /\ brk - 4 # bp + s - 8 BY <1>2, <2>0
    <3>2. brk - 4 \in Words BY ONLY WordsAre, <2>0, <1>2
    <3> QED BY <1>w, <3>1, <3>2 DEF Layout, TaggedAs
  <2>2. ASSUME NEW b \in C PROVE n[b - 4] = z[b] + f[b] /\ n[b + z[b] - 8] = z[b] + f[b]
    <3>1. CASE b = bp BY <1>w, <1>0, <3>1
    <3>2. CASE b # bp
      <4>1. b \in Int /\ b % 8 = 0 /\ 8 <= b /\ z[b] \in Int /\ z[b] % 8 = 0 /\ 8 <= z[b] /\ b + z[b] <= brk
        BY <1>3 DEF Shaped
      <4>2. b + z[b] <= bp \/ b >= bp + s BY <1>0, <1>4, <2>0, <3>2, <4>1 DEF Apart
      <4>3. b - 4 \in Words /\ b + z[b] - 8 \in Words BY ONLY WordsAre, <2>0, <4>1
      <4>4. b - 4 # bp - 4 /\ b - 4 # bp + s - 8 /\ b + z[b] - 8 # bp - 4 /\ b + z[b] - 8 # bp + s - 8
        BY <2>0, <4>1, <4>2, <3>2
      <4>5. m[b - 4] = z[b] + f[b] /\ m[b + z[b] - 8] = z[b] + f[b] BY <1>0, <3>2 DEF Layout, TaggedAs
      <4> QED BY <1>w, <4>3, <4>4, <4>5
    <3> QED BY <3>1, <3>2
  <2>3. ASSUME NEW p \in Words, p >= brk PROVE n[p] = Garbage
    <3>1. p # bp - 4 /\ p # bp + s - 8 BY <1>2, <2>0, <2>3, WordsAre
    <3> QED BY <1>w, <2>3, <3>1 DEF Layout, TaggedAs
  <2> QED BY <1>w, <2>1, <2>2, <2>3 DEF TaggedAs
<1> QED BY <1>3, <1>4, <1>5, <1>6, <1>7 DEF Layout, C, z, f

Cuts(m, n, bp, s, size, a, d) ==
  /\ n \in [Words -> Int] /\ n[bp - 4] = s + a /\ n[bp + s - 8] = s + a
  /\ n[bp + s - 4] = size - s + d /\ n[bp + size - 8] = size - s + d
  /\ \A p \in Words : p \notin {bp - 4, bp + s - 8, bp + s - 4, bp + size - 8} => n[p] = m[p]
With2(B, f, bp, v, cp, w) == [b \in B \cup {cp} |-> CASE b = bp -> v [] b = cp -> w [] OTHER -> f[b]]

\* Tags written around [bp, bp + s) and the rest of the block at bp make two of it.
LEMMA Cut ==
  \A m, n, brk, B, sz, al, bp, s, a, d :
    /\ Layout(m, brk, B, sz, al)
    /\ bp \in B /\ bp # 8 /\ s \in Int /\ 16 <= s /\ s % 8 = 0 /\ sz[bp] - s >= 16 /\ a \in {0, 1} /\ d \in {0, 1}
    /\ Cuts(m, n, bp, s, sz[bp], a, d)
    => Layout(n, brk, B \cup {bp + s}, With2(B, sz, bp, s, bp + s, sz[bp] - s), With2(B, al, bp, a, bp + s, d))
<1> TAKE m, n, brk, B, sz, al, bp, s, a, d
<1> HAVE /\ Layout(m, brk, B, sz, al)
         /\ bp \in B /\ bp # 8 /\ s \in Int /\ 16 <= s /\ s % 8 = 0 /\ sz[bp] - s >= 16 /\ a \in {0, 1} /\ d \in {0, 1}
         /\ Cuts(m, n, bp, s, sz[bp], a, d)
<1> DEFINE C == B \cup {bp + s}
           z == With2(B, sz, bp, s, bp + s, sz[bp] - s)
           f == With2(B, al, bp, a, bp + s, d)
<1>w. /\ n \in [Words -> Int] /\ n[bp - 4] = s + a /\ n[bp + s - 8] = s + a
      /\ n[bp + s - 4] = sz[bp] - s + d /\ n[bp + sz[bp] - 8] = sz[bp] - s + d
      /\ \A p \in Words : p \notin {bp - 4, bp + s - 8, bp + s - 4, bp + sz[bp] - 8} => n[p] = m[p]
  BY DEF Cuts
<1>0. /\ bp \in Int /\ bp % 8 = 0 /\ 16 <= bp /\ sz[bp] \in Int /\ sz[bp] % 8 = 0 /\ bp + sz[bp] <= brk
      /\ brk \in Int /\ brk % 8 = 0 /\ brk <= MAX_HEAP /\ 16 <= brk /\ MAX_HEAP \in Nat
  <2>1. bp \in Int /\ bp % 8 = 0 /\ 8 <= bp /\ sz[bp] \in Int /\ sz[bp] % 8 = 0 /\ bp + sz[bp] <= brk
        /\ brk \in Int /\ brk % 8 = 0 /\ brk <= MAX_HEAP /\ 16 <= brk
    BY DEF Layout, Shaped
  <2>2. 16 <= bp BY ONLY <2>1, bp # 8
  <2> QED BY <2>1, <2>2, MMAssumption
<1>1. \A b \in B : b \in Int /\ sz[b] \in Int /\ 8 <= sz[b] /\ (b # bp => b + sz[b] <= bp \/ b >= bp + sz[bp])
  BY <1>0 DEF Layout, Shaped, Apart
<1>2. bp + s \notin B BY <1>0, <1>1
<1>z. /\ (\A b \in B : b # bp => z[b] = sz[b] /\ f[b] = al[b]) /\ z[bp] = s /\ f[bp] = a
      /\ z[bp + s] = sz[bp] - s /\ f[bp + s] = d
  BY <1>0, <1>2 DEF With2
<1> HIDE DEF z, f
<1>3. Shaped(brk, C, z, f)
  <2>0. 8 \in C /\ z[8] = 8 /\ f[8] = 1 BY <1>z DEF Layout, Shaped
  <2>1. ASSUME NEW b \in C
        PROVE  b \in Int /\ b % 8 = 0 /\ 8 <= b /\ z[b] \in Int /\ z[b] % 8 = 0 /\ 8 <= z[b] /\ (b # 8 => 16 <= z[b])
               /\ f[b] \in {0, 1} /\ b + z[b] <= brk
    <3>1. CASE b = bp BY <1>z, <1>0, <3>1
    <3>2. CASE b = bp + s
      <4>1. bp + s \in Int /\ (bp + s) % 8 = 0 /\ 8 <= bp + s /\ sz[bp] - s \in Int /\ (sz[bp] - s) % 8 = 0
            /\ bp + s + (sz[bp] - s) <= brk
        BY <1>0
      <4> QED BY <1>z, <3>2, <4>1
    <3>3. CASE b \in B /\ b # bp BY <1>z, <3>3 DEF Layout, Shaped
    <3> QED BY <3>1, <3>2, <3>3
  <2> QED BY <1>0, <2>0, <2>1 DEF Shaped
<1>4. Apart(C, z)
  <2> SUFFICES ASSUME NEW b \in C, NEW c \in C, b < c PROVE b + z[b] <= c BY DEF Apart
  <2>1. CASE b = bp
    <3>1. CASE c = bp + s BY <1>z, <1>0, <2>1, <3>1
    <3>2. CASE c \in B
      <4>1. sz[c] \in Int /\ 8 <= sz[c] BY <3>2 DEF Layout, Shaped
      <4> QED BY <1>z, <1>0, <1>1, <2>1, <3>2, <4>1
    <3> QED BY <3>1, <3>2
  <2>2. CASE b = bp + s
    <3>1. c \in B /\ c # bp BY <1>0, <2>2
    <3>2. c >= bp + sz[bp]
      <4>1. 8 <= sz[c] /\ sz[c] \in Int BY <3>1 DEF Layout, Shaped
      <4> QED BY <1>0, <1>1, <2>2, <3>1, <4>1
    <3> QED BY <1>z, <1>0, <1>1, <2>2, <3>1, <3>2
  <2>3. CASE b \in B /\ b # bp
    <3>0. b \in Int /\ sz[b] \in Int /\ 8 <= sz[b] BY <2>3 DEF Layout, Shaped
    <3>1. CASE c = bp + s BY <1>z, <1>0, <1>1, <2>3, <3>0, <3>1
    <3>2. CASE c \in B BY <1>z, <2>3, <3>2 DEF Layout, Apart
    <3> QED BY <3>1, <3>2
  <2> QED BY <2>1, <2>2, <2>3
<1>5. Linked(brk, C, z)
  <2> SUFFICES ASSUME NEW b \in C PROVE b + z[b] \in C \cup {brk} BY DEF Linked
  <2>1. CASE b = bp BY <1>z, <2>1
  <2>2. CASE b = bp + s
    <3>1. bp + s + (sz[bp] - s) = bp + sz[bp] BY <1>0
    <3>2. bp + sz[bp] \in B \cup {brk} BY DEF Layout, Linked
    <3> QED BY <1>z, <2>2, <3>1, <3>2
  <2>3. CASE b \in B /\ b # bp BY <1>z, <2>3 DEF Layout, Linked
  <2> QED BY <2>1, <2>2, <2>3
<1>6. Follows(brk, C, z)
  <2> SUFFICES ASSUME NEW c \in C \cup {brk}, c # 8 PROVE \E b \in C : b + z[b] = c BY DEF Follows
  <2>1. CASE c = bp + s BY <1>z, <2>1
  <2>2. CASE c \in B \cup {brk}
    <3>1. PICK q \in B : q + sz[q] = c BY <2>2 DEF Layout, Follows
    <3>2. CASE q = bp
      <4>1. (bp + s) + z[bp + s] = c BY <1>z, <1>0, <3>1, <3>2
      <4> QED BY <4>1
    <3>3. CASE q # bp BY <1>z, <3>1, <3>3
    <3> QED BY <3>2, <3>3
  <2> QED BY <2>1, <2>2
<1>7. TaggedAs(n, brk, C, z, f)
  <2>1. n[brk - 4] = 1
    <3>1. brk - 4 \notin {bp - 4, bp + s - 8, bp + s - 4, bp + sz[bp] - 8} BY <1>0
    <3>2. brk - 4 \in Words BY ONLY WordsAre, <1>0
    <3> QED BY <1>w, <3>1, <3>2 DEF Layout, TaggedAs
  <2>2. ASSUME NEW b \in C PROVE n[b - 4] = z[b] + f[b] /\ n[b + z[b] - 8] = z[b] + f[b]
    <3>1. CASE b = bp BY <1>w, <1>z, <3>1
    <3>2. CASE b = bp + s
      <4>1. bp + s + (sz[bp] - s) - 8 = bp + sz[bp] - 8 BY <1>0
      <4> QED BY <1>w, <1>z, <3>2, <4>1
    <3>3. CASE b \in B /\ b # bp
      <4>1. b \in Int /\ b % 8 = 0 /\ 8 <= b /\ z[b] \in Int /\ z[b] % 8 = 0 /\ 8 <= z[b] /\ b + z[b] <= brk
        BY <1>3 DEF Shaped
      <4>2. b + z[b] <= bp \/ b >= bp + sz[bp] BY <1>z, <1>1, <3>3
      <4>3. b - 4 \in Words /\ b + z[b] - 8 \in Words BY ONLY WordsAre, <1>0, <4>1
      <4>4. b - 4 \notin {bp - 4, bp + s - 8, bp + s - 4, bp + sz[bp] - 8}
            /\ b + z[b] - 8 \notin {bp - 4, bp + s - 8, bp + s - 4, bp + sz[bp] - 8}
        BY <1>0, <4>1, <4>2, <3>3
      <4>5. m[b - 4] = z[b] + f[b] /\ m[b + z[b] - 8] = z[b] + f[b] BY <1>z, <3>3 DEF Layout, TaggedAs
      <4> QED BY <1>w, <4>3, <4>4, <4>5
    <3> QED BY <3>1, <3>2, <3>3
  <2>3. ASSUME NEW p \in Words, p >= brk PROVE n[p] = Garbage
    <3>1. p \notin {bp - 4, bp + s - 8, bp + s - 4, bp + sz[bp] - 8} BY <1>0, <2>3, WordsAre
    <3> QED BY <1>w, <2>3, <3>1 DEF Layout, TaggedAs
  <2> QED BY <1>w, <2>1, <2>2, <2>3 DEF TaggedAs
<1> QED BY <1>3, <1>4, <1>5, <1>6, <1>7 DEF Layout, C, z, f

Grows(m, n, brk, s, a) ==
  /\ n \in [Words -> Int] /\ n[brk - 4] = s + a /\ n[brk + s - 8] = s + a /\ n[brk + s - 4] = 1
  /\ \A p \in Words : p \notin {brk - 4, brk + s - 8, brk + s - 4} => n[p] = m[p]

\* Tags written past the break and a new epilogue add a block.
LEMMA Grow ==
  \A m, n, brk, B, sz, al, s, a :
    /\ Layout(m, brk, B, sz, al) /\ s \in Int /\ 16 <= s /\ s % 8 = 0 /\ brk + s <= MAX_HEAP /\ a \in {0, 1}
    /\ Grows(m, n, brk, s, a)
    => Layout(n, brk + s, B \cup {brk}, With1(B \cup {brk}, sz, brk, s), With1(B \cup {brk}, al, brk, a))
<1> SUFFICES ASSUME NEW m, NEW n, NEW brk, NEW B, NEW sz, NEW al, NEW s, NEW a,
                    Layout(m, brk, B, sz, al), s \in Int, 16 <= s, s % 8 = 0, brk + s <= MAX_HEAP, a \in {0, 1},
                    Grows(m, n, brk, s, a)
             PROVE  Layout(n, brk + s, B \cup {brk}, With1(B \cup {brk}, sz, brk, s), With1(B \cup {brk}, al, brk, a))
  OBVIOUS
<1> DEFINE C == B \cup {brk}
           z == With1(C, sz, brk, s)
           f == With1(C, al, brk, a)
<1>w. /\ n \in [Words -> Int] /\ n[brk - 4] = s + a /\ n[brk + s - 8] = s + a /\ n[brk + s - 4] = 1
      /\ \A p \in Words : p \notin {brk - 4, brk + s - 8, brk + s - 4} => n[p] = m[p]
  BY DEF Grows
<1>0. brk \in Int /\ brk % 8 = 0 /\ brk <= MAX_HEAP /\ 16 <= brk /\ MAX_HEAP \in Nat
  BY MMAssumption DEF Layout, Shaped
<1>1. \A b \in B : b \in Int /\ sz[b] \in Int /\ 8 <= sz[b] /\ b + sz[b] <= brk BY DEF Layout, Shaped
<1>2. brk \notin B BY <1>0, <1>1
<1>z. (\A b \in B : z[b] = sz[b] /\ f[b] = al[b]) /\ z[brk] = s /\ f[brk] = a
  BY <1>0, <1>2 DEF With1
<1> HIDE DEF z, f
<1>3. Shaped(brk + s, C, z, f)
  <2>0. 8 \in C /\ z[8] = 8 /\ f[8] = 1 BY <1>z DEF Layout, Shaped
  <2>1. ASSUME NEW b \in C
        PROVE  b \in Int /\ b % 8 = 0 /\ 8 <= b /\ z[b] \in Int /\ z[b] % 8 = 0 /\ 8 <= z[b] /\ (b # 8 => 16 <= z[b])
               /\ f[b] \in {0, 1} /\ b + z[b] <= brk + s
    <3>1. CASE b = brk BY <1>z, <1>0, <3>1
    <3>2. CASE b \in B
      <4>1. b \in Int /\ b % 8 = 0 /\ 8 <= b /\ z[b] \in Int /\ z[b] % 8 = 0 /\ 8 <= z[b] /\ (b # 8 => 16 <= z[b])
            /\ f[b] \in {0, 1} /\ b + z[b] <= brk
        BY <1>z, <3>2 DEF Layout, Shaped
      <4> QED BY <1>0, <4>1
    <3> QED BY <3>1, <3>2
  <2>2. brk + s \in Int /\ (brk + s) % 8 = 0 /\ 16 <= brk + s BY <1>0
  <2> QED BY <2>0, <2>1, <2>2 DEF Shaped
<1>4. Apart(C, z)
  <2> SUFFICES ASSUME NEW b \in C, NEW c \in C, b < c PROVE b + z[b] <= c BY DEF Apart
  <2>1. b \in B BY <1>0, <1>1
  <2> QED BY <1>z, <1>1, <2>1 DEF Layout, Apart
<1>5. Linked(brk + s, C, z)
  <2> SUFFICES ASSUME NEW b \in C PROVE b + z[b] \in C \cup {brk + s} BY DEF Linked
  <2> QED BY <1>z DEF Layout, Linked
<1>6. Follows(brk + s, C, z)
  <2> SUFFICES ASSUME NEW c \in C \cup {brk + s}, c # 8 PROVE \E b \in C : b + z[b] = c BY DEF Follows
  <2>1. CASE c = brk + s BY <1>z, <2>1
  <2>2. CASE c \in B \cup {brk}
    <3>1. PICK q \in B : q + sz[q] = c BY <2>2 DEF Layout, Follows
    <3> QED BY <1>z, <3>1
  <2> QED BY <2>1, <2>2
<1>7. TaggedAs(n, brk + s, C, z, f)
  <2>2. ASSUME NEW b \in C PROVE n[b - 4] = z[b] + f[b] /\ n[b + z[b] - 8] = z[b] + f[b]
    <3>1. CASE b = brk BY <1>w, <1>z, <3>1
    <3>3. CASE b \in B
      <4>1. b \in Int /\ b % 8 = 0 /\ 8 <= b /\ z[b] \in Int /\ z[b] % 8 = 0 /\ 8 <= z[b] /\ b + z[b] <= brk
        BY <1>z, <3>3 DEF Layout, Shaped
      <4>3. b - 4 \in Words /\ b + z[b] - 8 \in Words BY ONLY WordsAre, <1>0, <4>1
      <4>4. b - 4 \notin {brk - 4, brk + s - 8, brk + s - 4}
            /\ b + z[b] - 8 \notin {brk - 4, brk + s - 8, brk + s - 4}
        BY <1>0, <4>1
      <4>5. m[b - 4] = z[b] + f[b] /\ m[b + z[b] - 8] = z[b] + f[b] BY <1>z, <3>3 DEF Layout, TaggedAs
      <4> QED BY <1>w, <4>3, <4>4, <4>5
    <3> QED BY <3>1, <3>3
  <2>3. ASSUME NEW p \in Words, p >= brk + s PROVE n[p] = Garbage
    <3>0. p \in Int BY WordsAre
    <3>1. p \notin {brk - 4, brk + s - 8, brk + s - 4} /\ p >= brk BY <1>0, <2>3, <3>0
    <3> QED BY <1>w, <3>1 DEF Layout, TaggedAs
  <2>4. brk + s - 4 \in Int /\ n[(brk + s) - 4] = 1 BY <1>w, <1>0
  <2> QED BY <1>w, <2>2, <2>3, <2>4 DEF TaggedAs
<1> QED BY <1>3, <1>4, <1>5, <1>6, <1>7 DEF Layout, C, z, f

Stores(m, n, bp, size) ==
  n \in [Words -> Int] /\ \A p \in Words : p < bp \/ p >= bp + size - 8 => n[p] = m[p]

\* Words that are no tags, of one of the blocks, may change.
LEMMA Stored ==
  \A m, n, brk, B, sz, al, bp :
    Layout(m, brk, B, sz, al) /\ bp \in B /\ Stores(m, n, bp, sz[bp]) => Layout(n, brk, B, sz, al)
<1> SUFFICES ASSUME NEW m, NEW n, NEW brk, NEW B, NEW sz, NEW al, NEW bp, Layout(m, brk, B, sz, al), bp \in B,
                    Stores(m, n, bp, sz[bp])
             PROVE  Layout(n, brk, B, sz, al)
  OBVIOUS
<1>w. n \in [Words -> Int] /\ \A p \in Words : p < bp \/ p >= bp + sz[bp] - 8 => n[p] = m[p] BY DEF Stores
<1>0. /\ bp \in Int /\ bp % 8 = 0 /\ 8 <= bp /\ sz[bp] \in Int /\ sz[bp] % 8 = 0 /\ bp + sz[bp] <= brk
      /\ brk \in Int /\ brk % 8 = 0 /\ brk <= MAX_HEAP /\ 16 <= brk /\ MAX_HEAP \in Nat
  BY MMAssumption DEF Layout, Shaped
<1>1. n[brk - 4] = 1
  <2>1. brk - 4 \in Words BY ONLY WordsAre, <1>0
  <2> QED BY <1>w, <1>0, <2>1 DEF Layout, TaggedAs
<1>2. ASSUME NEW b \in B PROVE n[b - 4] = sz[b] + al[b] /\ n[b + sz[b] - 8] = sz[b] + al[b]
  <2>1. b \in Int /\ b % 8 = 0 /\ 8 <= b /\ sz[b] \in Int /\ sz[b] % 8 = 0 /\ 8 <= sz[b] /\ b + sz[b] <= brk
    BY DEF Layout, Shaped
  <2>2. b - 4 \in Words /\ b + sz[b] - 8 \in Words BY ONLY WordsAre, <1>0, <2>1
  <2>3. b = bp \/ b + sz[b] <= bp \/ bp + sz[bp] <= b BY <1>w, <1>0, <2>1 DEF Layout, Apart
  <2>4. (b - 4 < bp \/ b - 4 >= bp + sz[bp] - 8) /\ (b + sz[b] - 8 < bp \/ b + sz[b] - 8 >= bp + sz[bp] - 8)
    BY <1>w, <1>0, <2>1, <2>3
  <2>5. m[b - 4] = sz[b] + al[b] /\ m[b + sz[b] - 8] = sz[b] + al[b] BY DEF Layout, TaggedAs
  <2> QED BY <1>w, <2>2, <2>4, <2>5
<1>3. ASSUME NEW p \in Words, p >= brk PROVE n[p] = Garbage
  <2>0. p \in Int BY WordsAre
  <2>1. p >= bp + sz[bp] - 8 BY <1>w, <1>0, <1>3, <2>0
  <2> QED BY <1>w, <1>3, <2>1 DEF Layout, TaggedAs
<1> QED BY <1>w, <1>1, <1>2, <1>3 DEF Layout, TaggedAs

-----------------------------------------------------------------------------
(* The functions of mm.c on such a heap. *)

HeapType == [mem : [Words -> Int], brk : Int, listp : Int, rover : Int]

\* PUT changes one word and nothing else.
LEMMA Puts ==
  ASSUME NEW H \in HeapType, NEW p \in Words, NEW v \in Int
  PROVE  /\ PUT(H, p, v) \in HeapType /\ PUT(H, p, v).mem = [H.mem EXCEPT ![p] = v]
         /\ PUT(H, p, v).brk = H.brk /\ PUT(H, p, v).listp = H.listp /\ PUT(H, p, v).rover = H.rover
<1>1. PUT(H, p, v) = [H EXCEPT !.mem = [H.mem EXCEPT ![p] = v]] BY DEF PUT, HeapType
<1>2. [H.mem EXCEPT ![p] = v] \in [Words -> Int] BY DEF HeapType
<1> QED BY <1>1, <1>2 DEF HeapType

\* K is H with the two tags of a block of size s at bp written.
Wrote(H, K, bp, s, v) ==
  /\ K \in HeapType /\ K.brk = H.brk /\ K.listp = H.listp /\ K.rover = H.rover
  /\ Retags(H.mem, K.mem, bp, s, v)

\* Two PUTs at the two ends of a block write its tags, in whichever order.
LEMMA PutTwice ==
  ASSUME NEW H \in HeapType, NEW bp \in Int, NEW s \in Int, s % 8 = 0, NEW v \in Int,
         bp - 4 \in Words, bp + s - 8 \in Words
  PROVE  /\ Wrote(H, PUT(PUT(H, bp - 4, v), bp + s - 8, v), bp, s, v)
         /\ Wrote(H, PUT(PUT(H, bp + s - 8, v), bp - 4, v), bp, s, v)
<1>1. ASSUME NEW x \in Words, NEW y \in Words, x # y
      PROVE  LET K == PUT(PUT(H, x, v), y, v) IN
             /\ K \in HeapType /\ K.brk = H.brk /\ K.listp = H.listp /\ K.rover = H.rover
             /\ K.mem[x] = v /\ K.mem[y] = v /\ \A p \in Words : p # x /\ p # y => K.mem[p] = H.mem[p]
  <2> DEFINE I == PUT(H, x, v)
             K == PUT(I, y, v)
  <2>1. I \in HeapType /\ I.mem = [H.mem EXCEPT ![x] = v] /\ I.brk = H.brk /\ I.listp = H.listp /\ I.rover = H.rover
    BY Puts
  <2>2. K \in HeapType /\ K.mem = [I.mem EXCEPT ![y] = v] /\ K.brk = I.brk /\ K.listp = I.listp /\ K.rover = I.rover
    BY <2>1, Puts
  <2> HIDE DEF I, K
  <2>3. H.mem \in [Words -> Int] BY DEF HeapType
  <2>4. K.mem[x] = v /\ K.mem[y] = v /\ \A p \in Words : p # x /\ p # y => K.mem[p] = H.mem[p]
    BY <1>1, <2>1, <2>2, <2>3
  <2> QED BY <2>1, <2>2, <2>4 DEF K, I
<1>2. bp - 4 # bp + s - 8 OBVIOUS
<1>3. ASSUME NEW K \in HeapType PROVE K.mem \in [Words -> Int] BY DEF HeapType
<1> QED BY <1>1, <1>2, <1>3 DEF Wrote, Retags

\* Tagged finds the place of the footer by the header it has just written.
LEMMA TaggedWrote ==
  ASSUME NEW H \in HeapType, NEW bp \in Int, NEW s \in Int, s % 8 = 0, NEW a \in {0, 1},
         bp - 4 \in Words, bp + s - 8 \in Words
  PROVE  Wrote(H, Tagged(H, bp, s, a), bp, s, s + a)
<1> DEFINE I == PUT(H, bp - 4, s + a)
<1>1. I \in HeapType /\ I.mem = [H.mem EXCEPT ![bp - 4] = s + a] BY Puts
<1>2. I.mem[bp - 4] = s + a BY <1>1 DEF HeapType
<1>3. GET_SIZE(I, HDRP(bp)) = s BY <1>2, Unpacked DEF GET_SIZE, HDRP, WSIZE
<1>4. Tagged(H, bp, s, a) = PUT(I, bp + s - 8, s + a)
  BY <1>3 DEF Tagged, HDRP, PACK, WSIZE, DSIZE, FTRP
<1>5. s + a \in Int OBVIOUS
<1> HIDE DEF I
<1>6. Wrote(H, PUT(PUT(H, bp - 4, s + a), bp + s - 8, s + a), bp, s, s + a) BY <1>5, PutTwice
<1> QED BY <1>4, <1>6 DEF I

\* What the macros read from the tags of a block of size s and bit a.
ReadAs(H, b, s, a) ==
  /\ GET_SIZE(H, HDRP(b)) = s /\ GET_ALLOC(H, HDRP(b)) = a
  /\ FTRP(H, b) = b + s - 8 /\ NEXT_BLKP(H, b) = b + s
  /\ GET_SIZE(H, FTRP(H, b)) = s /\ GET_ALLOC(H, FTRP(H, b)) = a

\* The macros find the blocks of a layout.
LEMMA Reads ==
  \A H, B, sz, al, b : Layout(H.mem, H.brk, B, sz, al) /\ b \in B => ReadAs(H, b, sz[b], al[b])
<1> TAKE H, B, sz, al, b
<1> HAVE Layout(H.mem, H.brk, B, sz, al) /\ b \in B
<1>1. H.mem[b - 4] = sz[b] + al[b] /\ H.mem[b + sz[b] - 8] = sz[b] + al[b] BY DEF Layout, TaggedAs
<1>2. sz[b] \in Int /\ sz[b] % 8 = 0 /\ al[b] \in {0, 1} BY DEF Layout, Shaped
<1>3. GET_SIZE(H, HDRP(b)) = sz[b] /\ GET_ALLOC(H, HDRP(b)) = al[b]
  BY <1>1, <1>2, Unpacked DEF GET_SIZE, GET_ALLOC, HDRP, WSIZE
<1>4. FTRP(H, b) = b + sz[b] - 8 /\ NEXT_BLKP(H, b) = b + sz[b] BY <1>3 DEF FTRP, NEXT_BLKP, DSIZE
<1>5. GET_SIZE(H, FTRP(H, b)) = sz[b] /\ GET_ALLOC(H, FTRP(H, b)) = al[b]
  BY <1>1, <1>2, <1>4, Unpacked DEF GET_SIZE, GET_ALLOC
<1> QED BY <1>3, <1>4, <1>5 DEF ReadAs

\* The epilogue reads as an allocated block of size 0.
LEMMA ReadsEpilogue ==
  ASSUME NEW H, NEW B, NEW sz, NEW al, Layout(H.mem, H.brk, B, sz, al)
  PROVE  GET_SIZE(H, HDRP(H.brk)) = 0 /\ GET_ALLOC(H, HDRP(H.brk)) = 1
<1>1. H.mem[H.brk - 4] = 1 BY DEF Layout, TaggedAs
<1>2. 1 % 8 = 1 /\ 1 % 2 = 1 OBVIOUS
<1> QED BY <1>1, <1>2 DEF GET_SIZE, GET_ALLOC, HDRP, WSIZE

\* The footer before a block leads to the block before it.
LEMMA ReadsPrevious ==
  \A H, B, sz, al, b, q : Layout(H.mem, H.brk, B, sz, al) /\ b \in B /\ q \in B /\ q + sz[q] = b =>
    PREV_BLKP(H, b) = q
<1> SUFFICES ASSUME NEW H, NEW B, NEW sz, NEW al, NEW b, NEW q, Layout(H.mem, H.brk, B, sz, al), b \in B,
                    q \in B, q + sz[q] = b
             PROVE  PREV_BLKP(H, b) = q
  OBVIOUS
<1>1. b \in Int /\ q \in Int /\ sz[q] \in Int /\ sz[q] % 8 = 0 /\ al[q] \in {0, 1} BY DEF Layout, Shaped
<1>2. H.mem[q + sz[q] - 8] = sz[q] + al[q] BY DEF Layout, TaggedAs
<1>3. GET_SIZE(H, b - DSIZE) = sz[q]
  <2>1. b - 8 = q + sz[q] - 8 BY <1>1
  <2>2. H.mem[b - 8] = sz[q] + al[q] BY <1>2, <2>1
  <2>3. (sz[q] + al[q]) - ((sz[q] + al[q]) % 8) = sz[q] BY <1>1, Unpacked
  <2> QED BY ONLY <2>2, <2>3 DEF GET_SIZE, DSIZE
<1> QED BY <1>1, <1>3 DEF PREV_BLKP

NoFree(B, sz, al) == \A b \in B : b + sz[b] \in B /\ al[b] = 0 => al[b + sz[b]] = 1
Nearly(B, sz, al, bp) ==
  \A b \in B : b # bp /\ b + sz[b] # bp /\ b + sz[b] \in B /\ al[b] = 0 => al[b + sz[b]] = 1
RoverOK(H, B) == (NEXT_FIT => H.rover \in B) /\ 0 <= H.rover /\ H.rover <= H.brk

\* What coalesce does: it writes the tags of one block from q on, in which all
\* were free and at both of whose ends none is.
Coalesces(H, B, sz, al, bp, R, q, s) ==
  /\ q \in B /\ q # 8 /\ q <= bp /\ bp + sz[bp] <= q + s /\ q + s \in B \cup {H.brk}
  /\ s \in Int /\ s % 8 = 0 /\ 16 <= s /\ R.bp = q
  /\ \A b \in B : q <= b /\ b < q + s => al[b] = 0
  /\ q + s \in B => al[q + s] = 1
  /\ \A b \in B : b + sz[b] = q => al[b] = 1
  /\ R.H \in HeapType /\ R.H.brk = H.brk /\ R.H.listp = H.listp
  /\ Retags(H.mem, R.H.mem, q, s, s)
  /\ R.H.rover = IF NEXT_FIT /\ q < H.rover /\ H.rover < q + s THEN q ELSE H.rover

\* How coalesce ends: K is the heap with the tags of the merged block at q.
CoalesceEnd(K, q) == [Returning(K, q) EXCEPT !.H = Rovered(@, Returning(K, q).bp)]
Ended(H, K, R, q, s) ==
  /\ R.bp = q /\ R.H \in HeapType /\ R.H.brk = H.brk /\ R.H.listp = H.listp /\ R.H.mem = K.mem
  /\ R.H.rover = IF NEXT_FIT /\ q < H.rover /\ H.rover < q + s THEN q ELSE H.rover

\* The rover, if it was left inside the block just made, goes to its start.
LEMMA RoverMoved ==
  ASSUME NEW H, NEW K, NEW q \in Int, NEW s \in Int, s % 8 = 0, Wrote(H, K, q, s, s)
  PROVE  Ended(H, K, CoalesceEnd(K, q), q, s)
<1> DEFINE R == CoalesceEnd(K, q)
<1>1. K.mem[q - 4] = s /\ K \in HeapType /\ K.rover = H.rover /\ K.brk = H.brk /\ K.listp = H.listp
  BY DEF Wrote, Retags
<1>2. NEXT_BLKP(K, q) = q + s
  <2>1. s - (s % 8) = s OBVIOUS
  <2> QED BY <1>1, <2>1 DEF NEXT_BLKP, GET_SIZE, HDRP, WSIZE
<1>3. R = [H |-> Rovered(K, q), bp |-> q] BY DEF Returning, CoalesceEnd
<1> HIDE DEF R
<1>4. Rovered(K, q) = IF NEXT_FIT /\ q < H.rover /\ H.rover < q + s THEN [K EXCEPT !.rover = q] ELSE K
  BY <1>1, <1>2 DEF Rovered
<1>5. R.bp = q /\ R.H = Rovered(K, q) BY <1>3
<1>6. CASE NEXT_FIT /\ q < H.rover /\ H.rover < q + s
  <2>1. R.H = [K EXCEPT !.rover = q] BY <1>4, <1>5, <1>6
  <2> QED BY <1>1, <1>5, <1>6, <2>1 DEF HeapType, Ended, R
<1>7. CASE ~(NEXT_FIT /\ q < H.rover /\ H.rover < q + s)
  <2>1. R.H = K BY <1>4, <1>5, <1>7
  <2> QED BY <1>1, <1>5, <1>7, <2>1 DEF Ended, R
<1> QED BY <1>6, <1>7 DEF Ended, R

\* The four cases of coalesce.
LEMMA CoalesceCases ==
  ASSUME NEW H \in HeapType, NEW B, NEW sz, NEW al, Layout(H.mem, H.brk, B, sz, al),
         NEW bp, bp \in B, bp # 8, al[bp] = 0, Nearly(B, sz, al, bp), RoverOK(H, B)
  PROVE  \E q, s : Coalesces(H, B, sz, al, bp, Coalesce(H, bp), q, s)
<1> DEFINE R == Coalesce(H, bp)
           nx == bp + sz[bp]
<1>0. PICK pv \in B : pv + sz[pv] = bp BY DEF Layout, Follows
<1>a. \A b \in B : b \in Int /\ sz[b] \in Int /\ sz[b] % 8 = 0 /\ 8 <= sz[b] /\ b % 8 = 0 /\ 8 <= b
                    /\ (b # 8 => 16 <= sz[b]) /\ b + sz[b] <= H.brk /\ al[b] \in {0, 1}
  BY DEF Layout, Shaped
<1>b. H.brk \in Int /\ H.brk % 8 = 0 /\ H.brk <= MAX_HEAP /\ MAX_HEAP \in Nat
  BY MMAssumption DEF Layout, Shaped
<1>c. \A b, c \in B : b < c => b + sz[b] <= c BY DEF Layout, Apart
<1>d. nx \in B \cup {H.brk} BY DEF Layout, Linked
<1>e. \A b \in B : b - 4 \in Words /\ b + sz[b] - 8 \in Words BY <1>a, <1>b, WordsAre
<1>L. Layout(H.mem, H.brk, B, sz, al) OBVIOUS
<1>r. ASSUME NEW b \in B
      PROVE  /\ GET_SIZE(H, HDRP(b)) = sz[b] /\ GET_ALLOC(H, HDRP(b)) = al[b]
             /\ FTRP(H, b) = b + sz[b] - 8 /\ NEXT_BLKP(H, b) = b + sz[b]
             /\ GET_SIZE(H, FTRP(H, b)) = sz[b] /\ GET_ALLOC(H, FTRP(H, b)) = al[b]
  <2>1. b \in B OBVIOUS
  <2>2. ReadAs(H, b, sz[b], al[b]) BY ONLY <1>L, <2>1, Reads
  <2> QED BY <2>2 DEF ReadAs
<1>s. GET_ALLOC(H, HDRP(H.brk)) = 1 BY ONLY <1>L, ReadsEpilogue, Zenon
<1>1. PREV_BLKP(H, bp) = pv 
  <2>1. bp \in B /\ pv \in B OBVIOUS
  <2> QED BY ONLY <1>L, <1>0, <2>1, ReadsPrevious
<1>2. GET_ALLOC(H, FTRP(H, PREV_BLKP(H, bp))) = al[pv] BY <1>1, <1>r
<1>3. /\ GET_SIZE(H, HDRP(bp)) = sz[bp] /\ NEXT_BLKP(H, bp) = nx /\ FTRP(H, bp) = nx - 8
      /\ GET_SIZE(H, HDRP(pv)) = sz[pv]
  BY <1>a, <1>r
<1>4. GET_ALLOC(H, HDRP(nx)) = IF nx \in B THEN al[nx] ELSE 1
  BY <1>d, <1>r, <1>s
<1>5. nx \in B => /\ GET_SIZE(H, HDRP(nx)) = sz[nx] /\ FTRP(H, nx) = nx + sz[nx] - 8
                  /\ GET_SIZE(H, FTRP(H, nx)) = sz[nx]
  BY <1>r
<1>6. \A b \in B : b < pv \/ b = pv \/ b = bp \/ b >= nx BY <1>0, <1>a, <1>c
<1>7. \A b \in B : nx \in B => b < nx \/ b = nx \/ b >= nx + sz[nx] BY <1>a, <1>c
<1>f. /\ bp \in Int /\ sz[bp] \in Int /\ 8 <= sz[bp] /\ bp % 8 = 0 /\ sz[bp] % 8 = 0 /\ 16 <= sz[bp]
      /\ pv \in Int /\ sz[pv] \in Int /\ 8 <= sz[pv] /\ pv % 8 = 0 /\ sz[pv] % 8 = 0 /\ (pv # 8 => 16 <= sz[pv])
      /\ al[pv] \in {0, 1} /\ al[8] = 1 /\ nx \in Int
      /\ (nx \in B => sz[nx] \in Int /\ 8 <= sz[nx] /\ sz[nx] % 8 = 0 /\ al[nx] \in {0, 1})
  BY <1>a DEF Layout, Shaped
<1>g. \A b \in B : b + sz[b] = bp => b = pv BY <1>0, <1>a, <1>c
<1>h. ASSUME NEW b \in B, b + sz[b] = pv, al[pv] = 0 PROVE al[b] = 1
  <2>1. b # bp /\ b + sz[b] # bp BY <1>0, <1>a, <1>f, <1>h
  <2> QED BY <1>a, <1>h, <2>1 DEF Nearly
<1>i. ASSUME nx \in B, nx + sz[nx] \in B, al[nx] = 0 PROVE al[nx + sz[nx]] = 1
  <2>1. nx # bp /\ nx + sz[nx] # bp BY <1>a, <1>f, <1>i
  <2> QED BY <1>i, <2>1 DEF Nearly
<1>j. nx \in B => nx + sz[nx] \in B \cup {H.brk} BY DEF Layout, Linked
<1> DEFINE merged == Merged(H, bp, sz[bp], al[pv] = 1, (IF nx \in B THEN al[nx] ELSE 1) = 1)
<1>8. R = IF al[pv] = 1 /\ (IF nx \in B THEN al[nx] ELSE 1) = 1 THEN Returning(H, bp)
          ELSE [merged EXCEPT !.H = Rovered(@, merged.bp)]
  BY <1>2, <1>3, <1>4 DEF Coalesce
<1> HIDE DEF R, merged, nx
<1>9. bp + sz[bp] = nx /\ (nx \in B \cup {H.brk}) BY <1>d DEF nx
<1>t. H.mem \in [Words -> Int] BY DEF HeapType
<1>u. H.mem[bp - 4] = sz[bp] /\ H.mem[bp + sz[bp] - 8] = sz[bp]
  <2>1. H.mem[bp - 4] = sz[bp] + al[bp] /\ H.mem[bp + sz[bp] - 8] = sz[bp] + al[bp] BY DEF Layout, TaggedAs
  <2>2. sz[bp] + al[bp] = sz[bp] BY <1>f
  <2> QED BY ONLY <2>1, <2>2
<1>v. H.rover \in Int BY DEF HeapType
<1>10. CASE al[pv] = 1 /\ ~(nx \in B /\ al[nx] = 0)
  <2>1. R.bp = bp /\ R.H = H BY <1>8, <1>10, <1>f DEF Returning
  <2>2. Retags(H.mem, R.H.mem, bp, sz[bp], sz[bp]) BY <2>1, <1>t, <1>u DEF Retags
  <2>3. ~(NEXT_FIT /\ bp < H.rover /\ H.rover < bp + sz[bp])
    <3> SUFFICES ASSUME NEXT_FIT, bp < H.rover, H.rover < bp + sz[bp] PROVE FALSE OBVIOUS
    <3>1. H.rover \in B BY DEF RoverOK
    <3> QED BY <1>v, <1>c, <1>f, <3>1
  <2>4. \A b \in B : bp <= b /\ b < bp + sz[bp] => al[b] = 0 BY <1>a, <1>c, <1>f
  <2>5. \A b \in B : b + sz[b] = bp => al[b] = 1 BY <1>g, <1>10
  <2>6. bp + sz[bp] \in B => al[bp + sz[bp]] = 1 BY <1>9, <1>10, <1>f
  <2>7. Coalesces(H, B, sz, al, bp, R, bp, sz[bp])
    BY <1>9, <1>f, <2>1, <2>2, <2>3, <2>4, <2>5, <2>6 DEF Coalesces
  <2> QED BY <2>7 DEF R
<1>11. CASE al[pv] = 1 /\ nx \in B /\ al[nx] = 0
  <2> DEFINE s == sz[bp] + sz[nx]
             K == Tagged(H, bp, s, 0)
  <2>1. merged = Returning(K, bp)
    <3>1. merged = MergedNext(H, bp, sz[bp] + GET_SIZE(H, HDRP(NEXT_BLKP(H, bp)))) BY <1>11 DEF merged, Merged
    <3> QED BY <3>1, <1>3, <1>5, <1>11 DEF MergedNext
  <2>2. s \in Int /\ s % 8 = 0 /\ 16 <= s /\ bp + s = nx + sz[nx] /\ s + 0 = s BY <1>f, <1>9, <1>11
  <2>3. bp - 4 \in Words /\ bp + s - 8 \in Words
    <3>1. bp + s - 8 = nx + sz[nx] - 8 BY <1>f, <1>9, <1>11
    <3> QED BY <3>1, <1>e, <1>11
  <2>4. R = CoalesceEnd(K, bp) BY <1>8, <1>11, <2>1 DEF CoalesceEnd
  <2> HIDE DEF s
  <2>5. Wrote(H, K, bp, s, s) BY <1>f, <2>2, <2>3, TaggedWrote
  <2> HIDE DEF K
  <2>6. /\ R.bp = bp /\ R.H \in HeapType /\ R.H.brk = H.brk /\ R.H.listp = H.listp /\ R.H.mem = K.mem
        /\ R.H.rover = IF NEXT_FIT /\ bp < H.rover /\ H.rover < bp + s THEN bp ELSE H.rover
    BY <1>f, <2>2, <2>4, <2>5, RoverMoved DEF Ended
  <2>7. Retags(H.mem, R.H.mem, bp, s, s) BY <2>5, <2>6 DEF Wrote
  <2>8. \A b \in B : bp <= b /\ b < bp + s => al[b] = 0 BY <1>a, <1>6, <1>7, <1>f, <1>9, <1>11, <2>2, <1>0
  <2>9. \A b \in B : b + sz[b] = bp => al[b] = 1 BY <1>g, <1>11
  <2>10. bp + s \in B => al[bp + s] = 1 BY <1>i, <1>11, <2>2
  <2>11. bp + sz[bp] <= bp + s BY <1>f, <1>11, <2>2, <1>9
  <2>12. bp + s \in B \cup {H.brk} BY <1>j, <1>11, <2>2
  <2>13. Coalesces(H, B, sz, al, bp, R, bp, s)
    BY <1>f, <2>2, <2>6, <2>7, <2>8, <2>9, <2>10, <2>11, <2>12 DEF Coalesces
  <2> QED BY <2>13 DEF R
<1>12. CASE al[pv] = 0
  <2>0. pv # 8 /\ 16 <= sz[pv] BY <1>12, <1>f
  <2>1. \A b \in B : b + sz[b] = pv => al[b] = 1 BY <1>h, <1>12
  <2>2. CASE ~(nx \in B /\ al[nx] = 0)
    <3> DEFINE s == sz[bp] + sz[pv]
               K == PUT(PUT(H, pv + s - 8, s), pv - 4, s)
    <3>2. s \in Int /\ s % 8 = 0 /\ 16 <= s /\ pv + s = nx /\ s + 0 = s BY <1>0, <1>f, <1>9, <2>0
    <3>9. pv + s - 8 = nx - 8 BY <1>0, <1>f, <1>9
    <3>1. merged = Returning(K, pv)
      <4>1. (al[pv] = 1) = FALSE /\ ((IF nx \in B THEN al[nx] ELSE 1) = 1) = TRUE BY <1>12, <2>2, <1>f
      <4> DEFINE v == sz[bp] + GET_SIZE(H, HDRP(pv))
      <4>2. merged = Returning(PUT(PUT(H, FTRP(H, bp), PACK(v, 0)), HDRP(pv), PACK(v, 0)), pv)
        BY <1>1, <4>1 DEF merged, Merged
      <4>3. v = s BY <1>3
      <4>4. FTRP(H, bp) = pv + s - 8 BY <1>3, <3>9
      <4> HIDE DEF v, s
      <4> QED BY <3>2, <4>2, <4>3, <4>4 DEF PACK, HDRP, WSIZE
    <3>3. pv - 4 \in Words /\ pv + s - 8 \in Words
      <4>1. pv + s - 8 = bp + sz[bp] - 8 BY <1>0, <1>f
      <4> QED BY <4>1, <1>e
    <3>4. R = CoalesceEnd(K, pv) BY <1>8, <1>12, <3>1 DEF CoalesceEnd
    <3> HIDE DEF s
    <3>5. Wrote(H, K, pv, s, s) BY <1>f, <3>2, <3>3, PutTwice
    <3> HIDE DEF K
    <3>6. /\ R.bp = pv /\ R.H \in HeapType /\ R.H.brk = H.brk /\ R.H.listp = H.listp /\ R.H.mem = K.mem
          /\ R.H.rover = IF NEXT_FIT /\ pv < H.rover /\ H.rover < pv + s THEN pv ELSE H.rover
      BY <1>f, <3>2, <3>4, <3>5, RoverMoved DEF Ended
    <3>7. Retags(H.mem, R.H.mem, pv, s, s) BY <3>5, <3>6 DEF Wrote
    <3>8. \A b \in B : pv <= b /\ b < pv + s => al[b] = 0
      <4> SUFFICES ASSUME NEW b \in B, pv <= b, b < pv + s PROVE al[b] = 0 OBVIOUS
      <4>1. b \in Int BY <1>a
      <4>2. b = pv \/ b = bp BY <1>6, <1>f, <3>2, <4>1
      <4> QED BY <1>12, <4>2
    <3>10. pv + s \in B => al[pv + s] = 1 BY <2>2, <3>2, <1>f
    <3>11. bp + sz[bp] <= pv + s /\ pv <= bp BY <1>0, <1>f, <3>2, <1>9
    <3>13. Coalesces(H, B, sz, al, bp, R, pv, s)
      BY <1>f, <1>9, <2>0, <2>1, <3>2, <3>6, <3>7, <3>8, <3>10, <3>11 DEF Coalesces
    <3> QED BY <3>13 DEF R
  <2>3. CASE nx \in B /\ al[nx] = 0
    <3> DEFINE s == sz[bp] + sz[pv] + sz[nx]
               K == PUT(PUT(H, pv - 4, s), pv + s - 8, s)
    <3>2. s \in Int /\ s % 8 = 0 /\ 16 <= s /\ pv + s = nx + sz[nx] /\ s + 0 = s BY <1>0, <1>f, <1>9, <2>0, <2>3
    <3>9. pv + s - 8 = nx + sz[nx] - 8 BY <1>0, <1>f, <1>9, <2>3
    <3>1. merged = Returning(K, pv)
      <4>1. (al[pv] = 1) = FALSE /\ ((IF nx \in B THEN al[nx] ELSE 1) = 1) = FALSE BY <1>12, <2>3
      <4> DEFINE v == sz[bp] + GET_SIZE(H, HDRP(pv)) + GET_SIZE(H, FTRP(H, nx))
      <4>2. merged = Returning(PUT(PUT(H, HDRP(pv), PACK(v, 0)), FTRP(H, nx), PACK(v, 0)), pv)
        BY <1>1, <1>3, <4>1 DEF merged, Merged
      <4>3. v = s BY <1>3, <1>5, <2>3
      <4>4. FTRP(H, nx) = pv + s - 8 BY <1>5, <2>3, <3>9
      <4> HIDE DEF v, s
      <4> QED BY <3>2, <4>2, <4>3, <4>4 DEF PACK, HDRP, WSIZE
    <3>3. pv - 4 \in Words /\ pv + s - 8 \in Words BY <3>9, <1>e, <2>3
    <3>4. R = CoalesceEnd(K, pv) BY <1>8, <1>12, <3>1 DEF CoalesceEnd
    <3> HIDE DEF s
    <3>5. Wrote(H, K, pv, s, s) BY <1>f, <3>2, <3>3, PutTwice
    <3> HIDE DEF K
    <3>6. /\ R.bp = pv /\ R.H \in HeapType /\ R.H.brk = H.brk /\ R.H.listp = H.listp /\ R.H.mem = K.mem
          /\ R.H.rover = IF NEXT_FIT /\ pv < H.rover /\ H.rover < pv + s THEN pv ELSE H.rover
      BY <1>f, <3>2, <3>4, <3>5, RoverMoved DEF Ended
    <3>7. Retags(H.mem, R.H.mem, pv, s, s) BY <3>5, <3>6 DEF Wrote
    <3>8. \A b \in B : pv <= b /\ b < pv + s => al[b] = 0
      <4> SUFFICES ASSUME NEW b \in B, pv <= b, b < pv + s PROVE al[b] = 0 OBVIOUS
      <4>1. b \in Int BY <1>a
      <4>2. b = pv \/ b = bp \/ b = nx BY <1>6, <1>7, <1>f, <2>3, <3>2, <4>1
      <4> QED BY <1>12, <2>3, <4>2
    <3>10. pv + s \in B => al[pv + s] = 1 BY <1>i, <2>3, <3>2
    <3>11. bp + sz[bp] <= pv + s /\ pv <= bp BY <1>0, <1>f, <2>3, <3>2, <1>9
    <3>12. pv + s \in B \cup {H.brk} BY <1>j, <2>3, <3>2
    <3>13. Coalesces(H, B, sz, al, bp, R, pv, s)
      BY <1>f, <2>0, <2>1, <3>2, <3>6, <3>7, <3>8, <3>10, <3>11, <3>12 DEF Coalesces
    <3> QED BY <3>13 DEF R
  <2> QED BY <2>2, <2>3
<1>13. al[pv] = 0 \/ al[pv] = 1 BY <1>f
<1> QED BY <1>10, <1>11, <1>12, <1>13

(***************************************************************************)
(* A heap between two calls: a layout in which no free blocks are          *)
(* neighbours and the rover is on a block.  Allocd are the blocks a client *)
(* holds; Agree and Intact say that their sizes and what is between their  *)
(* tags is left alone.                                                     *)
(***************************************************************************)
Is(H, B, sz, al) ==
  H \in HeapType /\ H.listp = 8 /\ Layout(H.mem, H.brk, B, sz, al) /\ NoFree(B, sz, al) /\ RoverOK(H, B)
Allocd(B, al) == {b \in B : b # 8 /\ al[b] = 1}
Agree(y, sz, U) == \A b \in U : y[b] = sz[b]
Intact(m, n, U, sz) == \A b \in U : \A p \in Words : b <= p /\ p < b + sz[b] - 8 => n[p] = m[p]

\* The heap R.H has the allocated blocks of H, with their contents, and a free
\* block R.bp of at least the given size.
Offers(H, B, sz, al, size, R, C, y, f) ==
  /\ Is(R.H, C, y, f) /\ Allocd(C, f) = Allocd(B, al) /\ Agree(y, sz, Allocd(B, al))
  /\ Intact(H.mem, R.H.mem, Allocd(B, al), sz)
  /\ R.bp \in C /\ f[R.bp] = 0 /\ y[R.bp] >= size

\* coalesce leaves no free neighbours, and changes no allocated block.
LEMMA CoalesceGood ==
  \A H, B, sz, al, bp :
    /\ H \in HeapType /\ H.listp = 8 /\ Layout(H.mem, H.brk, B, sz, al)
    /\ bp \in B /\ bp # 8 /\ al[bp] = 0 /\ Nearly(B, sz, al, bp) /\ RoverOK(H, B)
    => \E C, y, f : Offers(H, B, sz, al, sz[bp], Coalesce(H, bp), C, y, f)
<1> TAKE H, B, sz, al, bp
<1> HAVE /\ H \in HeapType /\ H.listp = 8 /\ Layout(H.mem, H.brk, B, sz, al)
         /\ bp \in B /\ bp # 8 /\ al[bp] = 0 /\ Nearly(B, sz, al, bp) /\ RoverOK(H, B)
<1> DEFINE R == Coalesce(H, bp)
<1>1. PICK q, s : Coalesces(H, B, sz, al, bp, R, q, s)
  <2>1. /\ H \in HeapType /\ Layout(H.mem, H.brk, B, sz, al)
        /\ bp \in B /\ bp # 8 /\ al[bp] = 0 /\ Nearly(B, sz, al, bp) /\ RoverOK(H, B)
    OBVIOUS
  <2> QED BY ONLY <2>1, CoalesceCases
<1> HIDE DEF R
<1> DEFINE C == Joined(B, q, s)
           y == With1(C, sz, q, s)
           f == With1(C, al, q, 0)
<1>2. /\ q \in B /\ q # 8 /\ q <= bp /\ bp + sz[bp] <= q + s /\ q + s \in B \cup {H.brk}
      /\ s \in Int /\ s % 8 = 0 /\ 16 <= s /\ R.bp = q
  BY <1>1 DEF Coalesces
<1>3. \A b \in B : b \in Int /\ sz[b] \in Int /\ 8 <= sz[b] /\ 8 <= b /\ b + sz[b] <= H.brk /\ al[b] \in {0, 1}
  BY DEF Layout, Shaped
<1>4. \A b, c \in B : b < c => b + sz[b] <= c BY DEF Layout, Apart
<1>5. \A b \in B : q <= b /\ b < q + s => al[b] = 0 BY <1>1 DEF Coalesces
<1>6. /\ q \in C /\ (\A b \in C : b \in B /\ (b <= q \/ b >= q + s)) /\ y[q] = s /\ f[q] = 0
      /\ \A b \in C : b # q => y[b] = sz[b] /\ f[b] = al[b]
  BY <1>2, <1>3 DEF Joined, With1
<1>7. \A b \in B : b <= q \/ b >= q + s => b \in C BY DEF Joined
<1>8. Retags(H.mem, R.H.mem, q, s, s) /\ R.H \in HeapType /\ R.H.brk = H.brk /\ R.H.listp = H.listp
      /\ R.H.rover = IF NEXT_FIT /\ q < H.rover /\ H.rover < q + s THEN q ELSE H.rover
  BY <1>1 DEF Coalesces
<1>9. Layout(R.H.mem, H.brk, C, y, f)
  <2>1. s + 0 = s BY <1>2
  <2>2. Retags(H.mem, R.H.mem, q, s, s + 0) BY <1>8, <2>1
  <2>3. Layout(H.mem, H.brk, B, sz, al) OBVIOUS
  <2> QED BY ONLY <1>2, <2>2, <2>3, Retag
<1> HIDE DEF C, y, f
<1>10. Allocd(C, f) = Allocd(B, al)
  <2>1. ASSUME NEW b \in Allocd(C, f) PROVE b \in Allocd(B, al) BY <1>6 DEF Allocd
  <2>2. ASSUME NEW b \in Allocd(B, al) PROVE b \in Allocd(C, f)
    <3>1. b \in B /\ b # 8 /\ al[b] = 1 BY DEF Allocd
    <3>2. b # q /\ (b <= q \/ b >= q + s) BY <1>2, <1>3, <1>5, <3>1
    <3> QED BY <1>6, <1>7, <3>1, <3>2 DEF Allocd
  <2> QED BY <2>1, <2>2
<1>11. \A b \in Allocd(B, al) : b \in C /\ b # q /\ b \in B BY <1>6, <1>10 DEF Allocd
<1>12. Agree(y, sz, Allocd(B, al)) BY <1>6, <1>11 DEF Agree
<1>13. Intact(H.mem, R.H.mem, Allocd(B, al), sz)
  <2> SUFFICES ASSUME NEW b \in Allocd(B, al), NEW p \in Words, b <= p, p < b + sz[b] - 8
               PROVE  R.H.mem[p] = H.mem[p]
    BY DEF Intact
  <2>1. b < q \/ b >= q + s BY <1>2, <1>3, <1>6, <1>11
  <2>2. p \in Int BY WordsAre
  <2>3. p # q - 4 /\ p # q + s - 8 BY <1>2, <1>3, <1>4, <1>11, <2>1, <2>2
  <2> QED BY <1>8, <2>3 DEF Retags
<1>14. NoFree(C, y, f)
  <2> SUFFICES ASSUME NEW b \in C, b + y[b] \in C, f[b] = 0 PROVE f[b + y[b]] = 1 BY DEF NoFree
  <2>1. CASE b = q
    <3>1. q + s \in C /\ q + s # q BY <1>2, <1>3, <1>6, <2>1
    <3>2. al[q + s] = 1 BY <1>1, <1>6, <3>1 DEF Coalesces
    <3> QED BY <1>6, <2>1, <3>1, <3>2
  <2>2. CASE b # q
    <3>1. b \in B /\ y[b] = sz[b] /\ al[b] = 0 /\ b + sz[b] \in C BY <1>6, <2>2
    <3>2. b + sz[b] # q
      <4>1. b + sz[b] = q => al[b] = 1 BY <1>1, <3>1 DEF Coalesces
      <4> QED BY <3>1, <4>1
    <3>3. b # bp /\ b + sz[b] # bp
      <4>1. ~(q < bp /\ bp \in C) BY <1>2, <1>3, <1>6
      <4> QED BY <1>2, <1>3, <2>2, <3>1, <3>2, <4>1
    <3>4. al[b + sz[b]] = 1
      <4>1. b + sz[b] \in B BY <1>6, <3>1
      <4> QED BY <3>1, <3>3, <4>1 DEF Nearly
    <3> QED BY <1>6, <3>1, <3>2, <3>4
  <2> QED BY <2>1, <2>2
<1>15. RoverOK(R.H, C)
  <2>1. H.rover \in Int /\ H.brk \in Int BY DEF HeapType
  <2>2. CASE NEXT_FIT /\ q < H.rover /\ H.rover < q + s
    <3>1. R.H.rover = q BY <1>8, <2>2
    <3>2. 0 <= q /\ q <= H.brk BY <1>2, <1>3, <2>1
    <3> QED BY <1>6, <1>8, <3>1, <3>2 DEF RoverOK
  <2>3. CASE ~(NEXT_FIT /\ q < H.rover /\ H.rover < q + s)
    <3>1. R.H.rover = H.rover BY <1>8, <2>3
    <3>2. NEXT_FIT => H.rover \in C BY <1>2, <1>3, <1>7, <2>1, <2>3 DEF RoverOK
    <3> QED BY <1>8, <3>1, <3>2 DEF RoverOK
  <2> QED BY <2>2, <2>3
<1>16. R.bp \in C /\ f[R.bp] = 0 /\ y[R.bp] >= sz[bp] BY <1>2, <1>3, <1>6
<1>17. Is(R.H, C, y, f) BY <1>8, <1>9, <1>14, <1>15 DEF Is
<1>18. Offers(H, B, sz, al, sz[bp], R, C, y, f) BY <1>10, <1>12, <1>13, <1>16, <1>17 DEF Offers
<1> QED BY <1>18 DEF R

\* What is asked for is rounded up to double words, with room for the tags.
LEMMA AdjustedFits ==
  ASSUME NEW size \in Nat
  PROVE  /\ AdjustedSize(size) \in Int /\ AdjustedSize(size) % 8 = 0
         /\ 16 <= AdjustedSize(size) /\ size + 8 <= AdjustedSize(size)
<1>1. CASE size <= 8 BY <1>1 DEF AdjustedSize, DSIZE
<1>2. CASE size > 8
  <2>1. AdjustedSize(size) = 8 * ((size + 15) \div 8) BY <1>2 DEF AdjustedSize, DSIZE
  <2> QED BY <1>2, <2>1
<1> QED BY <1>1, <1>2

\* What two calls in turn leave alone.
LEMMA IntactTwice ==
  \A m, k, n, U, sz, z :
    Intact(m, k, U, sz) /\ Agree(z, sz, U) /\ Intact(k, n, U, z) => Intact(m, n, U, sz)
BY DEF Intact, Agree

\* extend_heap adds a free block to the heap, merged with the last one if that is
\* free, or leaves the heap alone when memlib refuses.
LEMMA ExtendGood ==
  \A H, B, sz, al, n :
    Is(H, B, sz, al) /\ n \in Int /\ n % 8 = 0 /\ 16 <= n =>
      \/ ExtendHeap(H, n \div WSIZE) = Returning(H, NULL)
      \/ \E C, y, f : Offers(H, B, sz, al, n, ExtendHeap(H, n \div WSIZE), C, y, f)
<1> TAKE H, B, sz, al, n
<1> HAVE Is(H, B, sz, al) /\ n \in Int /\ n % 8 = 0 /\ 16 <= n
<1> DEFINE R == ExtendHeap(H, n \div WSIZE)
           I == Sbrk(H, n)
           grown == Tagged(I, H.brk, n, 0)
           K == PUT(grown, H.brk + n - 4, 1)
<1>0. H \in HeapType /\ H.listp = 8 /\ Layout(H.mem, H.brk, B, sz, al) /\ NoFree(B, sz, al) /\ RoverOK(H, B)
  BY DEF Is
<1>1. /\ H.brk \in Int /\ H.brk % 8 = 0 /\ 16 <= H.brk /\ H.brk <= MAX_HEAP /\ MAX_HEAP \in Nat
      /\ H.mem \in [Words -> Int] /\ H.rover \in Int
  BY <1>0, MMAssumption DEF Layout, Shaped, HeapType
<1>2. R = IF H.brk + n <= MAX_HEAP
            THEN Coalesce(PUT(grown, HDRP(NEXT_BLKP(grown, H.brk)), PACK(0, 1)), H.brk) ELSE Returning(H, NULL)
  <2>1. (n \div 4 + ((n \div 4) % 2)) * 4 = n OBVIOUS
  <2> QED BY <2>1 DEF ExtendHeap, CanGrow, WSIZE
<1>3. CASE ~(H.brk + n <= MAX_HEAP) BY <1>2, <1>3
<1>4. CASE H.brk + n <= MAX_HEAP
  <2>1. I \in HeapType /\ I.mem = H.mem /\ I.brk = H.brk + n /\ I.listp = 8 /\ I.rover = H.rover
    BY <1>0, <1>1 DEF Sbrk, HeapType
  <2>2. H.brk - 4 \in Words /\ H.brk + n - 8 \in Words /\ H.brk + n - 4 \in Words BY <1>1, <1>4, WordsAre
  <2> HIDE DEF I
  <2>3. Wrote(I, grown, H.brk, n, n + 0) BY <1>1, <2>1, <2>2, TaggedWrote
  <2> HIDE DEF grown
  <2>4. grown \in HeapType /\ grown.brk = H.brk + n /\ grown.listp = 8 /\ grown.rover = H.rover
        /\ Retags(H.mem, grown.mem, H.brk, n, n + 0)
    BY <2>1, <2>3 DEF Wrote
  <2>5. NEXT_BLKP(grown, H.brk) = H.brk + n
    <3>1. grown.mem[H.brk - 4] = n BY <2>4 DEF Retags
    <3>2. n - (n % 8) = n OBVIOUS
    <3> QED BY <3>1, <3>2 DEF NEXT_BLKP, GET_SIZE, HDRP, WSIZE
  <2>6. R = Coalesce(K, H.brk)
    <3>1. HDRP(NEXT_BLKP(grown, H.brk)) = H.brk + n - 4 BY <1>1, <2>5 DEF HDRP, WSIZE
    <3>2. PACK(0, 1) = 1 BY DEF PACK
    <3> QED BY <1>2, <1>4, <3>1, <3>2
  <2>7. K \in HeapType /\ K.mem = [grown.mem EXCEPT ![H.brk + n - 4] = 1] /\ K.brk = H.brk + n /\ K.listp = 8
        /\ K.rover = H.rover
    BY <2>2, <2>4, Puts
  <2> HIDE DEF K
  <2>8. Grows(H.mem, K.mem, H.brk, n, 0)
    <3>1. H.brk - 4 # H.brk + n - 4 /\ H.brk + n - 8 # H.brk + n - 4 BY <1>1
    <3>2. grown.mem \in [Words -> Int] BY <2>4 DEF HeapType
    <3> QED BY <2>2, <2>4, <2>7, <3>1, <3>2 DEF Grows, Retags
  <2> DEFINE C == B \cup {H.brk}
             z == With1(C, sz, H.brk, n)
             g == With1(C, al, H.brk, 0)
  <2>9. Layout(K.mem, K.brk, C, z, g) BY ONLY <1>0, <1>4, <2>7, <2>8, Grow, n \in Int, n % 8 = 0, 16 <= n
  <2>10. \A b \in B : b \in Int /\ sz[b] \in Int /\ 8 <= sz[b] /\ 8 <= b /\ b + sz[b] <= H.brk
    BY <1>0 DEF Layout, Shaped
  <2>11. H.brk \in C /\ (\A b \in B : b \in C /\ b # H.brk /\ z[b] = sz[b] /\ g[b] = al[b]) /\ z[H.brk] = n
         /\ g[H.brk] = 0 /\ (\A b \in C : b # H.brk => b \in B)
    BY <1>1, <2>10 DEF With1
  <2> HIDE DEF C, z, g
  <2>12. Nearly(C, z, g, H.brk)
    <3> SUFFICES ASSUME NEW b \in C, b # H.brk, b + z[b] # H.brk, b + z[b] \in C, g[b] = 0 PROVE g[b + z[b]] = 1
      BY DEF Nearly
    <3>1. b \in B /\ z[b] = sz[b] /\ al[b] = 0 BY <2>11
    <3>2. b + sz[b] \in B BY <2>11, <3>1
    <3> QED BY <1>0, <2>11, <3>1, <3>2 DEF NoFree
  <2>13. RoverOK(K, C) BY <1>0, <1>1, <2>7, <2>11 DEF RoverOK
  <2>14. H.brk # 8 BY <1>1
  <2>15. PICK D, y, f : Offers(K, C, z, g, z[H.brk], R, D, y, f)
    BY ONLY <2>6, <2>7, <2>9, <2>11, <2>12, <2>13, <2>14, CoalesceGood
  <2>16. Allocd(C, g) = Allocd(B, al) BY <2>11 DEF Allocd
  <2>17. \A b \in Allocd(B, al) : b \in B BY DEF Allocd
  <2>18. Agree(z, sz, Allocd(B, al)) BY <2>11, <2>17 DEF Agree
  <2>19. Intact(H.mem, K.mem, Allocd(B, al), sz)
    <3> SUFFICES ASSUME NEW b \in Allocd(B, al), NEW p \in Words, b <= p, p < b + sz[b] - 8
                 PROVE  K.mem[p] = H.mem[p]
      BY DEF Intact
    <3>1. p \in Int BY WordsAre
    <3>2. p \notin {H.brk - 4, H.brk + n - 8, H.brk + n - 4} BY <1>1, <2>10, <2>17, <3>1
    <3> QED BY <2>8, <3>2 DEF Grows
  <2>20. Agree(y, sz, Allocd(B, al)) BY <2>15, <2>16, <2>18 DEF Offers, Agree
  <2>21. Intact(H.mem, R.H.mem, Allocd(B, al), sz)
    <3>1. Intact(K.mem, R.H.mem, Allocd(B, al), z) BY <2>15, <2>16 DEF Offers
    <3> QED BY ONLY <2>18, <2>19, <3>1, IntactTwice
  <2>22. Offers(H, B, sz, al, n, R, D, y, f) BY <2>11, <2>15, <2>16, <2>20, <2>21 DEF Offers
  <2> QED BY <2>22
<1> QED BY <1>3, <1>4

\* The heap K has, beside the allocated blocks of H with their contents, one at
\* bp of at least the given size.
Takes(H, B, sz, al, bp, size, K, C, y, f) ==
  /\ Is(K, C, y, f) /\ bp \notin Allocd(B, al) /\ Allocd(C, f) = Allocd(B, al) \cup {bp}
  /\ Agree(y, sz, Allocd(B, al)) /\ y[bp] >= size
  /\ Intact(H.mem, K.mem, Allocd(B, al), sz)

\* place makes the block allocated, and what is left of it free if that is a block.
LEMMA PlaceGood ==
  \A H, B, sz, al, bp, n :
    Is(H, B, sz, al) /\ bp \in B /\ al[bp] = 0 /\ n \in Int /\ n % 8 = 0 /\ 16 <= n /\ n <= sz[bp] =>
      \E C, y, f : Takes(H, B, sz, al, bp, n, Place(H, bp, n), C, y, f)
<1> TAKE H, B, sz, al, bp, n
<1> HAVE Is(H, B, sz, al) /\ bp \in B /\ al[bp] = 0 /\ n \in Int /\ n % 8 = 0 /\ 16 <= n /\ n <= sz[bp]
<1> DEFINE K == Place(H, bp, n)
<1>0. H \in HeapType /\ H.listp = 8 /\ Layout(H.mem, H.brk, B, sz, al) /\ NoFree(B, sz, al) /\ RoverOK(H, B)
  BY DEF Is
<1>a. \A b \in B : b \in Int /\ sz[b] \in Int /\ 8 <= sz[b] /\ 8 <= b /\ b + sz[b] <= H.brk /\ al[b] \in {0, 1}
  BY <1>0 DEF Layout, Shaped
<1>b. \A b, c \in B : b < c => b + sz[b] <= c BY <1>0 DEF Layout, Apart
<1>1. bp # 8 BY <1>0 DEF Layout, Shaped
<1>2. /\ bp \in Int /\ bp % 8 = 0 /\ sz[bp] \in Int /\ sz[bp] % 8 = 0 /\ 16 <= bp /\ bp + sz[bp] <= H.brk
      /\ H.brk \in Int /\ H.brk <= MAX_HEAP /\ MAX_HEAP \in Nat
  <2>1. bp \in Int /\ bp % 8 = 0 /\ 8 <= bp /\ sz[bp] \in Int /\ sz[bp] % 8 = 0 /\ bp + sz[bp] <= H.brk
        /\ H.brk \in Int /\ H.brk <= MAX_HEAP
    BY <1>0 DEF Layout, Shaped
  <2>2. 16 <= bp BY ONLY <1>1, <2>1
  <2> QED BY <2>1, <2>2, MMAssumption
<1>m. bp \in B OBVIOUS
<1>3. GET_SIZE(H, HDRP(bp)) = sz[bp]
  <2>1. Layout(H.mem, H.brk, B, sz, al) BY <1>0
  <2>2. ReadAs(H, bp, sz[bp], al[bp]) BY ONLY <2>1, <1>m, Reads
  <2> QED BY <2>2 DEF ReadAs
<1>4. bp - 4 \in Words /\ bp + sz[bp] - 8 \in Words /\ bp + n - 8 \in Words /\ bp + n - 4 \in Words
  BY <1>2, WordsAre
<1>5. bp \notin Allocd(B, al) BY DEF Allocd
<1>6. \A b \in Allocd(B, al) : b \in B /\ b # bp /\ b # 8 BY <1>5 DEF Allocd
<1>7. \A b \in B : b # bp => b + sz[b] <= bp \/ b >= bp + sz[bp] BY <1>a, <1>b
<1>8. CASE sz[bp] - n >= 16
  <2> DEFINE rest == sz[bp] - n
             I == Tagged(H, bp, n, 1)
             J == Tagged(I, bp + n, rest, 0)
  <2>1. Wrote(H, I, bp, n, n + 1) BY <1>0, <1>2, <1>4, TaggedWrote
  <2>2. rest \in Int /\ rest % 8 = 0 /\ (bp + n) - 4 \in Words /\ (bp + n) + rest - 8 \in Words /\ bp + n \in Int
        /\ (bp + n) + rest - 8 = bp + sz[bp] - 8
    <3>1. (bp + n) + rest - 8 = bp + sz[bp] - 8 BY <1>2
    <3> QED BY <1>2, <1>4, <3>1
  <2> HIDE DEF I
  <2>3. I \in HeapType /\ I.brk = H.brk /\ I.listp = H.listp /\ I.rover = H.rover
        /\ I.mem[bp - 4] = n + 1 /\ I.mem[bp + n - 8] = n + 1
        /\ \A p \in Words : p # bp - 4 /\ p # bp + n - 8 => I.mem[p] = H.mem[p]
    BY <2>1 DEF Wrote, Retags
  <2>4. NEXT_BLKP(I, bp) = bp + n
    <3>1. (n + 1) - ((n + 1) % 8) = n BY Unpacked
    <3> QED BY <2>3, <3>1 DEF NEXT_BLKP, GET_SIZE, HDRP, WSIZE
  <2>5. K = J BY <1>3, <1>8, <2>4 DEF Place, DSIZE, I
  <2> HIDE DEF rest, K
  <2>6. Wrote(I, J, bp + n, rest, rest + 0) BY ONLY <2>2, <2>3, TaggedWrote
  <2> HIDE DEF J
  <2>7. rest = sz[bp] - n /\ rest + 0 = rest BY <2>2 DEF rest
  <2>8. K \in HeapType /\ K.brk = H.brk /\ K.listp = H.listp /\ K.rover = H.rover
        /\ K.mem[bp + n - 4] = rest /\ K.mem[bp + sz[bp] - 8] = rest
        /\ \A p \in Words : p # bp + n - 4 /\ p # bp + sz[bp] - 8 => K.mem[p] = I.mem[p]
    <3>1. K \in HeapType /\ K.brk = H.brk /\ K.listp = H.listp /\ K.rover = H.rover
          /\ Retags(I.mem, K.mem, bp + n, rest, rest)
      BY <2>3, <2>5, <2>6, <2>7 DEF Wrote
    <3> DEFINE head == (bp + n) - 4
               foot == (bp + n) + rest - 8
    <3>2. /\ K.mem[head] = rest /\ K.mem[foot] = rest
          /\ \A p \in Words : p # head /\ p # foot => K.mem[p] = I.mem[p]
      BY <3>1 DEF Retags
    <3>3. head = bp + n - 4 /\ foot = bp + sz[bp] - 8
      <4>1. foot = bp + sz[bp] - 8 BY <2>2
      <4> HIDE DEF foot
      <4>2. bp \in Int /\ n \in Int BY <1>2
      <4>3. head = bp + n - 4 BY ONLY <4>2
      <4> QED BY ONLY <4>1, <4>3
    <3> HIDE DEF head, foot
    <3> QED BY ONLY <3>1, <3>2, <3>3
  <2>9. Cuts(H.mem, K.mem, bp, n, sz[bp], 1, 0)
    <3>1. bp - 4 \notin {bp + n - 4, bp + sz[bp] - 8} /\ bp + n - 8 \notin {bp + n - 4, bp + sz[bp] - 8}
      BY <1>2, <1>8
    <3>2. K.mem \in [Words -> Int] BY <2>8 DEF HeapType
    <3>3. K.mem[bp - 4] = n + 1 /\ K.mem[bp + n - 8] = n + 1 BY <1>4, <2>3, <2>8, <3>1
    <3> QED BY <2>3, <2>7, <2>8, <3>2, <3>3 DEF Cuts
  <2> DEFINE C == B \cup {bp + n}
             y == With2(B, sz, bp, n, bp + n, sz[bp] - n)
             f == With2(B, al, bp, 1, bp + n, 0)
  <2>10. Layout(K.mem, K.brk, C, y, f)
    <3>1. n \in Int /\ 16 <= n /\ n % 8 = 0 /\ sz[bp] - n >= 16 /\ 1 \in {0, 1} /\ 0 \in {0, 1} BY <1>8
    <3> QED BY ONLY <1>0, <1>1, <1>m, <2>8, <2>9, <3>1, Cut
  <2>11. bp + n \notin B BY <1>a, <1>2, <1>7, <1>8
  <2>12. /\ (\A b \in B : b \in C /\ b # bp + n /\ (b # bp => y[b] = sz[b] /\ f[b] = al[b]))
         /\ y[bp] = n /\ f[bp] = 1 /\ y[bp + n] = sz[bp] - n /\ f[bp + n] = 0
         /\ \A b \in C : b # bp + n => b \in B
    BY <1>2, <2>11 DEF With2
  <2> HIDE DEF C, y, f
  <2>13. Allocd(C, f) = Allocd(B, al) \cup {bp} BY <1>1, <1>5, <1>6, <1>m, <2>12 DEF Allocd
  <2>14. Agree(y, sz, Allocd(B, al)) BY <1>6, <2>12 DEF Agree
  <2>15. Intact(H.mem, K.mem, Allocd(B, al), sz)
    <3> SUFFICES ASSUME NEW b \in Allocd(B, al), NEW p \in Words, b <= p, p < b + sz[b] - 8
                 PROVE  K.mem[p] = H.mem[p]
      BY DEF Intact
    <3>1. p \in Int BY WordsAre
    <3>2. b \in Int /\ sz[b] \in Int /\ (b + sz[b] <= bp \/ b >= bp + sz[bp]) BY <1>a, <1>6, <1>7
    <3>3. p \notin {bp - 4, bp + n - 8, bp + n - 4, bp + sz[bp] - 8} BY <1>2, <1>8, <3>1, <3>2
    <3> QED BY <2>9, <3>3 DEF Cuts
  <2>16. NoFree(C, y, f)
    <3> SUFFICES ASSUME NEW b \in C, b + y[b] \in C, f[b] = 0 PROVE f[b + y[b]] = 1 BY DEF NoFree
    <3>1. CASE b = bp + n
      <4>1. b + y[b] = bp + sz[bp] /\ bp + sz[bp] # bp + n /\ bp + sz[bp] # bp BY <1>2, <1>8, <2>12, <3>1
      <4>2. bp + sz[bp] \in B BY <2>12, <4>1
      <4> QED BY <1>0, <2>12, <4>1, <4>2 DEF NoFree
    <3>2. CASE b # bp + n
      <4>1. b \in B /\ b # bp /\ y[b] = sz[b] /\ al[b] = 0 BY <2>12, <3>2
      <4>2. b + sz[b] # bp + n BY <1>a, <1>2, <1>7, <1>8, <4>1
      <4>3. b + sz[b] \in B BY <2>12, <4>1, <4>2
      <4> QED BY <1>0, <2>12, <4>1, <4>3 DEF NoFree
    <3> QED BY <3>1, <3>2
  <2>17. RoverOK(K, C) BY <1>0, <2>8, <2>12 DEF RoverOK
  <2>18. Takes(H, B, sz, al, bp, n, K, C, y, f)
    BY <1>0, <1>5, <2>8, <2>10, <2>12, <2>13, <2>14, <2>15, <2>16, <2>17 DEF Takes, Is
  <2> QED BY <2>18 DEF K
<1>9. CASE ~(sz[bp] - n >= 16)
  <2>1. K = Tagged(H, bp, sz[bp], 1) BY <1>3, <1>9 DEF Place, DSIZE
  <2>2. Wrote(H, K, bp, sz[bp], sz[bp] + 1) BY <1>0, <1>2, <1>4, <2>1, TaggedWrote
  <2> HIDE DEF K
  <2>3. K \in HeapType /\ K.brk = H.brk /\ K.listp = H.listp /\ K.rover = H.rover
        /\ Retags(H.mem, K.mem, bp, sz[bp], sz[bp] + 1)
    BY <2>2 DEF Wrote
  <2> DEFINE C == Joined(B, bp, sz[bp])
             y == With1(C, sz, bp, sz[bp])
             f == With1(C, al, bp, 1)
  <2>4. Layout(K.mem, K.brk, C, y, f)
    <3>1. bp + sz[bp] \in B \cup {H.brk} BY <1>0 DEF Layout, Linked
    <3>2. 16 <= sz[bp] /\ 1 \in {0, 1} BY <1>2
    <3> QED BY ONLY <1>0, <1>1, <1>m, <1>2, <2>3, <3>1, <3>2, Retag
  <2>5. C = B BY <1>a, <1>7 DEF Joined
  <2>6. (\A b \in B : y[b] = sz[b] /\ (b # bp => f[b] = al[b])) /\ f[bp] = 1 BY <2>5 DEF With1
  <2> HIDE DEF C, y, f
  <2>7. Allocd(C, f) = Allocd(B, al) \cup {bp} BY <1>1, <1>5, <1>6, <1>m, <2>5, <2>6 DEF Allocd
  <2>8. Agree(y, sz, Allocd(B, al)) BY <1>6, <2>6 DEF Agree
  <2>9. Intact(H.mem, K.mem, Allocd(B, al), sz)
    <3> SUFFICES ASSUME NEW b \in Allocd(B, al), NEW p \in Words, b <= p, p < b + sz[b] - 8
                 PROVE  K.mem[p] = H.mem[p]
      BY DEF Intact
    <3>1. p \in Int BY WordsAre
    <3>2. b \in Int /\ sz[b] \in Int /\ (b + sz[b] <= bp \/ b >= bp + sz[bp]) BY <1>a, <1>6, <1>7
    <3>3. p # bp - 4 /\ p # bp + sz[bp] - 8 BY <1>2, <3>1, <3>2
    <3> QED BY <2>3, <3>3 DEF Retags
  <2>10. NoFree(C, y, f)
    <3> SUFFICES ASSUME NEW b \in B, b + sz[b] \in B, f[b] = 0 PROVE f[b + sz[b]] = 1 BY <2>5, <2>6 DEF NoFree
    <3>1. b # bp /\ al[b] = 0 BY <2>6
    <3> QED BY <1>0, <2>6, <3>1 DEF NoFree
  <2>11. RoverOK(K, C) BY <1>0, <2>3, <2>5 DEF RoverOK
  <2>12. Takes(H, B, sz, al, bp, n, K, C, y, f)
    BY <1>0, <1>5, <2>3, <2>4, <2>6, <2>7, <2>8, <2>9, <2>10, <2>11 DEF Takes, Is
  <2> QED BY <2>12 DEF K
<1> QED BY <1>8, <1>9

-----------------------------------------------------------------------------
(* The blocks that the headers lead through. *)

\* Every set of numbers that is not empty has a least element.
LEMMA LeastNumber ==
  ASSUME NEW S \in SUBSET Nat, S # {}
  PROVE  \E x \in S : \A y \in S : x <= y
<1>1. PICK x \in S : \A y \in S : ~ (<<y, x>> \in OpToRel(<, Nat))
  BY NatLessThanWellFounded, WFMin, Zenon
<1>2. \A y \in S : <<y, x>> \in OpToRel(<, Nat) <=> y < x
  BY DEF OpToRel
<1>3. \A y \in S : ~ (y < x) BY <1>1, <1>2, Zenon
<1> QED BY ONLY S \in SUBSET Nat, x \in S, <1>3

\* What is within so many steps: g is the recursive function of BlocksFrom, on
\* the numbers of D.
Onward(H, S) == UNION {{p, NEXT_BLKP(H, p)} : p \in S}
Walks(H, bp, D, g) == g = [k \in D |-> IF k = 0 THEN {bp} ELSE Onward(H, g[k - 1])]

\* There is one walk of each length, and they agree.
LEMMA WalkOnce ==
  ASSUME NEW H, NEW bp, NEW n \in Nat, NEW m \in Nat, NEW g, NEW h,
         Walks(H, bp, 0..n, g), Walks(H, bp, 0..m, h), NEW k \in Nat, k <= n, k <= m
  PROVE  g[k] = h[k]
<1> SUFFICES ASSUME g[k] # h[k] PROVE FALSE OBVIOUS
<1> DEFINE Bad == {i \in Nat : i <= n /\ i <= m /\ g[i] # h[i]}
<1>1. Bad \in SUBSET Nat /\ Bad # {} OBVIOUS
<1>2. PICK i \in Bad : \A j \in Bad : i <= j BY <1>1, LeastNumber
<1>3. i \in 0..n /\ i \in 0..m /\ g[i] # h[i] BY <1>2
<1>4. g[i] = (IF i = 0 THEN {bp} ELSE Onward(H, g[i - 1])) /\ h[i] = (IF i = 0 THEN {bp} ELSE Onward(H, h[i - 1]))
  BY <1>3 DEF Walks
<1>5. i # 0 BY <1>3, <1>4
<1>6. i - 1 \in Nat /\ i - 1 <= n /\ i - 1 <= m /\ ~(i <= i - 1) BY <1>3, <1>5
<1>7. i - 1 \notin Bad BY <1>2, <1>6
<1>8. g[i - 1] = h[i - 1] BY <1>6, <1>7
<1> QED BY <1>3, <1>4, <1>5, <1>8

\* There is a walk of every length: the recursion of BlocksFrom is well founded.
LEMMA WalkEver ==
  ASSUME NEW H, NEW bp, NEW n \in Nat
  PROVE  \E g : Walks(H, bp, 0..n, g)
<1> SUFFICES ASSUME ~ \E g : Walks(H, bp, 0..n, g) PROVE FALSE OBVIOUS
<1> DEFINE Bad == {i \in Nat : ~ \E g : Walks(H, bp, 0..i, g)}
<1>1. Bad \in SUBSET Nat /\ Bad # {} OBVIOUS
<1>2. PICK i \in Bad : \A j \in Bad : i <= j BY <1>1, LeastNumber
<1>3. i # 0
  <2>1. Walks(H, bp, 0..0, [k \in 0..0 |-> {bp}]) BY DEF Walks
  <2> QED BY <1>2, <2>1
<1>4. i \in Nat /\ i - 1 \in Nat /\ ~(i <= i - 1) BY <1>2, <1>3
<1>5. PICK g : Walks(H, bp, 0..i - 1, g) BY <1>2, <1>4
<1> DEFINE h == [k \in 0..i |-> IF k = i THEN Onward(H, g[i - 1]) ELSE g[k]]
<1>6. ASSUME NEW k \in 0..i PROVE h[k] = IF k = 0 THEN {bp} ELSE Onward(H, h[k - 1])
  <2>1. CASE k = i
    <3>1. h[k] = Onward(H, g[i - 1]) /\ k # 0 BY <1>3, <2>1
    <3>2. h[k - 1] = g[i - 1] BY <1>4, <2>1
    <3> QED BY <3>1, <3>2, <2>1
  <2>2. CASE k # i
    <3>1. k \in 0..i - 1 /\ h[k] = g[k] BY <1>4, <2>2
    <3>2. g[k] = IF k = 0 THEN {bp} ELSE Onward(H, g[k - 1]) BY <1>5, <3>1 DEF Walks
    <3>3. k # 0 => h[k - 1] = g[k - 1] BY <1>4, <2>2
    <3> QED BY <3>1, <3>2, <3>3
  <2> QED BY <2>1, <2>2
<1>7. h = [k \in 0..i |-> h[k]] OBVIOUS
<1> HIDE DEF h
<1>8. h = [k \in 0..i |-> IF k = 0 THEN {bp} ELSE Onward(H, h[k - 1])] BY <1>6, <1>7
<1> QED BY <1>2, <1>8 DEF Walks

\* So the recursive function of BlocksFrom is what its equation says.
LEMMA WithinIs ==
  ASSUME NEW H, NEW bp
  PROVE  \E W : Walks(H, bp, Nat, W)
                /\ BlocksFrom(H, bp) = {p \in W[MAX_HEAP \div DSIZE] : GET_SIZE(H, HDRP(p)) # 0}
<1> DEFINE G(n) == CHOOSE g : Walks(H, bp, 0..n, g)
           V == [n \in Nat |-> G(n)[n]]
           W == CHOOSE g : Walks(H, bp, Nat, g)
<1>1. ASSUME NEW n \in Nat PROVE Walks(H, bp, 0..n, G(n)) BY WalkEver
<1>2. ASSUME NEW n \in Nat PROVE V[n] = IF n = 0 THEN {bp} ELSE Onward(H, V[n - 1])
  <2>1. n \in 0..n /\ V[n] = G(n)[n] OBVIOUS
  <2> HIDE DEF G, V
  <2>2. G(n)[n] = IF n = 0 THEN {bp} ELSE Onward(H, G(n)[n - 1]) BY <1>1, <2>1 DEF Walks
  <2>3. CASE n # 0
    <3>1. n - 1 \in Nat /\ n - 1 <= n BY <2>3
    <3>2. V[n - 1] = G(n - 1)[n - 1] BY <3>1 DEF V
    <3>3. Walks(H, bp, 0..n, G(n)) /\ Walks(H, bp, 0..n - 1, G(n - 1)) BY <1>1, <3>1
    <3>4. G(n)[n - 1] = G(n - 1)[n - 1] BY <3>1, <3>3, WalkOnce
    <3> QED BY <2>1, <2>2, <2>3, <3>2, <3>4
  <2> QED BY <2>1, <2>2, <2>3
<1>3. V = [n \in Nat |-> V[n]] OBVIOUS
<1> HIDE DEF V
<1>4. V = [n \in Nat |-> IF n = 0 THEN {bp} ELSE Onward(H, V[n - 1])] BY <1>2, <1>3
<1>5. Walks(H, bp, Nat, V) BY <1>4 DEF Walks
<1>6. Walks(H, bp, Nat, W) BY <1>5
<1>7. BlocksFrom(H, bp) = {p \in W[MAX_HEAP \div DSIZE] : GET_SIZE(H, HDRP(p)) # 0}
  BY DEF BlocksFrom, Walks, Onward
<1> QED BY <1>6, <1>7

\* The blocks from one of them on are some of them, and from the prologue on all.
LEMMA BlocksAre ==
  \A H, B, sz, al, x : Layout(H.mem, H.brk, B, sz, al) /\ x \in B =>
    BlocksFrom(H, x) \subseteq B /\ BlocksFrom(H, 8) = B
<1> TAKE H, B, sz, al, x
<1> HAVE Layout(H.mem, H.brk, B, sz, al) /\ x \in B
<1>0. H.brk \in Int /\ H.brk <= MAX_HEAP /\ MAX_HEAP \in Nat /\ MAX_HEAP % 8 = 0 /\ 8 \in B
  BY MMAssumption DEF Layout, Shaped
<1>1. \A b \in B : b \in Int /\ sz[b] \in Int /\ b % 8 = 0 /\ 8 <= sz[b] /\ 8 <= b /\ b + sz[b] <= H.brk
  BY DEF Layout, Shaped
<1>L. Layout(H.mem, H.brk, B, sz, al) OBVIOUS
<1>r. \A b : b \in B => ReadAs(H, b, sz[b], al[b]) BY ONLY <1>L, Reads
<1>2. ASSUME NEW b \in B PROVE GET_SIZE(H, HDRP(b)) # 0 /\ NEXT_BLKP(H, b) = b + sz[b] BY <1>1, <1>r DEF ReadAs
<1>3. GET_SIZE(H, HDRP(H.brk)) = 0 BY ONLY <1>L, ReadsEpilogue, Zenon
<1>4. NEXT_BLKP(H, H.brk) = H.brk BY <1>0, <1>3 DEF NEXT_BLKP
<1> DEFINE steps == MAX_HEAP \div DSIZE
<1>5. steps \in Nat /\ 8 * steps = MAX_HEAP BY <1>0 DEF DSIZE
<1> HIDE DEF steps
<1>6. ASSUME NEW y, y \in B PROVE BlocksFrom(H, y) \subseteq B
  <2>1. PICK W : Walks(H, y, Nat, W) /\ BlocksFrom(H, y) = {p \in W[steps] : GET_SIZE(H, HDRP(p)) # 0}
    BY WithinIs DEF steps
  <2> DEFINE Bad == {k \in Nat : ~(W[k] \subseteq B \cup {H.brk})}
  <2>2. Bad = {}
    <3> SUFFICES ASSUME Bad # {} PROVE FALSE OBVIOUS
    <3>1. PICK k \in Bad : \A j \in Bad : k <= j BY LeastNumber
    <3>2. W[k] = IF k = 0 THEN {y} ELSE Onward(H, W[k - 1]) BY <2>1 DEF Walks
    <3>3. k # 0 BY <1>6, <3>1, <3>2
    <3>4. k - 1 \in Nat /\ ~(k <= k - 1) BY <3>1, <3>3
    <3>5. W[k - 1] \subseteq B \cup {H.brk} BY <3>1, <3>4
    <3>6. \A p \in W[k - 1] : p \in B \cup {H.brk} /\ NEXT_BLKP(H, p) \in B \cup {H.brk}
      BY <1>2, <1>4, <3>5 DEF Layout, Linked
    <3>7. W[k] \subseteq B \cup {H.brk} BY <3>2, <3>3, <3>6 DEF Onward
    <3> QED BY <3>1, <3>7
  <2>3. W[steps] \subseteq B \cup {H.brk} BY <1>5, <2>2
  <2> QED BY <1>3, <2>1, <2>3
<1>7. B \subseteq BlocksFrom(H, 8)
  <2>1. PICK W : Walks(H, 8, Nat, W) /\ BlocksFrom(H, 8) = {p \in W[steps] : GET_SIZE(H, HDRP(p)) # 0}
    BY WithinIs DEF steps
  <2> DEFINE Bad == {k \in Nat : \E b \in B : b <= 8 + 8 * k /\ b \notin W[k]}
  <2>2. Bad = {}
    <3> SUFFICES ASSUME Bad # {} PROVE FALSE OBVIOUS
    <3>1. PICK k \in Bad : \A j \in Bad : k <= j BY LeastNumber
    <3>2. PICK b \in B : b <= 8 + 8 * k /\ b \notin W[k] BY <3>1
    <3>3. W[k] = IF k = 0 THEN {8} ELSE Onward(H, W[k - 1]) BY <2>1 DEF Walks
    <3>4. k # 0
      <4> SUFFICES ASSUME k = 0 PROVE FALSE OBVIOUS
      <4>1. b = 8 BY <1>1, <3>2
      <4> QED BY <3>2, <3>3, <4>1
    <3>5. k \in Nat /\ k - 1 \in Nat /\ ~(k <= k - 1) BY <3>1, <3>4
    <3>6. \A c \in B : c <= 8 + 8 * (k - 1) => c \in W[k - 1] BY <3>1, <3>5
    <3>7. W[k] = Onward(H, W[k - 1]) BY <3>3, <3>4
    <3>8. CASE b = 8
      <4>1. 8 <= 8 + 8 * (k - 1) BY <3>5
      <4>2. b \in W[k - 1] BY <1>0, <3>6, <3>8, <4>1
      <4> QED BY <3>2, <3>7, <4>2 DEF Onward
    <3>9. CASE b # 8
      <4>1. PICK q \in B : q + sz[q] = b BY <3>9 DEF Layout, Follows
      <4>2. q \in Int /\ sz[q] \in Int /\ 8 <= sz[q] /\ b \in Int BY <1>1
      <4>3. q <= 8 + 8 * (k - 1) BY ONLY <3>2, <3>5, <4>1, <4>2
      <4>4. q \in W[k - 1] /\ NEXT_BLKP(H, q) = b BY <1>2, <3>6, <4>1, <4>3
      <4> QED BY <3>2, <3>7, <4>4 DEF Onward
    <3> QED BY <3>8, <3>9
  <2>3. \A b \in B : b <= 8 + 8 * steps BY <1>0, <1>1, <1>5
  <2>4. \A b \in B : b \in W[steps] BY <1>5, <2>2, <2>3
  <2> QED BY <1>2, <2>1, <2>4
<1> QED BY <1>0, <1>6, <1>7

\* find_fit finds a free block that is large enough, or none, and only moves the
\* rover, to the block it found.
LEMMA FitGood ==
  \A H, B, sz, al, n :
    Is(H, B, sz, al) /\ n \in Int =>
      FindFit(H, n) = Returning(H, NULL) \/ Offers(H, B, sz, al, n, FindFit(H, n), B, sz, al)
<1> TAKE H, B, sz, al, n
<1> HAVE Is(H, B, sz, al) /\ n \in Int
<1>0. H \in HeapType /\ H.listp = 8 /\ Layout(H.mem, H.brk, B, sz, al) /\ NoFree(B, sz, al) /\ RoverOK(H, B)
  BY DEF Is
<1>L. Layout(H.mem, H.brk, B, sz, al) BY <1>0
<1>1. 8 \in B /\ H.brk \in Int /\ \A b \in B : b \in Nat /\ b <= H.brk /\ 8 <= b BY <1>0 DEF Layout, Shaped
<1>2. H.mem \in [Words -> Int] /\ H.rover \in Int BY <1>0 DEF HeapType
<1>r. \A b : b \in B => ReadAs(H, b, sz[b], al[b]) BY ONLY <1>L, Reads
<1>3. ASSUME NEW x, x \in B PROVE BlocksFrom(H, x) \subseteq B BY ONLY <1>L, <1>3, BlocksAre
<1>4. ASSUME NEW x, x \in B PROVE \A b \in FittingFrom(H, x, n) : b \in B /\ al[b] = 0 /\ sz[b] >= n
  <2> SUFFICES ASSUME NEW b \in FittingFrom(H, x, n) PROVE b \in B /\ al[b] = 0 /\ sz[b] >= n OBVIOUS
  <2>1. b \in BlocksFrom(H, x) /\ GET_ALLOC(H, HDRP(b)) = 0 /\ n <= GET_SIZE(H, HDRP(b)) BY DEF FittingFrom
  <2>2. b \in B BY <1>3, <1>4, <2>1
  <2>3. ReadAs(H, b, sz[b], al[b]) BY <1>r, <2>2
  <2>4. sz[b] \in Int BY <1>0, <2>2 DEF Layout, Shaped
  <2>5. GET_ALLOC(H, HDRP(b)) = al[b] /\ GET_SIZE(H, HDRP(b)) = sz[b] BY ONLY <2>3 DEF ReadAs
  <2> QED BY ONLY <2>1, <2>2, <2>4, <2>5, n \in Int
<1> DEFINE from == IF NEXT_FIT THEN H.rover ELSE H.listp
           ahead == FittingFrom(H, from, n)
           behind == {p \in FittingFrom(H, H.listp, n) : NEXT_FIT /\ p < H.rover}
           found == IF ahead # {} THEN ahead ELSE behind
           bp == Min(found)
<1>5. FindFit(H, n) = IF found = {} THEN Returning(H, NULL)
                      ELSE Returning(IF NEXT_FIT THEN [H EXCEPT !.rover = bp] ELSE H, bp)
  BY DEF FindFit
<1>6. from \in B /\ H.listp \in B BY <1>0, <1>1 DEF RoverOK
<1>7. \A b \in found : b \in B /\ al[b] = 0 /\ sz[b] >= n
  <2> HIDE DEF from
  <2>1. \A b \in ahead : b \in B /\ al[b] = 0 /\ sz[b] >= n BY <1>4, <1>6
  <2>2. \A b \in behind : b \in B /\ al[b] = 0 /\ sz[b] >= n BY <1>4, <1>6
  <2> HIDE DEF ahead, behind
  <2> QED BY <2>1, <2>2
<1> HIDE DEF found
<1>8. CASE found = {} BY <1>5, <1>8
<1>9. CASE found # {}
  <2>1. found \in SUBSET Nat BY <1>1, <1>7
  <2>2. \E x \in found : \A y \in found : x =< y BY <1>9, <2>1, LeastNumber
  <2>3. bp \in found BY <2>2 DEF Min
  <2> HIDE DEF bp
  <2>4. bp \in B /\ al[bp] = 0 /\ sz[bp] >= n /\ bp \in Int /\ 0 <= bp /\ bp <= H.brk BY <1>1, <1>7, <2>3
  <2> DEFINE K == IF NEXT_FIT THEN [H EXCEPT !.rover = bp] ELSE H
  <2>5. FindFit(H, n) = [H |-> K, bp |-> bp] BY <1>5, <1>9 DEF Returning
  <2>6. K \in HeapType /\ K.mem = H.mem /\ K.brk = H.brk /\ K.listp = H.listp
        /\ K.rover = IF NEXT_FIT THEN bp ELSE H.rover
    BY <1>0, <2>4 DEF HeapType
  <2> HIDE DEF K
  <2>7. RoverOK(K, B) BY <1>0, <2>4, <2>6 DEF RoverOK
  <2>8. Is(K, B, sz, al) BY <1>0, <2>6, <2>7 DEF Is
  <2>9. Agree(sz, sz, Allocd(B, al)) /\ Intact(H.mem, K.mem, Allocd(B, al), sz) BY <2>6 DEF Agree, Intact
  <2>10. FindFit(H, n).H = K /\ FindFit(H, n).bp = bp BY <2>5
  <2> QED BY ONLY <2>4, <2>8, <2>9, <2>10 DEF Offers
<1> QED BY <1>8, <1>9

\* What the client gets from malloc: nothing, or a block that was not in use, with
\* room for what it asked for.
Gets(H, B, sz, al, size, R) ==
  \/ R = Returning(H, NULL)
  \/ /\ R.bp # NULL
     /\ \E C, y, f : Takes(H, B, sz, al, R.bp, size + 8, R.H, C, y, f)

\* A free block found or made, then placed.
LEMMA OfferTaken ==
  \A H, B, sz, al, n, m, R :
    (\E C, y, f : Offers(H, B, sz, al, n, R, C, y, f)) /\ n \in Int /\ m \in Int /\ m <= n /\ m % 8 = 0 /\ 16 <= m =>
      R.bp # NULL /\ \E C, y, f : Takes(H, B, sz, al, R.bp, m, Place(R.H, R.bp, m), C, y, f)
<1> TAKE H, B, sz, al, n, m, R
<1> HAVE (\E C, y, f : Offers(H, B, sz, al, n, R, C, y, f)) /\ n \in Int /\ m \in Int /\ m <= n /\ m % 8 = 0 /\ 16 <= m
<1>1. PICK C, y, f : Offers(H, B, sz, al, n, R, C, y, f) OBVIOUS
<1>2. /\ Is(R.H, C, y, f) /\ Allocd(C, f) = Allocd(B, al) /\ Agree(y, sz, Allocd(B, al))
      /\ Intact(H.mem, R.H.mem, Allocd(B, al), sz) /\ R.bp \in C /\ f[R.bp] = 0 /\ y[R.bp] >= n
  BY <1>1 DEF Offers
<1>3. y[R.bp] \in Int /\ R.bp # NULL BY <1>2 DEF Is, Layout, Shaped, NULL
<1>4. m <= y[R.bp] BY <1>2, <1>3
<1>5. m \in Int /\ m % 8 = 0 /\ 16 <= m OBVIOUS
<1>6. PICK D, z, g : Takes(R.H, C, y, f, R.bp, m, Place(R.H, R.bp, m), D, z, g)
  BY ONLY <1>2, <1>4, <1>5, PlaceGood
<1>7. Agree(z, sz, Allocd(B, al)) BY <1>2, <1>6 DEF Takes, Agree
<1>8. Intact(R.H.mem, Place(R.H, R.bp, m).mem, Allocd(B, al), y) BY <1>2, <1>6 DEF Takes
<1>9. Intact(H.mem, Place(R.H, R.bp, m).mem, Allocd(B, al), sz) BY ONLY <1>2, <1>8, IntactTwice
<1>10. Takes(H, B, sz, al, R.bp, m, Place(R.H, R.bp, m), D, z, g) BY <1>2, <1>6, <1>7, <1>9 DEF Takes
<1> QED BY <1>3, <1>10

\* mm_malloc on a heap that is initialised.
LEMMA MallocGood ==
  \A H, B, sz, al, size :
    Is(H, B, sz, al) /\ size \in Nat => Gets(H, B, sz, al, size, MmMalloc(H, size))
<1> TAKE H, B, sz, al, size
<1> HAVE Is(H, B, sz, al) /\ size \in Nat
<1> DEFINE n == AdjustedSize(size)
           m == Max({n, CHUNKSIZE})
           fit == FindFit(H, n)
           grown == ExtendHeap(H, m \div WSIZE)
           chosen == IF fit.bp # NULL THEN fit ELSE grown
           R == MmMalloc(H, size)
<1>I. Is(H, B, sz, al) OBVIOUS
<1>1. R = IF chosen.bp = NULL THEN chosen ELSE Returning(Place(chosen.H, chosen.bp, n), chosen.bp)
  <2>1. H.listp # NULL BY DEF Is, NULL
  <2> QED BY <2>1 DEF MmMalloc
<1>2. n \in Int /\ n % 8 = 0 /\ 16 <= n /\ size + 8 <= n BY AdjustedFits
<1>c. size \in Int OBVIOUS
<1> HIDE DEF R, n
<1>3. m \in Int /\ m % 8 = 0 /\ 16 <= m /\ n <= m
  <2>1. CHUNKSIZE \in Int /\ CHUNKSIZE % 8 = 0 /\ 16 <= CHUNKSIZE BY MMAssumption
  <2>2. \E x \in {n, CHUNKSIZE} : \A y \in {n, CHUNKSIZE} : x >= y
    <3>1. CASE n >= CHUNKSIZE BY <1>2, <2>1, <3>1
    <3>2. CASE CHUNKSIZE >= n BY <1>2, <2>1, <3>2
    <3> QED BY <1>2, <2>1, <3>1, <3>2
  <2>3. m \in {n, CHUNKSIZE} /\ \A y \in {n, CHUNKSIZE} : m >= y BY <2>2 DEF Max
  <2> QED BY <1>2, <2>1, <2>3
<1> HIDE DEF m
<1>4. fit = Returning(H, NULL) \/ Offers(H, B, sz, al, n, fit, B, sz, al) BY ONLY <1>I, <1>2, FitGood
<1>5. grown = Returning(H, NULL) \/ \E C, y, f : Offers(H, B, sz, al, m, grown, C, y, f)
  BY ONLY <1>I, <1>3, ExtendGood
<1>6. n <= n BY <1>2
<1>7. ASSUME NEW S, NEW k, k \in Int, n <= k, \E C, y, f : Offers(H, B, sz, al, k, S, C, y, f)
      PROVE  S.bp # NULL /\ \E C, y, f : Takes(H, B, sz, al, S.bp, n, Place(S.H, S.bp, n), C, y, f)
  BY ONLY <1>2, <1>7, OfferTaken
<1> HIDE DEF fit, grown
<1>8. \/ chosen = Returning(H, NULL) /\ chosen.bp = NULL
      \/ chosen.bp # NULL
         /\ \E C, y, f : Takes(H, B, sz, al, chosen.bp, n, Place(chosen.H, chosen.bp, n), C, y, f)
  <2>0. Returning(H, NULL).bp = NULL BY DEF Returning
  <2>1. CASE Offers(H, B, sz, al, n, fit, B, sz, al)
    <3>1. fit.bp # NULL /\ \E C, y, f : Takes(H, B, sz, al, fit.bp, n, Place(fit.H, fit.bp, n), C, y, f)
      BY <1>2, <1>6, <1>7, <2>1
    <3> QED BY <3>1
  <2>2. CASE fit = Returning(H, NULL)
    <3>1. chosen = grown BY <2>0, <2>2
    <3> HIDE DEF chosen
    <3>2. CASE grown = Returning(H, NULL) BY <2>0, <3>1, <3>2
    <3>3. CASE \E C, y, f : Offers(H, B, sz, al, m, grown, C, y, f)
      <4>1. grown.bp # NULL /\ \E C, y, f : Takes(H, B, sz, al, grown.bp, n, Place(grown.H, grown.bp, n), C, y, f)
        BY <1>3, <1>7, <3>3
      <4> QED BY <3>1, <4>1
    <3> QED BY <1>5, <3>2, <3>3
  <2> QED BY <1>4, <2>1, <2>2
<1> HIDE DEF chosen
<1>9. CASE chosen = Returning(H, NULL) /\ chosen.bp = NULL BY <1>1, <1>9 DEF Gets, R
<1>10. CASE chosen.bp # NULL
  <2>1. R.bp = chosen.bp /\ R.H = Place(chosen.H, chosen.bp, n) BY <1>1, <1>10 DEF Returning
  <2>2. PICK C, y, f : Takes(H, B, sz, al, R.bp, n, R.H, C, y, f) BY <1>8, <1>10, <2>1
  <2>3. y[R.bp] \in Int
    <3>1. Is(R.H, C, y, f) /\ R.bp \in Allocd(C, f) BY <2>2 DEF Takes
    <3> QED BY <3>1 DEF Is, Allocd, Layout, Shaped
  <2>4. y[R.bp] >= size + 8 BY <1>2, <1>c, <2>2, <2>3 DEF Takes
  <2>5. Takes(H, B, sz, al, R.bp, size + 8, R.H, C, y, f) BY <2>2, <2>4 DEF Takes
  <2> QED BY <1>10, <2>1, <2>5 DEF Gets, R
<1> QED BY <1>8, <1>9, <1>10

\* The heap K has the allocated blocks of H but for bp, with their contents.
Gives(H, B, sz, al, bp, K, C, y, f) ==
  /\ Is(K, C, y, f) /\ Allocd(C, f) = Allocd(B, al) \ {bp}
  /\ Agree(y, sz, Allocd(B, al) \ {bp}) /\ Intact(H.mem, K.mem, Allocd(B, al) \ {bp}, sz)

\* mm_free gives back one block and leaves the others alone.
LEMMA FreeGood ==
  \A H, B, sz, al, bp :
    Is(H, B, sz, al) /\ bp \in Allocd(B, al) => \E C, y, f : Gives(H, B, sz, al, bp, MmFree(H, bp), C, y, f)
<1> TAKE H, B, sz, al, bp
<1> HAVE Is(H, B, sz, al) /\ bp \in Allocd(B, al)
<1> DEFINE I == Tagged(H, bp, sz[bp], 0)
           K == MmFree(H, bp)
           R == Coalesce(I, bp)
<1>0. H \in HeapType /\ H.listp = 8 /\ Layout(H.mem, H.brk, B, sz, al) /\ NoFree(B, sz, al) /\ RoverOK(H, B)
  BY DEF Is
<1>m. bp \in B /\ bp # 8 /\ al[bp] = 1 BY DEF Allocd
<1>a. \A b \in B : b \in Int /\ sz[b] \in Int /\ 8 <= sz[b] /\ 8 <= b /\ b + sz[b] <= H.brk /\ al[b] \in {0, 1}
  BY <1>0 DEF Layout, Shaped
<1>b. \A b, c \in B : b < c => b + sz[b] <= c BY <1>0 DEF Layout, Apart
<1>2. /\ bp \in Int /\ bp % 8 = 0 /\ sz[bp] \in Int /\ sz[bp] % 8 = 0 /\ 16 <= bp /\ 16 <= sz[bp]
      /\ bp + sz[bp] <= H.brk /\ H.brk \in Int /\ H.brk <= MAX_HEAP /\ MAX_HEAP \in Nat
  <2>1. bp \in Int /\ bp % 8 = 0 /\ 8 <= bp /\ sz[bp] \in Int /\ sz[bp] % 8 = 0 /\ 16 <= sz[bp] /\ bp + sz[bp] <= H.brk
        /\ H.brk \in Int /\ H.brk <= MAX_HEAP
    BY <1>0, <1>m DEF Layout, Shaped
  <2>2. 16 <= bp BY ONLY <1>m, <2>1
  <2> QED BY <2>1, <2>2, MMAssumption
<1>3. K = R.H
  <2>1. Layout(H.mem, H.brk, B, sz, al) BY <1>0
  <2>2. ReadAs(H, bp, sz[bp], al[bp]) BY ONLY <2>1, <1>m, Reads
  <2>3. GET_SIZE(H, HDRP(bp)) = sz[bp] BY <2>2 DEF ReadAs
  <2> QED BY <1>2, <2>3 DEF MmFree, NULL
<1>4. bp - 4 \in Words /\ bp + sz[bp] - 8 \in Words BY <1>2, WordsAre
<1>5. Wrote(H, I, bp, sz[bp], sz[bp] + 0) BY <1>0, <1>2, <1>4, TaggedWrote
<1> HIDE DEF I, R, K
<1>6. I \in HeapType /\ I.brk = H.brk /\ I.listp = H.listp /\ I.rover = H.rover
      /\ Retags(H.mem, I.mem, bp, sz[bp], sz[bp] + 0)
  BY <1>5 DEF Wrote
<1>7. \A b \in B : b # bp => b + sz[b] <= bp \/ b >= bp + sz[bp] BY <1>a, <1>b, <1>m
<1> DEFINE C == Joined(B, bp, sz[bp])
           y == With1(C, sz, bp, sz[bp])
           f == With1(C, al, bp, 0)
<1>8. Layout(I.mem, I.brk, C, y, f)
  <2>1. bp + sz[bp] \in B \cup {H.brk} BY <1>0, <1>m DEF Layout, Linked
  <2>2. 0 \in {0, 1} OBVIOUS
  <2> QED BY ONLY <1>0, <1>m, <1>2, <1>6, <2>1, <2>2, Retag
<1>9. C = B
  <2>1. ASSUME NEW b \in B PROVE b <= bp \/ b >= bp + sz[bp]
    <3>1. b \in Int /\ sz[b] \in Int /\ 8 <= sz[b] BY <1>a
    <3> QED BY <1>2, <1>7, <3>1
  <2> QED BY <2>1, Zenon DEF Joined
<1>10. (\A b \in B : y[b] = sz[b] /\ (b # bp => f[b] = al[b])) /\ f[bp] = 0 BY <1>9, <1>m DEF With1
<1> HIDE DEF C, y, f
<1>11. Allocd(C, f) = Allocd(B, al) \ {bp} BY <1>9, <1>10 DEF Allocd
<1>12. Nearly(C, y, f, bp) BY <1>0, <1>9, <1>10 DEF Nearly, NoFree
<1>13. RoverOK(I, C) BY <1>0, <1>6, <1>9 DEF RoverOK
<1>14. I.listp = 8 /\ bp \in C /\ f[bp] = 0 BY <1>0, <1>6, <1>9, <1>10, <1>m
<1>15. PICK D, z, g : Offers(I, C, y, f, y[bp], R, D, z, g)
  BY ONLY <1>6, <1>m, <1>8, <1>12, <1>13, <1>14, CoalesceGood DEF R
<1> DEFINE U == Allocd(B, al) \ {bp}
<1>16. \A b \in U : b \in B /\ b # bp BY DEF Allocd
<1>17. Is(R.H, D, z, g) /\ Allocd(D, g) = U /\ Agree(z, y, U) /\ Intact(I.mem, R.H.mem, U, y)
  BY <1>11, <1>15 DEF Offers
<1>18. Agree(y, sz, U) BY <1>10, <1>16 DEF Agree
<1>19. Intact(H.mem, I.mem, U, sz)
  <2> SUFFICES ASSUME NEW b \in U, NEW p \in Words, b <= p, p < b + sz[b] - 8 PROVE I.mem[p] = H.mem[p]
    BY DEF Intact
  <2>1. p \in Int BY WordsAre
  <2>2. b \in Int /\ sz[b] \in Int /\ (b + sz[b] <= bp \/ b >= bp + sz[bp]) BY <1>a, <1>7, <1>16
  <2>3. p # bp - 4 /\ p # bp + sz[bp] - 8 BY <1>2, <2>1, <2>2
  <2> QED BY <1>6, <2>3 DEF Retags
<1> HIDE DEF U
<1>20. Agree(z, sz, U) BY <1>17, <1>18 DEF Agree
<1>21. Intact(H.mem, R.H.mem, U, sz) BY ONLY <1>17, <1>18, <1>19, IntactTwice
<1>22. Gives(H, B, sz, al, bp, K, D, z, g) BY <1>3, <1>17, <1>20, <1>21 DEF Gives, U
<1> QED BY <1>22 DEF K

\* A heap with other contents.
With(H, n) == [H EXCEPT !.mem = n]

\* What is stored between the tags of a block in use changes nothing else.
LEMMA StoreGood ==
  \A H, B, sz, al, bp, n :
    Is(H, B, sz, al) /\ bp \in Allocd(B, al) /\ Stores(H.mem, n, bp, sz[bp]) =>
      Is(With(H, n), B, sz, al) /\ Intact(H.mem, n, Allocd(B, al) \ {bp}, sz)
<1> TAKE H, B, sz, al, bp, n
<1> HAVE Is(H, B, sz, al) /\ bp \in Allocd(B, al) /\ Stores(H.mem, n, bp, sz[bp])
<1>0. H \in HeapType /\ H.listp = 8 /\ Layout(H.mem, H.brk, B, sz, al) /\ NoFree(B, sz, al) /\ RoverOK(H, B)
      /\ bp \in B /\ Stores(H.mem, n, bp, sz[bp])
  BY DEF Is, Allocd
<1>1. Layout(n, H.brk, B, sz, al) BY ONLY <1>0, Stored
<1>2. n \in [Words -> Int] BY DEF Stores
<1> DEFINE K == With(H, n)
<1>3. K \in HeapType /\ K.mem = n /\ K.brk = H.brk /\ K.listp = H.listp /\ K.rover = H.rover
  BY <1>0, <1>2 DEF With, HeapType
<1> HIDE DEF K
<1>4. Is(K, B, sz, al) BY <1>0, <1>1, <1>3 DEF Is, RoverOK
<1>5. Intact(H.mem, n, Allocd(B, al) \ {bp}, sz)
  <2> SUFFICES ASSUME NEW b \in Allocd(B, al) \ {bp}, NEW p \in Words, b <= p, p < b + sz[b] - 8
               PROVE  n[p] = H.mem[p]
    BY DEF Intact
  <2>1. p \in Int BY WordsAre
  <2>2. b \in B /\ b # bp BY DEF Allocd
  <2>3. b \in Int /\ bp \in Int /\ sz[b] \in Int /\ sz[bp] \in Int /\ 8 <= sz[b] /\ 8 <= sz[bp]
    BY <1>0, <2>2 DEF Layout, Shaped
  <2>4. b + sz[b] <= bp \/ b >= bp + sz[bp] BY <1>0, <2>2, <2>3 DEF Layout, Apart
  <2>5. p < bp \/ p >= bp + sz[bp] - 8 BY <2>1, <2>3, <2>4
  <2> QED BY <1>0, <2>5 DEF Stores
<1> QED BY <1>4, <1>5 DEF K

\* The heap before the first call.
Fresh(H) == H \in HeapType /\ H.brk = 0 /\ \A p \in Words : H.mem[p] = Garbage

\* mm_init makes a heap without blocks in use of it, whether memlib gives it its
\* first chunk or not.
LEMMA InitHeap ==
  ASSUME NEW H, Fresh(H)
  PROVE  \E B, sz, al : Is(MmInit(H), B, sz, al) /\ Allocd(B, al) = {}
<1> DEFINE one == PUT(H, 0, 0)
           two == PUT(one, 4, 9)
           three == PUT(two, 8, 9)
           four == PUT(three, 12, 1)
           K1 == [four EXCEPT !.brk = 16]
           K2 == [K1 EXCEPT !.listp = 8]
           K == [K2 EXCEPT !.rover = 8]
<1>0. H \in HeapType /\ \A p \in Words : H.mem[p] = Garbage BY DEF Fresh
<1>1. MAX_HEAP \in Nat /\ MAX_HEAP % 8 = 0 /\ 16 <= MAX_HEAP BY MMAssumption
<1>2. 0 \in Words /\ 4 \in Words /\ 8 \in Words /\ 12 \in Words BY <1>1, WordsAre
<1>3. PACK(DSIZE, 1) = 9 /\ PACK(0, 1) = 1 /\ 4 * WSIZE = 16 /\ 2 * WSIZE = 8 BY DEF PACK, DSIZE, WSIZE
<1>4. MmInit(H) = ExtendHeap(K, CHUNKSIZE \div WSIZE).H BY <1>3 DEF MmInit
<1>p. ASSUME NEW I \in HeapType, NEW p \in Words, NEW v \in Int
      PROVE  PUT(I, p, v) \in HeapType /\ PUT(I, p, v).mem = [I.mem EXCEPT ![p] = v]
  BY Puts
<1>i. 0 \in Int /\ 9 \in Int /\ 1 \in Int OBVIOUS
<1>5. one \in HeapType /\ one.mem = [H.mem EXCEPT ![0] = 0] BY ONLY <1>0, <1>2, <1>i, <1>p
<1> HIDE DEF one
<1>6. two \in HeapType /\ two.mem = [one.mem EXCEPT ![4] = 9] BY ONLY <1>2, <1>5, <1>i, <1>p
<1> HIDE DEF two
<1>7. three \in HeapType /\ three.mem = [two.mem EXCEPT ![8] = 9]
  <2> DEFINE at == 8
             tag == 9
  <2>1. two \in HeapType /\ at \in Words /\ tag \in Int BY <1>2, <1>6
  <2>2. three = PUT(two, at, tag) OBVIOUS
  <2>4. [two.mem EXCEPT ![at] = tag] = [two.mem EXCEPT ![8] = 9] OBVIOUS
  <2> HIDE DEF at, tag, three
  <2>5. PUT(two, at, tag) \in HeapType /\ PUT(two, at, tag).mem = [two.mem EXCEPT ![at] = tag]
    BY ONLY <2>1, <1>p
  <2> QED BY ONLY <2>2, <2>4, <2>5
<1> HIDE DEF three
<1>8. four \in HeapType /\ four.mem = [three.mem EXCEPT ![12] = 1] BY ONLY <1>2, <1>7, <1>i, <1>p
<1> HIDE DEF four
<1>9. K \in HeapType /\ K.mem = four.mem /\ K.brk = 16 /\ K.listp = 8 /\ K.rover = 8
  <2>1. K1 \in HeapType /\ K1.mem = four.mem /\ K1.brk = 16 BY <1>8 DEF HeapType
  <2> HIDE DEF K1
  <2>2. K2 \in HeapType /\ K2.mem = four.mem /\ K2.brk = 16 /\ K2.listp = 8 BY <2>1 DEF HeapType
  <2> HIDE DEF K2
  <2> QED BY <2>2 DEF HeapType
<1> HIDE DEF K
<1>10. /\ K.mem \in [Words -> Int] /\ K.mem[4] = 9 /\ K.mem[8] = 9 /\ K.mem[12] = 1
       /\ \A p \in Words : p \notin {0, 4, 8, 12} => K.mem[p] = Garbage
  <2>1. H.mem \in [Words -> Int] /\ one.mem \in [Words -> Int] /\ two.mem \in [Words -> Int]
        /\ three.mem \in [Words -> Int] /\ four.mem \in [Words -> Int]
    BY <1>0, <1>5, <1>6, <1>7, <1>8 DEF HeapType
  <2>2. one.mem[0] = 0 /\ \A p \in Words : p # 0 => one.mem[p] = Garbage BY <1>0, <1>2, <1>5, <2>1
  <2>3. two.mem[4] = 9 /\ \A p \in Words : p # 0 /\ p # 4 => two.mem[p] = Garbage BY <1>2, <1>6, <2>1, <2>2
  <2>4. three.mem[4] = 9 /\ three.mem[8] = 9 /\ \A p \in Words : p # 0 /\ p # 4 /\ p # 8 => three.mem[p] = Garbage
    BY <1>2, <1>7, <2>1, <2>3
  <2> QED BY <1>2, <1>8, <1>9, <2>1, <2>4
<1> DEFINE B == {8}
           sz == [b \in B |-> 8]
           al == [b \in B |-> 1]
<1>11. Layout(K.mem, K.brk, B, sz, al)
  <2>1. Shaped(16, B, sz, al) BY <1>1 DEF Shaped
  <2>2. Linked(16, B, sz) /\ Apart(B, sz) /\ Follows(16, B, sz) BY DEF Linked, Apart, Follows
  <2>3. TaggedAs(K.mem, 16, B, sz, al)
    <3>1. \A p \in Words : p >= 16 => K.mem[p] = Garbage BY <1>10
    <3> QED BY <1>10, <3>1 DEF TaggedAs
  <2> QED BY <1>9, <2>1, <2>2, <2>3 DEF Layout
<1>12. NoFree(B, sz, al) /\ RoverOK(K, B) BY <1>9 DEF NoFree, RoverOK
<1>13. Allocd(B, al) = {} BY DEF Allocd
<1>14. Is(K, B, sz, al) BY <1>9, <1>11, <1>12 DEF Is
<1> HIDE DEF B, sz, al
<1>15. CHUNKSIZE \in Int /\ CHUNKSIZE % 8 = 0 /\ 16 <= CHUNKSIZE BY MMAssumption
<1> DEFINE R == ExtendHeap(K, CHUNKSIZE \div WSIZE)
<1>16. R = Returning(K, NULL) \/ \E C, y, f : Offers(K, B, sz, al, CHUNKSIZE, R, C, y, f)
  BY ONLY <1>14, <1>15, ExtendGood
<1>17. CASE R = Returning(K, NULL)
  <2>1. MmInit(H) = K BY <1>4, <1>17 DEF Returning
  <2> QED BY <1>13, <1>14, <2>1
<1>18. CASE \E C, y, f : Offers(K, B, sz, al, CHUNKSIZE, R, C, y, f)
  <2>1. PICK C, y, f : Offers(K, B, sz, al, CHUNKSIZE, R, C, y, f) BY <1>18
  <2>2. Is(R.H, C, y, f) /\ Allocd(C, f) = {} BY <1>13, <2>1 DEF Offers
  <2> QED BY <1>4, <2>2
<1> QED BY <1>16, <1>17, <1>18

-----------------------------------------------------------------------------
(* The client, and the invariant. *)

\* The blocks in use are those the client holds, each with room for what it asked
\* for and with its marks.
Entries == [ptr : Int, size : Sizes \cup {0}]
Backed(B, sz, al, hd) ==
  /\ hd \in [Handles -> Entries]
  /\ \A h \in Handles : hd[h] = Nothing \/ /\ hd[h].ptr \in Allocd(B, al) /\ hd[h].size \in Sizes
                                           /\ sz[hd[h].ptr] >= hd[h].size + 8
  /\ \A b \in Allocd(B, al) : \E h \in Handles : hd[h].ptr = b
  /\ \A g, h \in Handles : g # h /\ hd[g].ptr = hd[h].ptr => hd[g].ptr = NULL
Marked(m, hd) ==
  \A h \in Handles : \A p \in Words : hd[h].ptr <= p /\ p < hd[h].ptr + hd[h].size => m[p] = Mark(h)
Holds(m, B, sz, al, hd) == Backed(B, sz, al, hd) /\ Marked(m, hd)

\* A heap in use, a heap not yet initialised, and the invariant.
InUse(H, hd) == \E B, sz, al : Is(H, B, sz, al) /\ Holds(H.mem, B, sz, al, hd)
Unused(H, hd) == Fresh(H) /\ H.listp = NULL /\ H.rover = NULL /\ hd = [h \in Handles |-> Nothing]
IInv == NEXT_FIT \in BOOLEAN /\ (InUse(Heap, held) \/ Unused(Heap, held))

\* What is assumed of the sizes and the handles.
LEMMA Constants ==
  /\ Sizes \subseteq Nat \ {0} /\ Handles \subseteq Nat \ {0} /\ Nothing \in Entries
  /\ Nothing.ptr = 0 /\ Nothing.size = 0 /\ \A h \in Handles : Mark(h) \in Int
BY MMAssumption DEF Nothing, NULL, Entries, Mark

\* The blocks in use are addresses above the prologue.
LEMMA AllocdAre ==
  ASSUME NEW H, NEW B, NEW sz, NEW al, Is(H, B, sz, al)
  PROVE  \A b \in Allocd(B, al) : b \in Int /\ b % 8 = 0 /\ 16 <= b /\ b # NULL /\ b \in B /\ b + sz[b] <= H.brk
                                  /\ sz[b] \in Int /\ sz[b] % 8 = 0 /\ 16 <= sz[b]
<1> SUFFICES ASSUME NEW b, b \in Allocd(B, al)
             PROVE  b \in Int /\ b % 8 = 0 /\ 16 <= b /\ b # NULL /\ b \in B /\ b + sz[b] <= H.brk
                    /\ sz[b] \in Int /\ sz[b] % 8 = 0 /\ 16 <= sz[b]
  OBVIOUS
<1>1. b \in B /\ b # 8 BY DEF Allocd
<1>2. b \in Int /\ b % 8 = 0 /\ 8 <= b /\ b + sz[b] <= H.brk /\ sz[b] \in Int /\ sz[b] % 8 = 0 /\ 16 <= sz[b]
  BY <1>1 DEF Is, Layout, Shaped
<1>3. 16 <= b /\ b # NULL BY ONLY <1>1, <1>2 DEF NULL
<1> QED BY <1>1, <1>2, <1>3

\* One handle's block is given back.
LEMMA HoldsFreed ==
  \A H, m, n, B, sz, al, D, z, g, hd, h :
    /\ Is(H, B, sz, al) /\ Holds(m, B, sz, al, hd) /\ h \in Handles /\ hd[h] # Nothing
    /\ Allocd(D, g) = Allocd(B, al) \ {hd[h].ptr} /\ Agree(z, sz, Allocd(B, al) \ {hd[h].ptr})
    /\ Intact(m, n, Allocd(B, al) \ {hd[h].ptr}, sz)
    => Holds(n, D, z, g, [hd EXCEPT ![h] = Nothing])
<1> TAKE H, m, n, B, sz, al, D, z, g, hd, h
<1> HAVE /\ Is(H, B, sz, al) /\ Holds(m, B, sz, al, hd) /\ h \in Handles /\ hd[h] # Nothing
         /\ Allocd(D, g) = Allocd(B, al) \ {hd[h].ptr} /\ Agree(z, sz, Allocd(B, al) \ {hd[h].ptr})
         /\ Intact(m, n, Allocd(B, al) \ {hd[h].ptr}, sz)
<1> DEFINE after == [hd EXCEPT ![h] = Nothing]
           U == Allocd(B, al) \ {hd[h].ptr}
<1>c. Nothing \in Entries /\ Nothing.ptr = 0 /\ Nothing.size = 0 /\ Sizes \subseteq Nat BY Constants
<1>s. \A s \in Sizes : s \in Int BY ONLY Constants
<1>0. hd \in [Handles -> Entries] BY DEF Holds, Backed
<1>1. after \in [Handles -> Entries] /\ after[h] = Nothing /\ \A i \in Handles : i # h => after[i] = hd[i]
  BY <1>0, <1>c
<1>2. \A i \in Handles : hd[i] = Nothing \/ /\ hd[i].ptr \in Allocd(B, al) /\ hd[i].size \in Sizes
                                             /\ sz[hd[i].ptr] >= hd[i].size + 8
  BY DEF Holds, Backed
<1>3. \A i, j \in Handles : i # j /\ hd[i].ptr = hd[j].ptr => hd[i].ptr = 0 BY DEF Holds, Backed, NULL
<1>a. \A b \in Allocd(B, al) : b \in Int /\ 16 <= b /\ sz[b] \in Int BY AllocdAre
<1>4. \A i \in Handles : i # h /\ hd[i] # Nothing => hd[i].ptr \in U
  <2> SUFFICES ASSUME NEW i \in Handles, i # h, hd[i] # Nothing, hd[i].ptr = hd[h].ptr PROVE FALSE BY <1>2
  <2>1. hd[i].ptr = 0 /\ hd[i].ptr \in Allocd(B, al) BY <1>2, <1>3
  <2> QED BY <1>a, <2>1
<1>5. \A b \in U : z[b] = sz[b] BY DEF Agree
<1>6. \A b \in U : \A p \in Words : b <= p /\ p < b + sz[b] - 8 => n[p] = m[p] BY DEF Intact
<1>7. Allocd(D, g) = U OBVIOUS
<1>8. \A b \in U : b \in Allocd(B, al) /\ b # hd[h].ptr OBVIOUS
<1> HIDE DEF after, U
<1>9. \A i \in Handles : after[i] = Nothing \/ /\ after[i].ptr \in Allocd(D, g) /\ after[i].size \in Sizes
                                                /\ z[after[i].ptr] >= after[i].size + 8
  <2> SUFFICES ASSUME NEW i \in Handles, after[i] # Nothing
               PROVE  after[i].ptr \in Allocd(D, g) /\ after[i].size \in Sizes /\ z[after[i].ptr] >= after[i].size + 8
    OBVIOUS
  <2>1. after[i] = hd[i] /\ hd[i].ptr \in U BY <1>1, <1>4
  <2>2. hd[i].size \in Sizes /\ sz[hd[i].ptr] >= hd[i].size + 8 BY <1>1, <1>2, <2>1
  <2> QED BY <1>5, <1>7, <2>1, <2>2
<1>10. \A b \in Allocd(D, g) : \E i \in Handles : after[i].ptr = b
  <2> SUFFICES ASSUME NEW b \in U PROVE \E i \in Handles : after[i].ptr = b BY <1>7
  <2>1. PICK i \in Handles : hd[i].ptr = b BY <1>8 DEF Holds, Backed
  <2> QED BY <1>1, <1>8, <2>1
<1>11. \A i, j \in Handles : i # j /\ after[i].ptr = after[j].ptr => after[i].ptr = NULL
  BY <1>1, <1>3, <1>c DEF NULL
<1>12. Backed(D, z, g, after) BY <1>1, <1>9, <1>10, <1>11 DEF Backed
<1>13. ASSUME NEW i \in Handles, NEW p \in Words, after[i].ptr <= p, p < after[i].ptr + after[i].size
       PROVE  n[p] = Mark(i)
  <2>0. p \in Int BY WordsAre
  <2>1. CASE after[i] = Nothing BY <1>c, <1>13, <2>0, <2>1
  <2>2. CASE after[i] # Nothing
    <3>1. after[i] = hd[i] /\ hd[i].ptr \in U /\ i # h BY <1>1, <1>4, <2>2
    <3>8. hd[i].size \in Sizes /\ sz[hd[i].ptr] >= hd[i].size + 8 BY <1>2, <2>2, <3>1
    <3>9. hd[i].size \in Int BY ONLY <1>s, <3>8
    <3>2. hd[i].size \in Int /\ sz[hd[i].ptr] >= hd[i].size + 8 BY ONLY <3>8, <3>9
    <3>3. hd[i].ptr \in Int /\ sz[hd[i].ptr] \in Int BY <1>8, <1>a, <3>1
    <3>4. hd[i].ptr <= p /\ p < hd[i].ptr + hd[i].size BY <1>13, <3>1
    <3>5. p < hd[i].ptr + sz[hd[i].ptr] - 8 BY ONLY <2>0, <3>2, <3>3, <3>4
    <3>6. n[p] = m[p] BY <1>6, <3>1, <3>4, <3>5
    <3>7. m[p] = Mark(i) BY <3>4 DEF Holds, Marked
    <3> QED BY <3>6, <3>7
  <2> QED BY <2>1, <2>2
<1>14. Marked(n, after) BY <1>13 DEF Marked
<1> QED BY <1>12, <1>14 DEF Holds, after

\* Handle h gets the block bp: the blocks in use are D's, and memory m has become n.
Moved(hd, h, bp, size) == [hd EXCEPT ![h] = [ptr |-> bp, size |-> size]]
Moves(H, m, n, B, sz, al, D, z, g, hd, h, bp, size) ==
  /\ Is(H, B, sz, al) /\ Holds(m, B, sz, al, hd) /\ h \in Handles /\ size \in Sizes
  /\ bp \in Int /\ bp # NULL /\ bp \notin Allocd(B, al)
  /\ Allocd(D, g) = (Allocd(B, al) \ {hd[h].ptr}) \cup {bp} /\ Agree(z, sz, Allocd(B, al) \ {hd[h].ptr})
  /\ z[bp] >= size + 8 /\ Intact(m, n, Allocd(B, al) \ {hd[h].ptr}, sz)
  /\ \A p \in Words : bp <= p /\ p < bp + size => n[p] = Mark(h)

\* A handle gets a block: it had none, or its old one is given back.
LEMMA HoldsMoved ==
  \A H, m, n, B, sz, al, D, z, g, hd, h, bp, size :
    Moves(H, m, n, B, sz, al, D, z, g, hd, h, bp, size)
    => Holds(n, D, z, g, Moved(hd, h, bp, size)) /\ \A i \in Handles : hd[i].ptr # bp
<1> TAKE H, m, n, B, sz, al, D, z, g, hd, h, bp, size
<1> HAVE Moves(H, m, n, B, sz, al, D, z, g, hd, h, bp, size)
<1> /\ Is(H, B, sz, al) /\ Holds(m, B, sz, al, hd) /\ h \in Handles /\ size \in Sizes
    /\ bp \in Int /\ bp # NULL /\ bp \notin Allocd(B, al)
    /\ Allocd(D, g) = (Allocd(B, al) \ {hd[h].ptr}) \cup {bp} /\ Agree(z, sz, Allocd(B, al) \ {hd[h].ptr})
    /\ z[bp] >= size + 8 /\ Intact(m, n, Allocd(B, al) \ {hd[h].ptr}, sz)
    /\ \A p \in Words : bp <= p /\ p < bp + size => n[p] = Mark(h)
  BY DEF Moves
<1> DEFINE new == [ptr |-> bp, size |-> size]
           after == [hd EXCEPT ![h] = new]
           U == Allocd(B, al) \ {hd[h].ptr}
<1>c. Nothing.ptr = 0 /\ Nothing.size = 0 /\ Sizes \subseteq Nat \ {0} BY Constants
<1>n. new \in Entries /\ new.ptr = bp /\ new.size = size BY DEF Entries
<1> HIDE DEF new
<1>s. \A s \in Sizes : s \in Int BY ONLY Constants
<1>0. hd \in [Handles -> Entries] BY DEF Holds, Backed
<1>1. after \in [Handles -> Entries] /\ after[h] = new /\ \A i \in Handles : i # h => after[i] = hd[i]
  BY <1>0, <1>n
<1>2. \A i \in Handles : hd[i] = Nothing \/ /\ hd[i].ptr \in Allocd(B, al) /\ hd[i].size \in Sizes
                                             /\ sz[hd[i].ptr] >= hd[i].size + 8
  BY DEF Holds, Backed
<1>3. \A i, j \in Handles : i # j /\ hd[i].ptr = hd[j].ptr => hd[i].ptr = 0 BY DEF Holds, Backed, NULL
<1>a. \A b \in Allocd(B, al) : b \in Int /\ 16 <= b /\ sz[b] \in Int BY AllocdAre
<1>4. \A i \in Handles : i # h /\ hd[i] # Nothing => hd[i].ptr \in U
  <2> SUFFICES ASSUME NEW i \in Handles, i # h, hd[i] # Nothing, hd[i].ptr = hd[h].ptr PROVE FALSE BY <1>2
  <2>1. hd[i].ptr = 0 /\ hd[i].ptr \in Allocd(B, al) BY <1>2, <1>3
  <2> QED BY <1>a, <2>1
<1>5. \A b \in U : z[b] = sz[b] BY DEF Agree
<1>6. \A b \in U : \A p \in Words : b <= p /\ p < b + sz[b] - 8 => n[p] = m[p] BY DEF Intact
<1>7. Allocd(D, g) = U \cup {bp} OBVIOUS
<1>8. \A b \in U : b \in Allocd(B, al) /\ b # hd[h].ptr OBVIOUS
<1>f. \A i \in Handles : hd[i].ptr # bp
  <2> SUFFICES ASSUME NEW i \in Handles, hd[i].ptr = bp PROVE FALSE OBVIOUS
  <2>1. CASE hd[i] = Nothing BY <1>c, <2>1 DEF NULL
  <2>2. CASE hd[i] # Nothing BY <1>2, <2>2
  <2> QED BY <2>1, <2>2
<1> HIDE DEF after, U
<1>9. \A i \in Handles : after[i] = Nothing \/ /\ after[i].ptr \in Allocd(D, g) /\ after[i].size \in Sizes
                                                /\ z[after[i].ptr] >= after[i].size + 8
  <2> SUFFICES ASSUME NEW i \in Handles, after[i] # Nothing
               PROVE  after[i].ptr \in Allocd(D, g) /\ after[i].size \in Sizes /\ z[after[i].ptr] >= after[i].size + 8
    OBVIOUS
  <2>1. CASE i = h BY <1>1, <1>7, <1>n, <2>1
  <2>2. CASE i # h
    <3>1. after[i] = hd[i] /\ hd[i].ptr \in U BY <1>1, <1>4, <2>2
    <3>2. hd[i].size \in Sizes /\ sz[hd[i].ptr] >= hd[i].size + 8 BY <1>2, <3>1
    <3> QED BY <1>5, <1>7, <3>1, <3>2
  <2> QED BY <2>1, <2>2
<1>10. \A b \in Allocd(D, g) : \E i \in Handles : after[i].ptr = b
  <2> SUFFICES ASSUME NEW b \in Allocd(D, g) PROVE \E i \in Handles : after[i].ptr = b OBVIOUS
  <2>1. CASE b = bp BY <1>1, <1>n, <2>1
  <2>2. CASE b \in U
    <3>1. PICK i \in Handles : hd[i].ptr = b BY <1>8, <2>2 DEF Holds, Backed
    <3> QED BY <1>1, <1>8, <2>2, <3>1
  <2> QED BY <1>7, <2>1, <2>2
<1>11. \A i, j \in Handles : i # j /\ after[i].ptr = after[j].ptr => after[i].ptr = NULL
  <2> SUFFICES ASSUME NEW i \in Handles, NEW j \in Handles, i # j, after[i].ptr = after[j].ptr
               PROVE  after[i].ptr = 0
    BY DEF NULL
  <2>1. CASE i = h
    <3>1. after[j] = hd[j] /\ after[i].ptr = bp BY <1>1, <1>n, <2>1
    <3> QED BY <1>f, <3>1
  <2>2. CASE j = h
    <3>1. after[i] = hd[i] /\ after[j].ptr = bp BY <1>1, <1>n, <2>2
    <3> QED BY <1>f, <3>1
  <2>3. CASE i # h /\ j # h BY <1>1, <1>3, <2>3
  <2> QED BY <2>1, <2>2, <2>3
<1>12. Backed(D, z, g, after) BY <1>1, <1>9, <1>10, <1>11 DEF Backed
<1>13. ASSUME NEW i \in Handles, NEW p \in Words, after[i].ptr <= p, p < after[i].ptr + after[i].size
       PROVE  n[p] = Mark(i)
  <2>0. p \in Int BY WordsAre
  <2>1. CASE i = h BY <1>1, <1>13, <1>n, <2>1
  <2>2. CASE i # h /\ hd[i] = Nothing
    <3>1. after[i].ptr = 0 /\ after[i].size = 0 BY <1>1, <1>c, <2>2
    <3> QED BY <1>13, <2>0, <3>1
  <2>3. CASE i # h /\ hd[i] # Nothing
    <3>1. after[i] = hd[i] /\ hd[i].ptr \in U BY <1>1, <1>4, <2>3
    <3>8. hd[i].size \in Sizes /\ sz[hd[i].ptr] >= hd[i].size + 8 BY <1>2, <2>3
    <3>9. hd[i].size \in Int BY ONLY <1>s, <3>8
    <3>2. hd[i].size \in Int /\ sz[hd[i].ptr] >= hd[i].size + 8 BY ONLY <3>8, <3>9
    <3>3. hd[i].ptr \in Int /\ sz[hd[i].ptr] \in Int BY <1>8, <1>a, <3>1
    <3>4. hd[i].ptr <= p /\ p < hd[i].ptr + hd[i].size BY <1>13, <3>1
    <3>5. p < hd[i].ptr + sz[hd[i].ptr] - 8 BY ONLY <2>0, <3>2, <3>3, <3>4
    <3>6. n[p] = m[p] BY <1>6, <3>1, <3>4, <3>5
    <3>7. m[p] = Mark(i) BY <3>4 DEF Holds, Marked
    <3> QED BY <3>6, <3>7
  <2> QED BY <2>1, <2>2, <2>3
<1>14. Marked(n, after) BY <1>13 DEF Marked
<1>15. Holds(n, D, z, g, after) BY <1>12, <1>14 DEF Holds
<1> QED BY <1>15, <1>f DEF after, new, Moved

\* mm_malloc on any heap of the client's, the first call included.
LEMMA MallocEver ==
  \A H, hd, size : (InUse(H, hd) \/ Unused(H, hd)) /\ size \in Nat =>
    \E I, B, sz, al : Is(I, B, sz, al) /\ Holds(I.mem, B, sz, al, hd) /\ Gets(I, B, sz, al, size, MmMalloc(H, size))
<1> TAKE H, hd, size
<1> HAVE (InUse(H, hd) \/ Unused(H, hd)) /\ size \in Nat
<1>0. size \in Nat OBVIOUS
<1>1. CASE InUse(H, hd)
  <2>1. PICK B, sz, al : Is(H, B, sz, al) /\ Holds(H.mem, B, sz, al, hd) BY <1>1 DEF InUse
  <2>2. Gets(H, B, sz, al, size, MmMalloc(H, size)) BY ONLY <1>0, <2>1, MallocGood
  <2> QED BY <2>1, <2>2
<1>2. CASE Unused(H, hd)
  <2> DEFINE I == MmInit(H)
  <2>1. Fresh(H) /\ H.listp = NULL /\ hd = [h \in Handles |-> Nothing] BY <1>2 DEF Unused
  <2>2. PICK B, sz, al : Is(I, B, sz, al) /\ Allocd(B, al) = {} BY <2>1, InitHeap
  <2>3. I.listp # NULL BY <2>2 DEF Is, NULL
  <2>4. MmMalloc(H, size) = MmMalloc(I, size) BY <2>1, <2>3 DEF MmMalloc
  <2> HIDE DEF I
  <2>5. Gets(I, B, sz, al, size, MmMalloc(I, size)) BY ONLY <1>0, <2>2, MallocGood
  <2>6. Holds(I.mem, B, sz, al, hd)
    <3>1. Nothing \in Entries /\ Nothing.ptr = 0 /\ Nothing.size = 0 BY Constants
    <3>2. \A h \in Handles : hd[h] = Nothing /\ hd[h].ptr = 0 /\ hd[h].size = 0 BY <2>1, <3>1
    <3>3. hd \in [Handles -> Entries] BY <2>1, <3>1
    <3>4. Backed(B, sz, al, hd) BY <2>2, <3>2, <3>3 DEF Backed, NULL
    <3>5. Marked(I.mem, hd)
      <4> SUFFICES ASSUME NEW h \in Handles, NEW p \in Words, hd[h].ptr <= p, p < hd[h].ptr + hd[h].size PROVE FALSE
        BY DEF Marked
      <4>1. p \in Int BY WordsAre
      <4> QED BY <3>2, <4>1
    <3> QED BY <3>4, <3>5 DEF Holds
  <2> QED BY <2>2, <2>4, <2>5, <2>6
<1> QED BY <1>1, <1>2

\* The memory after the client has stored its mark.
FilledMem(m, h, from, to) == [p \in DOMAIN m |-> IF p >= from /\ p < to THEN Mark(h) ELSE m[p]]

\* The client stores its mark in a part of what it has asked for.
LEMMA FillStores ==
  ASSUME NEW K \in HeapType, NEW h \in Handles, NEW bp \in Int, NEW s \in Int, NEW from \in Int, NEW to \in Int,
         bp <= from, to <= bp + s - 8
  PROVE  /\ Filled(K, h, from, to) = With(K, FilledMem(K.mem, h, from, to))
         /\ Stores(K.mem, FilledMem(K.mem, h, from, to), bp, s)
         /\ \A p \in Words : FilledMem(K.mem, h, from, to)[p] = IF from <= p /\ p < to THEN Mark(h) ELSE K.mem[p]
<1> DEFINE n == FilledMem(K.mem, h, from, to)
<1>1. K.mem \in [Words -> Int] BY DEF HeapType
<1>2. \A p \in Words : p \in Int BY WordsAre
<1>3. \A p \in Words : n[p] = IF from <= p /\ p < to THEN Mark(h) ELSE K.mem[p] BY <1>1, <1>2 DEF FilledMem
<1>4. n \in [Words -> Int] BY <1>1, Constants DEF FilledMem
<1>5. Filled(K, h, from, to) = With(K, n) BY DEF Filled, With, FilledMem
<1> HIDE DEF n
<1>6. \A p \in Words : p < bp \/ p >= bp + s - 8 => n[p] = K.mem[p] BY <1>2, <1>3
<1>7. Stores(K.mem, n, bp, s) BY <1>4, <1>6 DEF Stores
<1> QED BY <1>3, <1>5, <1>7 DEF n

\* There is room for the size at bp, apart from all that the client holds.
Fits(hd, bp, size) ==
  /\ bp \in Int /\ bp % 8 = 0 /\ 0 <= bp /\ bp + size <= MAX_HEAP
  /\ \A i \in Handles : hd[i] # Nothing => hd[i].ptr + hd[i].size <= bp \/ bp + size <= hd[i].ptr

\* A block just taken is apart from all that the client holds.
LEMMA TakenFits ==
  \A H, B, sz, al, hd, bp, size, K, C, y, f :
    Is(H, B, sz, al) /\ Backed(B, sz, al, hd) /\ Takes(H, B, sz, al, bp, size + 8, K, C, y, f) /\ size \in Int
    => Fits(hd, bp, size)
<1> TAKE H, B, sz, al, hd, bp, size, K, C, y, f
<1> HAVE Is(H, B, sz, al) /\ Backed(B, sz, al, hd) /\ Takes(H, B, sz, al, bp, size + 8, K, C, y, f) /\ size \in Int
<1>0. size \in Int OBVIOUS
<1>1. /\ Is(K, C, y, f) /\ bp \notin Allocd(B, al) /\ Allocd(C, f) = Allocd(B, al) \cup {bp}
      /\ (\A b \in Allocd(B, al) : y[b] = sz[b]) /\ y[bp] >= size + 8
  BY DEF Takes, Agree
<1>2. ASSUME NEW b, b \in Allocd(C, f)
      PROVE  b \in Int /\ b % 8 = 0 /\ 16 <= b /\ b \in C /\ b + y[b] <= K.brk /\ y[b] \in Int
  <2>1. \A c \in Allocd(C, f) : c \in Int /\ c % 8 = 0 /\ 16 <= c /\ c # NULL /\ c \in C /\ c + y[c] <= K.brk
                                /\ y[c] \in Int /\ y[c] % 8 = 0 /\ 16 <= y[c]
    BY <1>1, AllocdAre
  <2> QED BY <1>2, <2>1
<1>3. bp \in Int /\ bp % 8 = 0 /\ 16 <= bp /\ bp \in C /\ bp + y[bp] <= K.brk /\ y[bp] \in Int BY <1>1, <1>2
<1>4. K.brk \in Int /\ K.brk <= MAX_HEAP /\ MAX_HEAP \in Nat BY <1>1, MMAssumption DEF Is, Layout, Shaped
<1>5. bp + size <= MAX_HEAP /\ 0 <= bp BY <1>0, <1>1, <1>3, <1>4
<1>6. ASSUME NEW i \in Handles, hd[i] # Nothing PROVE hd[i].ptr + hd[i].size <= bp \/ bp + size <= hd[i].ptr
  <2>1. hd[i].ptr \in Allocd(B, al) /\ hd[i].size \in Sizes /\ sz[hd[i].ptr] >= hd[i].size + 8 BY <1>6 DEF Backed
  <2> DEFINE b == hd[i].ptr
             s == hd[i].size
  <2>2. b \in Allocd(C, f) /\ b # bp /\ y[b] = sz[b] /\ y[b] >= s + 8 BY <1>1, <2>1
  <2>3. s \in Int
    <3>1. \A t \in Sizes : t \in Int BY ONLY Constants
    <3>2. s \in Sizes BY <2>1
    <3> QED BY ONLY <3>1, <3>2
  <2> HIDE DEF b, s
  <2>4. b \in Int /\ b \in C /\ y[b] \in Int BY <1>2, <2>2
  <2>5. b < bp => b + y[b] <= bp BY <1>1, <1>3, <2>4 DEF Is, Layout, Apart
  <2>6. bp < b => bp + y[bp] <= b BY <1>1, <1>3, <2>4 DEF Is, Layout, Apart
  <2>7. b + s <= bp \/ bp + size <= b
    <3>1. CASE b < bp BY <1>3, <2>2, <2>3, <2>4, <2>5, <3>1
    <3>2. CASE bp < b BY <1>0, <1>1, <1>3, <2>4, <2>6, <3>2
    <3> QED BY <1>3, <2>2, <2>4, <3>1, <3>2
  <2> QED BY <2>7 DEF b, s
<1> QED BY <1>3, <1>5, <1>6 DEF Fits

\* A call of malloc by the client, with what it stores in the block it gets.
LEMMA MallocMoves ==
  \A H, hd, h, size, R :
    /\ InUse(H, hd) \/ Unused(H, hd)
    /\ h \in Handles /\ hd[h] = Nothing /\ size \in Sizes /\ R = MmMalloc(H, size)
    => \/ R.bp = NULL /\ InUse(R.H, hd)
       \/ R.bp # NULL /\ (\A i \in Handles : hd[i].ptr # R.bp) /\ Fits(hd, R.bp, size)
          /\ InUse(Filled(R.H, h, R.bp, R.bp + size), Moved(hd, h, R.bp, size))
<1> TAKE H, hd, h, size, R
<1> HAVE /\ InUse(H, hd) \/ Unused(H, hd)
         /\ h \in Handles /\ hd[h] = Nothing /\ size \in Sizes /\ R = MmMalloc(H, size)
<1>0. size \in Nat /\ size \in Int BY Constants
<1>1. PICK I, B, sz, al : Is(I, B, sz, al) /\ Holds(I.mem, B, sz, al, hd) /\ Gets(I, B, sz, al, size, R)
  BY <1>0, MallocEver
<1>2. CASE R = Returning(I, NULL)
  <2>1. R.bp = NULL /\ R.H = I BY <1>2 DEF Returning
  <2> QED BY <1>1, <2>1 DEF InUse
<1>3. CASE R.bp # NULL /\ \E C, y, f : Takes(I, B, sz, al, R.bp, size + 8, R.H, C, y, f)
  <2>1. PICK C, y, f : Takes(I, B, sz, al, R.bp, size + 8, R.H, C, y, f) BY <1>3
  <2> DEFINE bp == R.bp
             K == R.H
  <2>2. /\ Is(K, C, y, f) /\ bp \notin Allocd(B, al) /\ Allocd(C, f) = Allocd(B, al) \cup {bp}
        /\ Agree(y, sz, Allocd(B, al)) /\ y[bp] >= size + 8 /\ Intact(I.mem, K.mem, Allocd(B, al), sz)
        /\ bp # NULL
    BY <1>3, <2>1 DEF Takes
  <2>h. Filled(R.H, h, R.bp, R.bp + size) = Filled(K, h, bp, bp + size) OBVIOUS
  <2> HIDE DEF bp, K
  <2>3. bp \in Allocd(C, f) BY <2>2
  <2>4. bp \in Int /\ y[bp] \in Int
    <3>1. \A b \in Allocd(C, f) : b \in Int /\ y[b] \in Int BY <2>2, AllocdAre
    <3> QED BY <2>3, <3>1
  <2>5. K \in HeapType BY <2>2 DEF Is
  <2> DEFINE n == FilledMem(K.mem, h, bp, bp + size)
  <2>6. /\ Filled(K, h, bp, bp + size) = With(K, n) /\ Stores(K.mem, n, bp, y[bp])
        /\ \A p \in Words : n[p] = IF bp <= p /\ p < bp + size THEN Mark(h) ELSE K.mem[p]
    <3>1. bp <= bp /\ bp + size <= bp + y[bp] - 8 /\ bp + size \in Int /\ h \in Handles BY <1>0, <2>2, <2>4
    <3> QED BY <2>4, <2>5, <3>1, FillStores
  <2> HIDE DEF n
  <2>7. Is(With(K, n), C, y, f) /\ Intact(K.mem, n, Allocd(C, f) \ {bp}, y) BY ONLY <2>2, <2>3, <2>6, StoreGood
  <2>8. Allocd(C, f) \ {bp} = Allocd(B, al) BY <2>2
  <2>9. Intact(I.mem, n, Allocd(B, al), sz) BY ONLY <2>2, <2>7, <2>8, IntactTwice
  <2>10. Allocd(B, al) \ {hd[h].ptr} = Allocd(B, al)
    <3>1. hd[h].ptr = NULL BY Constants DEF NULL
    <3>2. \A b \in Allocd(B, al) : b # NULL BY <1>1, AllocdAre
    <3> QED BY <3>1, <3>2
  <2>11. Allocd(C, f) = (Allocd(B, al) \ {hd[h].ptr}) \cup {bp} BY <2>2, <2>10
  <2>12. /\ Agree(y, sz, Allocd(B, al) \ {hd[h].ptr}) /\ Intact(I.mem, n, Allocd(B, al) \ {hd[h].ptr}, sz)
         /\ \A p \in Words : bp <= p /\ p < bp + size => n[p] = Mark(h)
    BY <2>2, <2>6, <2>9, <2>10
  <2>13. Moves(I, I.mem, n, B, sz, al, C, y, f, hd, h, bp, size)
    BY <1>1, <2>2, <2>4, <2>11, <2>12 DEF Moves
  <2>14. Holds(n, C, y, f, Moved(hd, h, bp, size)) /\ \A i \in Handles : hd[i].ptr # bp BY ONLY <2>13, HoldsMoved
  <2>15. With(K, n).mem = n BY <2>5 DEF With, HeapType
  <2>16. InUse(With(K, n), Moved(hd, h, bp, size)) BY <2>7, <2>14, <2>15 DEF InUse
  <2>17. InUse(Filled(R.H, h, R.bp, R.bp + size), Moved(hd, h, bp, size)) BY ONLY <2>6, <2>16, <2>h
  <2>18. Backed(B, sz, al, hd) BY <1>1 DEF Holds
  <2>19. Fits(hd, R.bp, size) BY ONLY <1>0, <1>1, <2>1, <2>18, TakenFits
  <2> QED BY <1>3, <2>14, <2>17, <2>19 DEF bp
<1> QED BY <1>1, <1>2, <1>3 DEF Gets

\* A call of free by the client.
LEMMA FreeMoves ==
  \A H, hd, h :
    InUse(H, hd) /\ h \in Handles /\ hd[h] # Nothing => InUse(MmFree(H, hd[h].ptr), [hd EXCEPT ![h] = Nothing])
<1> TAKE H, hd, h
<1> HAVE InUse(H, hd) /\ h \in Handles /\ hd[h] # Nothing
<1>1. PICK B, sz, al : Is(H, B, sz, al) /\ Holds(H.mem, B, sz, al, hd) BY DEF InUse
<1>2. hd[h].ptr \in Allocd(B, al) BY <1>1 DEF Holds, Backed
<1>3. PICK C, y, f : Gives(H, B, sz, al, hd[h].ptr, MmFree(H, hd[h].ptr), C, y, f) BY ONLY <1>1, <1>2, FreeGood
<1>4. /\ Is(MmFree(H, hd[h].ptr), C, y, f) /\ Allocd(C, f) = Allocd(B, al) \ {hd[h].ptr}
      /\ Agree(y, sz, Allocd(B, al) \ {hd[h].ptr})
      /\ Intact(H.mem, MmFree(H, hd[h].ptr).mem, Allocd(B, al) \ {hd[h].ptr}, sz)
  BY <1>3 DEF Gives
<1>5. h \in Handles /\ hd[h] # Nothing OBVIOUS
<1>6. Holds(MmFree(H, hd[h].ptr).mem, C, y, f, [hd EXCEPT ![h] = Nothing]) BY ONLY <1>1, <1>4, <1>5, HoldsFreed
<1> QED BY <1>4, <1>6 DEF InUse

\* The memory after memcpy.
CopiedMem(m, to, from, bytes) ==
  [p \in DOMAIN m |-> IF p >= to /\ p < to + bytes THEN m[from + (p - to)] ELSE m[p]]
Least2(a, b) == Min({a, b})

\* The copy of a resized block goes between the tags of the new one, and takes
\* what the client has stored in the old one along.
LEMMA CopyStores ==
  ASSUME NEW K \in HeapType, NEW to \in Int, NEW from \in Int, NEW s \in Int, NEW old \in Int, NEW size \in Int,
         to % 8 = 0, from % 8 = 0, 0 <= from, 0 <= to, from + old <= MAX_HEAP, size + 8 <= s, 0 <= size, 0 <= old
  PROVE  /\ Copied(K, to, from, Least2(size, old)) = With(K, CopiedMem(K.mem, to, from, Least2(size, old)))
         /\ Stores(K.mem, CopiedMem(K.mem, to, from, Least2(size, old)), to, s)
         /\ \A p \in Words : to <= p /\ p < to + size /\ p < to + old =>
              /\ from + (p - to) \in Words
              /\ CopiedMem(K.mem, to, from, Least2(size, old))[p] = K.mem[from + (p - to)]
<1> DEFINE bytes == Least2(size, old)
           n == CopiedMem(K.mem, to, from, bytes)
<1>1. K.mem \in [Words -> Int] BY DEF HeapType
<1>2. \A p \in Words : p \in Int /\ p % 4 = 0 BY WordsAre
<1>3. bytes \in Int /\ bytes <= size /\ bytes <= old /\ (bytes = size \/ bytes = old)
  <2>1. \E x \in {size, old} : \A y \in {size, old} : x =< y
    <3>1. CASE size <= old BY <3>1
    <3>2. CASE old <= size BY <3>2
    <3> QED BY <3>1, <3>2
  <2>2. bytes \in {size, old} /\ \A y \in {size, old} : bytes =< y BY <2>1 DEF Least2, Min
  <2> QED BY <2>2
<1> HIDE DEF bytes
<1>4. ASSUME NEW p \in Words, to <= p, p < to + old PROVE from + (p - to) \in Words
  <2>0. MAX_HEAP \in Nat /\ p \in Int /\ p % 4 = 0 BY <1>2, MMAssumption
  <2>1. from + (p - to) \in Int /\ 0 <= from + (p - to) /\ from + (p - to) < MAX_HEAP BY <1>4, <2>0
  <2>2. (from + (p - to)) % 4 = 0 BY <2>0
  <2> QED BY ONLY <2>1, <2>2, WordsAre
<1>5. \A p \in Words : n[p] = IF p >= to /\ p < to + bytes THEN K.mem[from + (p - to)] ELSE K.mem[p]
  BY <1>1 DEF CopiedMem
<1>6. n \in [Words -> Int]
  <2>1. ASSUME NEW p \in Words
        PROVE  (IF p >= to /\ p < to + bytes THEN K.mem[from + (p - to)] ELSE K.mem[p]) \in Int
    <3>1. CASE p >= to /\ p < to + bytes
      <4>1. p < to + old /\ to <= p BY <1>2, <1>3, <3>1
      <4>2. from + (p - to) \in Words BY <1>4, <4>1
      <4> QED BY <1>1, <3>1, <4>2
    <3>2. CASE ~(p >= to /\ p < to + bytes) BY <1>1, <3>2
    <3> QED BY <3>1, <3>2
  <2> QED BY <1>1, <2>1 DEF CopiedMem
<1>7. Copied(K, to, from, bytes) = With(K, n) BY DEF Copied, With, CopiedMem
<1> HIDE DEF n
<1>8. \A p \in Words : p < to \/ p >= to + s - 8 => n[p] = K.mem[p] BY <1>2, <1>3, <1>5
<1>9. Stores(K.mem, n, to, s) BY <1>6, <1>8 DEF Stores
<1>10. ASSUME NEW p \in Words, to <= p, p < to + size, p < to + old
       PROVE  from + (p - to) \in Words /\ n[p] = K.mem[from + (p - to)]
  BY <1>2, <1>3, <1>4, <1>5, <1>10
<1> QED BY <1>7, <1>9, <1>10 DEF n, bytes

\* A call of realloc by the client for a block it holds: a new block, the copy,
\* the old one given back, and what the client stores in the room it has gained.
LEMMA ReallocMoves ==
  \A H, hd, h, size, R :
    /\ InUse(H, hd) /\ h \in Handles /\ hd[h] # Nothing /\ size \in Sizes /\ R = MmRealloc(H, hd[h].ptr, size)
    => \/ R.bp = NULL /\ InUse(R.H, hd)
       \/ R.bp # NULL /\ (\A i \in Handles : hd[i].ptr # R.bp) /\ Fits(hd, R.bp, size)
          /\ InUse(Filled(R.H, h, R.bp + hd[h].size, R.bp + size), Moved(hd, h, R.bp, size))
<1> TAKE H, hd, h, size, R
<1> HAVE InUse(H, hd) /\ h \in Handles /\ hd[h] # Nothing /\ size \in Sizes /\ R = MmRealloc(H, hd[h].ptr, size)
<1>0. size \in Nat /\ size \in Int /\ size # 0 /\ 0 <= size BY Constants
<1>1. PICK B, sz, al : Is(H, B, sz, al) /\ Holds(H.mem, B, sz, al, hd) BY DEF InUse
<1> DEFINE ptr == hd[h].ptr
           held_ == hd[h].size
           S == MmMalloc(H, size)
           old == GET_SIZE(H, HDRP(ptr))
<1>2. ptr \in Allocd(B, al) /\ held_ \in Sizes /\ sz[ptr] >= held_ + 8 BY <1>1 DEF Holds, Backed
<1>3. held_ \in Int /\ 0 <= held_ BY <1>2, Constants
<1>w. \A p \in Words : ptr <= p /\ p < ptr + held_ => H.mem[p] = Mark(h) BY <1>1 DEF Holds, Marked
<1>g. h \in Handles /\ hd[h].ptr = ptr /\ hd[h].size = held_ OBVIOUS
<1>4. R = IF S.bp = NULL THEN S
          ELSE Returning(MmFree(Copied(S.H, S.bp, ptr, Least2(size, old)), ptr), S.bp)
  <2>1. ptr # NULL
    <3>1. \A b \in Allocd(B, al) : b # NULL BY <1>1, AllocdAre
    <3> QED BY <1>2, <3>1
  <2> QED BY <1>0, <2>1 DEF MmRealloc, Least2
<1> HIDE DEF ptr, held_
<1>5. Gets(H, B, sz, al, size, S) BY ONLY <1>0, <1>1, MallocGood DEF S
<1>6. old = sz[ptr]
  <2>1. Layout(H.mem, H.brk, B, sz, al) BY <1>1 DEF Is
  <2>2. ptr \in B BY <1>2 DEF Allocd
  <2>3. ReadAs(H, ptr, sz[ptr], al[ptr]) BY ONLY <2>1, <2>2, Reads
  <2> QED BY <2>3 DEF ReadAs
<1>7. ptr \in Int /\ ptr % 8 = 0 /\ 16 <= ptr /\ ptr # NULL /\ ptr \in B /\ ptr + sz[ptr] <= H.brk
      /\ sz[ptr] \in Int /\ sz[ptr] % 8 = 0 /\ 16 <= sz[ptr]
  <2>1. \A b \in Allocd(B, al) : b \in Int /\ b % 8 = 0 /\ 16 <= b /\ b # NULL /\ b \in B /\ b + sz[b] <= H.brk
                                  /\ sz[b] \in Int /\ sz[b] % 8 = 0 /\ 16 <= sz[b]
    BY <1>1, AllocdAre
  <2> QED BY <1>2, <2>1
<1>8. H.brk \in Int /\ H.brk <= MAX_HEAP BY <1>1 DEF Is, Layout, Shaped
<1> HIDE DEF old, S
<1>9. CASE S = Returning(H, NULL)
  <2>1. R.bp = NULL /\ R.H = H BY <1>4, <1>9 DEF Returning
  <2> QED BY <2>1
<1>10. CASE S.bp # NULL /\ \E C, y, f : Takes(H, B, sz, al, S.bp, size + 8, S.H, C, y, f)
  <2>1. PICK C, y, f : Takes(H, B, sz, al, S.bp, size + 8, S.H, C, y, f) BY <1>10
  <2> DEFINE bp == S.bp
             K == S.H
             U == Allocd(B, al)
             V == Allocd(B, al) \ {ptr}
  <2>2. /\ Is(K, C, y, f) /\ bp \notin U /\ Allocd(C, f) = U \cup {bp}
        /\ Agree(y, sz, U) /\ y[bp] >= size + 8 /\ Intact(H.mem, K.mem, U, sz)
        /\ bp # NULL
    BY <1>10, <2>1 DEF Takes
  <2>3. R.bp = bp /\ R.H = MmFree(Copied(K, bp, ptr, Least2(size, old)), ptr) BY <1>4, <1>10 DEF Returning
  <2>h. /\ ptr \in U /\ U \ {ptr} = V /\ U = Allocd(B, al) /\ V = Allocd(B, al) \ {ptr} BY <1>2
  <2> HIDE DEF bp, K, U, V
  <2>4. bp \in Allocd(C, f) /\ ptr \in Allocd(C, f) /\ bp # ptr BY <2>2, <2>h
  <2>5. bp \in Int /\ bp % 8 = 0 /\ 16 <= bp /\ y[bp] \in Int
    <3>1. \A b \in Allocd(C, f) : b \in Int /\ b % 8 = 0 /\ 16 <= b /\ y[b] \in Int BY <2>2, AllocdAre
    <3> QED BY <2>4, <3>1
  <2>6. K \in HeapType BY <2>2 DEF Is
  <2> DEFINE n == CopiedMem(K.mem, bp, ptr, Least2(size, old))
             K1 == With(K, n)
             K2 == MmFree(K1, ptr)
             n3 == FilledMem(K2.mem, h, bp + held_, bp + size)
             K3 == With(K2, n3)
  <2>7. /\ Copied(K, bp, ptr, Least2(size, old)) = K1 /\ Stores(K.mem, n, bp, y[bp])
        /\ \A p \in Words : bp <= p /\ p < bp + size /\ p < bp + old =>
             ptr + (p - bp) \in Words /\ n[p] = K.mem[ptr + (p - bp)]
    <3>1. old \in Int /\ 0 <= old /\ 0 <= ptr /\ 0 <= bp /\ ptr + old <= MAX_HEAP /\ size + 8 <= y[bp]
          /\ MAX_HEAP \in Nat
      BY <1>6, <1>7, <1>8, <1>0, <2>2, <2>5, MMAssumption
    <3> DEFINE s == y[bp]
    <3>2. s \in Int /\ size + 8 <= s BY <2>5, <3>1
    <3> HIDE DEF s
    <3>3. /\ Copied(K, bp, ptr, Least2(size, old)) = With(K, CopiedMem(K.mem, bp, ptr, Least2(size, old)))
          /\ Stores(K.mem, CopiedMem(K.mem, bp, ptr, Least2(size, old)), bp, s)
          /\ \A p \in Words : bp <= p /\ p < bp + size /\ p < bp + old =>
               /\ ptr + (p - bp) \in Words
               /\ CopiedMem(K.mem, bp, ptr, Least2(size, old))[p] = K.mem[ptr + (p - bp)]
      BY ONLY <1>0, <1>7, <2>5, <2>6, <3>1, <3>2, CopyStores
    <3> QED BY <3>3 DEF s
  <2>8. K1 \in HeapType /\ K1.mem = n BY <2>6, <2>7 DEF Stores, With, HeapType
  <2> HIDE DEF n
  <2>9. Is(K1, C, y, f) /\ Intact(K.mem, n, Allocd(C, f) \ {bp}, y) BY ONLY <2>2, <2>4, <2>7, StoreGood
  <2> HIDE DEF K1
  <2>10. PICK D, z, g : Gives(K1, C, y, f, ptr, K2, D, z, g) BY ONLY <2>4, <2>9, FreeGood
  <2>11. /\ Is(K2, D, z, g) /\ Allocd(D, g) = Allocd(C, f) \ {ptr}
         /\ Agree(z, y, Allocd(C, f) \ {ptr}) /\ Intact(n, K2.mem, Allocd(C, f) \ {ptr}, y)
    BY <2>8, <2>10 DEF Gives
  <2> HIDE DEF K2
  <2>12. Allocd(D, g) = V \cup {bp} /\ V \subseteq U /\ bp \notin V /\ Allocd(C, f) \ {bp} = U
         /\ Allocd(C, f) \ {ptr} = V \cup {bp}
    BY <2>2, <2>4, <2>11, <2>h
  <2>13. bp \in Allocd(D, g) /\ z[bp] = y[bp] /\ z[bp] \in Int
    <3>1. bp \in Allocd(D, g) BY <2>12
    <3>2. z[bp] = y[bp] BY <2>11, <2>12 DEF Agree
    <3> QED BY <2>5, <3>1, <3>2
  <2>14. K2 \in HeapType BY <2>11 DEF Is
  <2>15. /\ Filled(K2, h, bp + held_, bp + size) = K3 /\ Stores(K2.mem, n3, bp, z[bp])
         /\ \A p \in Words : n3[p] = IF bp + held_ <= p /\ p < bp + size THEN Mark(h) ELSE K2.mem[p]
    <3>1. bp <= bp + held_ /\ bp + size <= bp + z[bp] - 8 /\ bp + held_ \in Int /\ bp + size \in Int
      BY <1>0, <1>3, <2>2, <2>5, <2>13
    <3> QED BY <1>g, <2>5, <2>13, <2>14, <3>1, FillStores
  <2>16. K3.mem = n3 BY <2>14 DEF With, HeapType
  <2> HIDE DEF n3
  <2>17. Is(K3, D, z, g) /\ Intact(K2.mem, n3, Allocd(D, g) \ {bp}, z) BY ONLY <2>11, <2>13, <2>15, StoreGood
  <2> HIDE DEF K3
  <2>18. Allocd(D, g) \ {bp} = V BY <2>12
  <2>19. Agree(z, sz, V) /\ Agree(z, y, V) /\ Agree(y, sz, V) BY <2>2, <2>11, <2>12 DEF Agree
  <2>20. Intact(H.mem, n3, V, sz)
    <3>1. Intact(H.mem, K.mem, V, sz) BY <2>2, <2>12 DEF Intact
    <3>2. Intact(K.mem, n, V, y) BY <2>9, <2>12 DEF Intact
    <3>3. Intact(n, K2.mem, V, y) BY <2>11, <2>12 DEF Intact
    <3>4. Intact(K2.mem, n3, V, z) BY <2>17, <2>18
    <3>5. Intact(H.mem, n, V, sz) BY ONLY <2>19, <3>1, <3>2, IntactTwice
    <3>6. Intact(H.mem, K2.mem, V, sz) BY ONLY <2>19, <3>3, <3>5, IntactTwice
    <3> QED BY ONLY <2>19, <3>4, <3>6, IntactTwice
  <2>21. ASSUME NEW p \in Words, bp <= p, p < bp + size PROVE n3[p] = Mark(h)
    <3>0. p \in Int BY WordsAre
    <3>1. CASE bp + held_ <= p BY <2>15, <2>21, <3>1
    <3>2. CASE p < bp + held_
      <4>1. n3[p] = K2.mem[p] BY <1>3, <2>5, <2>15, <3>0, <3>2
      <4>2. bp \in Allocd(C, f) \ {ptr} BY <2>4
      <4>3. p < bp + y[bp] - 8 BY <1>0, <2>2, <2>5, <2>21, <3>0
      <4>4. K2.mem[p] = n[p] BY <2>11, <2>21, <4>2, <4>3 DEF Intact
      <4>5. p < bp + old BY <1>2, <1>3, <1>6, <1>7, <2>5, <3>0, <3>2
      <4>6. ptr + (p - bp) \in Words /\ n[p] = K.mem[ptr + (p - bp)] BY <2>7, <2>21, <4>5
      <4>7. ptr <= ptr + (p - bp) /\ ptr + (p - bp) < ptr + held_ /\ ptr + (p - bp) < ptr + sz[ptr] - 8
        BY <1>2, <1>3, <1>7, <2>5, <2>21, <3>0, <3>2
      <4>8. K.mem[ptr + (p - bp)] = H.mem[ptr + (p - bp)] BY <2>2, <2>h, <4>6, <4>7 DEF Intact
      <4>9. H.mem[ptr + (p - bp)] = Mark(h) BY <1>w, <4>6, <4>7
      <4> QED BY <4>1, <4>4, <4>6, <4>8, <4>9
    <3> QED BY <1>3, <2>5, <3>0, <3>1, <3>2
  <2>22. Moves(H, H.mem, n3, B, sz, al, D, z, g, hd, h, bp, size)
    <3>1. Allocd(D, g) = (Allocd(B, al) \ {hd[h].ptr}) \cup {bp} BY <1>g, <2>12, <2>h
    <3>2. Agree(z, sz, Allocd(B, al) \ {hd[h].ptr}) /\ Intact(H.mem, n3, Allocd(B, al) \ {hd[h].ptr}, sz)
      BY <1>g, <2>19, <2>20, <2>h
    <3>3. z[bp] >= size + 8 /\ bp \notin Allocd(B, al) /\ bp # NULL /\ bp \in Int BY <2>2, <2>5, <2>13, <2>h
    <3> QED BY <1>1, <2>21, <3>1, <3>2, <3>3 DEF Moves
  <2>23. Holds(n3, D, z, g, Moved(hd, h, bp, size)) /\ \A i \in Handles : hd[i].ptr # bp BY ONLY <2>22, HoldsMoved
  <2>24. InUse(K3, Moved(hd, h, bp, size)) BY <2>16, <2>17, <2>23 DEF InUse
  <2>25. R.H = K2 BY <2>3, <2>7 DEF K2
  <2>26. InUse(Filled(R.H, h, R.bp + hd[h].size, R.bp + size), Moved(hd, h, R.bp, size))
    BY ONLY <1>g, <2>3, <2>15, <2>24, <2>25
  <2>27. Backed(B, sz, al, hd) BY <1>1 DEF Holds
  <2>28. Fits(hd, S.bp, size) BY ONLY <1>0, <1>1, <2>1, <2>27, TakenFits
  <2>29. Fits(hd, R.bp, size) BY <2>3, <2>28 DEF bp
  <2> QED BY <2>2, <2>3, <2>23, <2>26, <2>29
<1> QED BY <1>5, <1>9, <1>10 DEF Gets

-----------------------------------------------------------------------------
(* The theorems. *)

\* What a step does to the client's pointers.
HeldStep ==
  \/ held' = held
  \/ \E h \in Handles : held[h] # Nothing /\ held' = [held EXCEPT ![h] = Nothing]
  \/ \E h \in Handles, size \in Sizes : \E bp : /\ bp # NULL /\ (\A i \in Handles : held[i].ptr # bp)
                                                /\ Fits(held, bp, size) /\ held' = Moved(held, h, bp, size)

\* Heap is made of the package's variables, which a call replaces all at once.
LEMMA HeapAfter ==
  ASSUME NEW K, K \in HeapType, Becomes(K)
  PROVE  Heap' = K /\ NEXT_FIT' = NEXT_FIT
BY DEF Becomes, Heap, HeapType

\* A heap in use that a call leaves is the package's next one.
LEMMA UseAfter ==
  ASSUME NEW K, NEW hd, Becomes(K), InUse(K, hd), held' = hd
  PROVE  InUse(Heap, held)' /\ NEXT_FIT' = NEXT_FIT
<1>1. PICK B, sz, al : Is(K, B, sz, al) /\ Holds(K.mem, B, sz, al, hd) BY DEF InUse
<1>2. K \in HeapType BY <1>1 DEF Is
<1>3. Heap' = K /\ NEXT_FIT' = NEXT_FIT BY <1>2, HeapAfter
<1>4. Is(Heap, B, sz, al)' BY <1>1, <1>3 DEF Is, RoverOK
<1>5. Holds(Heap.mem, B, sz, al, held)' BY <1>1, <1>3
<1> QED BY <1>3, <1>4, <1>5 DEF InUse

\* At the start the heap is not initialised and the client holds nothing.
LEMMA InitInv == Init => IInv
<1> SUFFICES ASSUME Init PROVE IInv OBVIOUS
<1>1. Heap \in HeapType
  <2>1. [p \in Words |-> Garbage] \in [Words -> Int] BY DEF Garbage
  <2> QED BY <2>1 DEF Init, Heap, HeapType, NULL
<1>2. \A p \in Words : Heap.mem[p] = Garbage BY DEF Init, Heap
<1>3. Heap.brk = 0 /\ Heap.listp = NULL /\ Heap.rover = NULL BY DEF Init, Heap
<1>4. Fresh(Heap) BY <1>1, <1>2, <1>3 DEF Fresh
<1> QED BY <1>3, <1>4 DEF Init, Unused, IInv

\* A handle that is free can be given a block, whichever call it comes from.
LEMMA MallocStep ==
  ASSUME IInv, NEW h \in Handles, NEW size \in Sizes, held[h] = Nothing, NEW got, got = MmMalloc(Heap, size),
         IF got.bp = NULL
           THEN Becomes(got.H) /\ UNCHANGED held
           ELSE Becomes(Filled(got.H, h, got.bp, got.bp + size)) /\ held' = Moved(held, h, got.bp, size)
  PROVE  IInv' /\ HeldStep
<1>0. (InUse(Heap, held) \/ Unused(Heap, held)) /\ NEXT_FIT \in BOOLEAN BY DEF IInv
<1>1. \/ got.bp = NULL /\ InUse(got.H, held)
      \/ got.bp # NULL /\ (\A i \in Handles : held[i].ptr # got.bp) /\ Fits(held, got.bp, size)
         /\ InUse(Filled(got.H, h, got.bp, got.bp + size), Moved(held, h, got.bp, size))
  BY <1>0, MallocMoves
<1>2. CASE got.bp = NULL
  <2>1. InUse(got.H, held) /\ Becomes(got.H) /\ held' = held BY <1>1, <1>2
  <2>2. InUse(Heap, held)' /\ NEXT_FIT' = NEXT_FIT BY <2>1, UseAfter
  <2> QED BY <1>0, <2>1, <2>2 DEF IInv, HeldStep
<1>3. CASE got.bp # NULL
  <2> DEFINE K == Filled(got.H, h, got.bp, got.bp + size)
             hd == Moved(held, h, got.bp, size)
  <2>1. InUse(K, hd) /\ Becomes(K) /\ held' = hd BY <1>1, <1>3
  <2>2. InUse(Heap, held)' /\ NEXT_FIT' = NEXT_FIT
    <3> HIDE DEF K, hd
    <3> QED BY <2>1, UseAfter
  <2>3. HeldStep BY <1>1, <1>3, <2>1 DEF HeldStep
  <2> QED BY <1>0, <2>2, <2>3 DEF IInv
<1> QED BY <1>2, <1>3

\* The client's pointers are a function of its handles.
LEMMA HeldIs ==
  ASSUME IInv
  PROVE  held \in [Handles -> Entries] /\ \A h \in Handles : [held EXCEPT ![h] = held[h]] = held
<1>1. held \in [Handles -> Entries] BY Constants DEF IInv, InUse, Holds, Backed, Unused
<1> QED BY <1>1

\* One step for each call of the client.
LEMMA FreeStep ==
  ASSUME IInv, NEW h \in Handles, Free(h)
  PROVE  IInv' /\ HeldStep
<1>1. held[h] # Nothing /\ Becomes(MmFree(Heap, held[h].ptr)) /\ held' = [held EXCEPT ![h] = Nothing] BY DEF Free
<1>2. InUse(Heap, held) BY <1>1 DEF IInv, Unused
<1> DEFINE K == MmFree(Heap, held[h].ptr)
           hd == [held EXCEPT ![h] = Nothing]
<1>3. InUse(K, hd) /\ Becomes(K) /\ held' = hd BY <1>1, <1>2, FreeMoves
<1> HIDE DEF K, hd
<1>4. InUse(Heap, held)' /\ NEXT_FIT' = NEXT_FIT BY <1>3, UseAfter
<1>5. HeldStep BY <1>1 DEF HeldStep
<1> QED BY <1>4, <1>5 DEF IInv

\* Nothing changes when realloc has nothing to give back and nothing to give.
LEMMA StutterStep ==
  ASSUME IInv, UNCHANGED vars
  PROVE  IInv' /\ HeldStep
<1>1. Heap' = Heap /\ held' = held /\ NEXT_FIT' = NEXT_FIT BY DEF vars, Heap
<1>2. InUse(Heap, held) => InUse(Heap, held)' BY <1>1 DEF InUse, Is, RoverOK
<1>3. Unused(Heap, held) => Unused(Heap, held)' BY <1>1 DEF Unused, Fresh
<1> QED BY <1>1, <1>2, <1>3 DEF IInv, HeldStep

\* realloc is free, malloc, or both with a copy in between, by what it is given.
LEMMA ReallocStep ==
  ASSUME IInv, NEW h \in Handles, NEW size \in Sizes \cup {0}, Realloc(h, size)
  PROVE  IInv' /\ HeldStep
<1> DEFINE got == MmRealloc(Heap, held[h].ptr, size)
<1>1. IF got.bp = NULL
        THEN Becomes(got.H) /\ held' = IF size = 0 THEN [held EXCEPT ![h] = Nothing] ELSE held
        ELSE Becomes(Filled(got.H, h, got.bp + held[h].size, got.bp + size)) /\ held' = Moved(held, h, got.bp, size)
  BY DEF Realloc, Moved
<1>2. CASE size = 0
  <2>1. got = Returning(MmFree(Heap, held[h].ptr), NULL) BY <1>2 DEF MmRealloc
  <2>2. Becomes(MmFree(Heap, held[h].ptr)) /\ held' = [held EXCEPT ![h] = Nothing]
    BY <1>1, <1>2, <2>1 DEF Returning
  <2>3. CASE held[h] # Nothing
    <3>1. Free(h) BY <2>2, <2>3 DEF Free
    <3> QED BY <3>1, FreeStep
  <2>4. CASE held[h] = Nothing
    <3>1. MmFree(Heap, held[h].ptr) = Heap BY <2>4 DEF MmFree, Nothing
    <3>2. held' = held BY <2>2, <2>4, HeldIs
    <3>3. UNCHANGED vars BY <2>2, <3>1, <3>2 DEF Becomes, Heap, vars
    <3> QED BY <3>3, StutterStep
  <2> QED BY <2>3, <2>4
<1>3. CASE size # 0 /\ held[h] = Nothing
  <2>1. size \in Sizes BY <1>3
  <2>2. got = MmMalloc(Heap, size) BY <1>3 DEF MmRealloc, Nothing
  <2>3. held[h].size = 0 BY <1>3 DEF Nothing
  <2> DEFINE R == MmMalloc(Heap, size)
  <2>4. R.bp = NULL => Becomes(R.H) /\ held' = held BY <1>1, <1>3, <2>2
  <2>5. R.bp # NULL => Becomes(Filled(R.H, h, R.bp + 0, R.bp + size)) /\ held' = Moved(held, h, R.bp, size)
    BY <1>1, <2>2, <2>3
  <2>6. (InUse(Heap, held) \/ Unused(Heap, held)) /\ R = MmMalloc(Heap, size) BY DEF IInv
  <2>7. R.bp # NULL => R.bp \in Int
    <3> HIDE DEF R
    <3>1. R.bp # NULL => Fits(held, R.bp, size) BY <1>3, <2>1, <2>6, MallocMoves
    <3> QED BY <3>1 DEF Fits
  <2>8. R.bp # NULL => R.bp + 0 = R.bp BY ONLY <2>7
  <2>9. R.bp # NULL => Becomes(Filled(R.H, h, R.bp, R.bp + size)) /\ held' = Moved(held, h, R.bp, size)
    BY <2>5, <2>8
  <2>10. IF R.bp = NULL THEN Becomes(R.H) /\ UNCHANGED held
         ELSE Becomes(Filled(R.H, h, R.bp, R.bp + size)) /\ held' = Moved(held, h, R.bp, size)
    BY <2>4, <2>9
  <2> HIDE DEF R
  <2> QED BY <1>3, <2>1, <2>6, <2>10, MallocStep
<1>4. CASE size # 0 /\ held[h] # Nothing
  <2>1. InUse(Heap, held) BY <1>4 DEF IInv, Unused
  <2>2. size \in Sizes BY <1>4
  <2>3. \/ got.bp = NULL /\ InUse(got.H, held)
        \/ got.bp # NULL /\ (\A i \in Handles : held[i].ptr # got.bp) /\ Fits(held, got.bp, size)
           /\ InUse(Filled(got.H, h, got.bp + held[h].size, got.bp + size), Moved(held, h, got.bp, size))
    BY <1>4, <2>1, <2>2, ReallocMoves
  <2>4. CASE got.bp = NULL
    <3>1. InUse(got.H, held) /\ Becomes(got.H) /\ held' = held BY <1>1, <1>4, <2>3, <2>4
    <3>2. InUse(Heap, held)' /\ NEXT_FIT' = NEXT_FIT
      <4> HIDE DEF got
      <4> QED BY <3>1, UseAfter
    <3> QED BY <3>1, <3>2 DEF IInv, HeldStep
  <2>5. CASE got.bp # NULL
    <3> DEFINE K == Filled(got.H, h, got.bp + held[h].size, got.bp + size)
               hd == Moved(held, h, got.bp, size)
    <3> HIDE DEF got
    <3>1. InUse(K, hd) /\ Becomes(K) /\ held' = hd BY <1>1, <2>3, <2>5
    <3>2. HeldStep BY <2>2, <2>3, <2>5, <3>1 DEF HeldStep
    <3>3. InUse(Heap, held)' /\ NEXT_FIT' = NEXT_FIT
      <4> HIDE DEF K, hd
      <4> QED BY <3>1, UseAfter
    <3> QED BY <3>2, <3>3 DEF IInv
  <2> QED BY <2>4, <2>5
<1> QED BY <1>2, <1>3, <1>4

\* Every call keeps the invariant.
LEMMA StepInv ==
  ASSUME IInv, [Next]_vars
  PROVE  IInv' /\ HeldStep
<1>1. ASSUME NEW h \in Handles, NEW size \in Sizes, Malloc(h, size) PROVE IInv' /\ HeldStep
  <2> DEFINE got == MmMalloc(Heap, size)
  <2>1. held[h] = Nothing BY <1>1 DEF Malloc, FirstFree
  <2>2. IF got.bp = NULL THEN Becomes(got.H) /\ UNCHANGED held
        ELSE Becomes(Filled(got.H, h, got.bp, got.bp + size)) /\ held' = Moved(held, h, got.bp, size)
    BY <1>1 DEF Malloc, Moved
  <2>3. got = MmMalloc(Heap, size) OBVIOUS
  <2> HIDE DEF got
  <2> QED BY <2>1, <2>2, <2>3, MallocStep
<1>2. ASSUME NEW h \in Handles, Free(h) PROVE IInv' /\ HeldStep BY <1>2, FreeStep
<1>3. ASSUME NEW h \in Handles, NEW size \in Sizes \cup {0}, Realloc(h, size) PROVE IInv' /\ HeldStep
  BY <1>3, ReallocStep
<1>4. CASE UNCHANGED vars BY <1>4, StutterStep
<1> QED BY <1>1, <1>2, <1>3, <1>4 DEF Next

\* After any calls, the invariant holds.
LEMMA InvariantHolds == Spec => []IInv
<1>1. Init => IInv BY InitInv
<1>2. IInv /\ [Next]_vars => IInv' BY StepInv
<1> QED BY <1>1, <1>2, PTL DEF Spec

\* The invariant implies the types.
LEMMA TypesFollow == IInv => TypeOK
<1>1. ASSUME IInv PROVE TypeOK
  <2>0. NEXT_FIT \in BOOLEAN /\ MAX_HEAP \in Nat /\ MAX_HEAP % 8 = 0 /\ 16 <= MAX_HEAP BY <1>1, MMAssumption DEF IInv
  <2>1. mem = Heap.mem /\ mem_brk = Heap.brk /\ heap_listp = Heap.listp /\ rover = Heap.rover BY DEF Heap
  <2>2. CASE InUse(Heap, held)
    <3>1. PICK B, sz, al : Is(Heap, B, sz, al) /\ Holds(Heap.mem, B, sz, al, held) BY <2>2 DEF InUse
    <3>2. mem \in [Words -> Int] /\ \A p \in Words : p >= mem_brk => mem[p] = Garbage
      BY <2>1, <3>1 DEF Is, Layout, TaggedAs
    <3>3. mem_brk \in Int /\ mem_brk % 8 = 0 /\ 16 <= mem_brk /\ mem_brk <= MAX_HEAP
      BY <2>1, <3>1 DEF Is, Layout, Shaped
    <3>4. mem_brk \in Words \cup {MAX_HEAP} /\ 8 \in Words
      <4>1. mem_brk # MAX_HEAP => mem_brk < MAX_HEAP /\ mem_brk % 4 = 0 /\ 0 <= mem_brk BY <2>0, <3>3
      <4>2. 8 < MAX_HEAP /\ 8 % 4 = 0 BY <2>0
      <4> QED BY ONLY <3>3, <4>1, <4>2, WordsAre
    <3>5. heap_listp \in Words /\ rover \in 0..mem_brk
      <4>1. rover \in Int /\ 0 <= rover /\ rover <= mem_brk BY <2>1, <3>1 DEF Is, RoverOK, HeapType
      <4> QED BY <2>1, <3>1, <3>3, <3>4, <4>1 DEF Is
    <3>6. ASSUME NEW h \in Handles PROVE held[h] \in [ptr : 0..MAX_HEAP - 1, size : Sizes \cup {0}]
      <4>1. CASE held[h] = Nothing BY <2>0, <4>1 DEF Nothing, NULL
      <4>2. CASE held[h] # Nothing
        <5>1. held[h].ptr \in Allocd(B, al) /\ held[h] \in Entries BY <3>1, <4>2 DEF Holds, Backed
        <5>2. \A b \in Allocd(B, al) : b \in 0..MAX_HEAP - 1
          <6> SUFFICES ASSUME NEW b, b \in Allocd(B, al) PROVE b \in 0..MAX_HEAP - 1 OBVIOUS
          <6> DEFINE s == sz[b]
          <6>1. b \in Int /\ 16 <= b /\ b + s <= mem_brk /\ s \in Int /\ 16 <= s BY <2>1, <3>1, AllocdAre
          <6> HIDE DEF s
          <6> QED BY <2>0, <3>3, <6>1
        <5> QED BY <5>1, <5>2 DEF Entries
      <4> QED BY <4>1, <4>2
    <3>7. held \in [Handles -> [ptr : 0..MAX_HEAP - 1, size : Sizes \cup {0}]]
      BY <3>1, <3>6 DEF Holds, Backed
    <3> QED BY <2>0, <3>2, <3>4, <3>5, <3>7 DEF TypeOK
  <2>3. CASE Unused(Heap, held)
    <3>1. mem \in [Words -> Int] /\ (\A p \in Words : mem[p] = Garbage) /\ mem_brk = 0 /\ heap_listp = 0 /\ rover = 0
          /\ held = [h \in Handles |-> Nothing]
      BY <2>1, <2>3 DEF Unused, Fresh, HeapType, NULL
    <3>2. 0 \in Words BY <2>0, WordsAre
    <3>3. Nothing \in [ptr : 0..MAX_HEAP - 1, size : Sizes \cup {0}] BY <2>0 DEF Nothing, NULL
    <3> QED BY <2>0, <3>1, <3>2, <3>3 DEF TypeOK
  <2> QED BY <1>1, <2>2, <2>3 DEF IInv
<1> QED BY <1>1

\* mem_sbrk keeps the break within the heap, nothing past it is written, and the
\* pointers given to the client and the rover are addresses of the heap, whatever
\* mm_malloc, mm_free and mm_realloc are called with.
THEOREM TypeCorrect == Spec => []TypeOK
BY TypesFollow, InvariantHolds, PTL

\* What the properties read in the heap is what its layout says.
LEMMA HeapIs ==
  ASSUME NEW B, NEW sz, NEW al, Is(Heap, B, sz, al)
  PROVE  /\ Blocks = B /\ heap_listp = 8 /\ mem = Heap.mem /\ mem_brk = Heap.brk
         /\ \A b \in B : ReadAs(Heap, b, sz[b], al[b])
<1>1. mem = Heap.mem /\ mem_brk = Heap.brk /\ heap_listp = 8 BY DEF Heap, Is
<1>2. Layout(Heap.mem, Heap.brk, B, sz, al) /\ 8 \in B BY DEF Is, Layout, Shaped
<1>3. BlocksFrom(Heap, 8) = B BY ONLY <1>2, BlocksAre
<1>4. Blocks = B BY <1>1, <1>3 DEF Blocks, NULL
<1>5. \A b \in B : ReadAs(Heap, b, sz[b], al[b]) BY ONLY <1>2, Reads
<1> QED BY <1>1, <1>4, <1>5

\* The invariant implies that the heap is consistent.
LEMMA ConsistencyFollows == IInv => HeapConsistent
<1>1. ASSUME IInv, heap_listp # NULL PROVE TagsAgree /\ NoFreeNeighbours /\ RoverOnList
  <2>1. InUse(Heap, held) BY <1>1 DEF IInv, Unused, Heap
  <2>2. PICK B, sz, al : Is(Heap, B, sz, al) BY <2>1 DEF InUse
  <2>3. /\ Blocks = B /\ heap_listp = 8 /\ mem = Heap.mem /\ mem_brk = Heap.brk
        /\ \A b \in B : ReadAs(Heap, b, sz[b], al[b])
    BY <2>2, HeapIs
  <2>4. /\ Layout(mem, mem_brk, B, sz, al) /\ NoFree(B, sz, al) /\ RoverOK(Heap, B) BY <2>2, <2>3 DEF Is
  <2>5. \A b \in B : b \in Int /\ sz[b] \in Int /\ 8 <= sz[b] /\ b + sz[b] <= mem_brk
    BY <2>4 DEF Layout, Shaped
  <2>6. \A b \in B : IsFree(b) <=> al[b] = 0 BY <2>3 DEF IsFree, ReadAs
  <2>7. \A b \in B : NEXT_BLKP(Heap, b) = b + sz[b] BY <2>3 DEF NEXT_BLKP, ReadAs
  <2>8. TagsAgree
    <3>1. mem[HDRP(heap_listp)] = PACK(DSIZE, 1)
      <4>1. 8 \in B /\ sz[8] = 8 /\ al[8] = 1 BY <2>4 DEF Layout, Shaped
      <4>2. mem[8 - 4] = 8 + 1 BY <2>4, <4>1 DEF Layout, TaggedAs
      <4> QED BY <2>3, <4>2 DEF HDRP, PACK, DSIZE, WSIZE
    <3>2. \A b \in B : mem[HDRP(b)] = mem[FTRP(Heap, b)]
      <4>1. \A b \in B : mem[b - 4] = mem[b + sz[b] - 8] BY <2>4 DEF Layout, TaggedAs
      <4> QED BY <2>3, <4>1 DEF ReadAs, HDRP, FTRP, WSIZE, DSIZE
    <3>3. NEXT_BLKP(Heap, Max(B)) = mem_brk
      <4>1. PICK q \in B : q + sz[q] = mem_brk
        <5>1. mem_brk # 8 BY <2>4 DEF Layout, Shaped
        <5> QED BY <2>4, <5>1 DEF Layout, Follows
      <4>2. \A b \in B : q >= b
        <5> SUFFICES ASSUME NEW b \in B, q < b PROVE FALSE BY <2>5
        <5>1. q + sz[q] <= b BY <2>4 DEF Layout, Apart
        <5> QED BY <2>5, <4>1, <5>1
      <4>3. Max(B) = q
        <5>1. Max(B) \in B /\ \A b \in B : Max(B) >= b BY <4>2 DEF Max
        <5> QED BY <2>5, <4>2, <5>1
      <4> QED BY <2>7, <4>1, <4>3
    <3>4. mem[HDRP(mem_brk)] = PACK(0, 1) BY <2>4 DEF Layout, TaggedAs, HDRP, WSIZE, PACK
    <3> QED BY <2>3, <3>1, <3>2, <3>3, <3>4 DEF TagsAgree
  <2>9. NoFreeNeighbours
    <3> SUFFICES ASSUME NEW b \in B, IsFree(b), NEXT_BLKP(Heap, b) # mem_brk PROVE ~IsFree(NEXT_BLKP(Heap, b))
      BY <2>3 DEF NoFreeNeighbours
    <3>1. b + sz[b] \in B BY <2>4, <2>7 DEF Layout, Linked
    <3>2. al[b + sz[b]] = 1 BY <2>4, <2>6, <3>1 DEF NoFree
    <3> QED BY <2>6, <2>7, <3>1, <3>2
  <2>10. RoverOnList BY <2>3, <2>4 DEF RoverOnList, RoverOK, Heap
  <2> QED BY <2>8, <2>9, <2>10
<1> QED BY <1>1 DEF HeapConsistent

\* What mm_checkheap looks for between two calls of any client: the boundary tags
\* agree, coalescing leaves no free neighbours, and the rover of next fit is a
\* block of the list.
THEOREM HeapSound == Spec => []HeapConsistent
BY ConsistencyFollows, InvariantHolds, PTL

\* No block is lost and none is given twice: the allocated blocks are those whose
\* pointers the client still has, each as large as was asked for.
THEOREM NothingLost == Spec => []AllocatedAreHeld
<1>1. ASSUME IInv PROVE AllocatedAreHeld
  <2>1. CASE InUse(Heap, held)
    <3>1. PICK B, sz, al : Is(Heap, B, sz, al) /\ Holds(Heap.mem, B, sz, al, held) BY <2>1 DEF InUse
    <3>2. Blocks = B /\ heap_listp = 8 /\ \A b \in B : ReadAs(Heap, b, sz[b], al[b]) BY <3>1, HeapIs
    <3>3. \A b \in B : IsFree(b) <=> al[b] = 0 BY <3>2 DEF IsFree, ReadAs
    <3>4. \A b \in B : al[b] \in {0, 1} BY <3>1 DEF Is, Layout, Shaped
    <3>5. {bp \in Blocks : ~IsFree(bp)} \ {heap_listp} = Allocd(B, al) BY <3>2, <3>3, <3>4 DEF Allocd
    <3>6. \A b \in Allocd(B, al) : b # NULL BY <3>1, AllocdAre
    <3>7. \A h \in Handles : held[h] # Nothing => held[h].ptr \in Allocd(B, al) BY <3>1 DEF Holds, Backed
    <3>8. \A h \in Handles : held[h].ptr # NULL => held[h].ptr \in Allocd(B, al) BY <3>7 DEF Nothing
    <3>9. Allocd(B, al) = {held[h].ptr : h \in Handles} \ {NULL}
      BY <3>1, <3>6, <3>8 DEF Holds, Backed
    <3>10. ASSUME NEW h \in Handles, held[h] # Nothing
           PROVE  GET_SIZE(Heap, HDRP(held[h].ptr)) >= held[h].size + 2 * WSIZE
      <4>1. sz[held[h].ptr] >= held[h].size + 8 /\ held[h].ptr \in B BY <3>1, <3>10 DEF Holds, Backed, Allocd
      <4>2. GET_SIZE(Heap, HDRP(held[h].ptr)) = sz[held[h].ptr] BY <3>2, <4>1 DEF ReadAs
      <4>3. 2 * WSIZE = 8 BY DEF WSIZE
      <4> QED BY <4>1, <4>2, <4>3
    <3> QED BY <3>5, <3>9, <3>10 DEF AllocatedAreHeld
  <2>2. CASE Unused(Heap, held)
    <3>1. heap_listp = NULL /\ \A h \in Handles : held[h] = Nothing BY <2>2 DEF Unused, Heap
    <3>2. Blocks = {} BY <3>1 DEF Blocks
    <3>3. {held[h].ptr : h \in Handles} \ {NULL} = {} BY <3>1 DEF Nothing
    <3> QED BY <3>1, <3>2, <3>3 DEF AllocatedAreHeld
  <2> QED BY <1>1, <2>1, <2>2 DEF IInv
<1> QED BY <1>1, InvariantHolds, PTL

\* What the client has stored in its blocks stays as it is, through all that the
\* package writes: tags, a new epilogue, and the copies of realloc.
THEOREM MarksStay == Spec => []MarksIntact
<1>1. ASSUME IInv PROVE MarksIntact
  <2>1. CASE InUse(Heap, held)
    <3>1. PICK B, sz, al : Holds(Heap.mem, B, sz, al, held) BY <2>1 DEF InUse
    <3>2. \A h \in Handles : \A p \in Words :
            held[h].ptr <= p /\ p < held[h].ptr + held[h].size => mem[p] = Mark(h)
      BY <3>1 DEF Holds, Marked, Heap
    <3>3. \A h \in Handles : held[h].ptr \in Int BY <3>1 DEF Holds, Backed, Entries
    <3>4. \A p \in Words : p \in Int BY WordsAre
    <3> QED BY <3>2, <3>3, <3>4 DEF MarksIntact
  <2>2. CASE Unused(Heap, held)
    <3>1. \A h \in Handles : held[h].ptr = 0 /\ held[h].size = 0 BY <2>2, Constants DEF Unused
    <3>2. \A p \in Words : p \in Int BY WordsAre
    <3> QED BY <3>1, <3>2 DEF MarksIntact
  <2> QED BY <1>1, <2>1, <2>2 DEF IInv
<1> QED BY <1>1, InvariantHolds, PTL

\* THE THEOREM for the client: through any malloc, free and realloc it holds exactly
\* the allocated blocks, each with room for what it asked, and finds in them what
\* it has stored.
THEOREM ClientServed == Spec => []HeldIntact
<1>1. AllocatedAreHeld /\ MarksIntact => HeldIntact BY DEF HeldIntact
<1> QED BY <1>1, NothingLost, MarksStay, PTL

(***************************************************************************)
(* The refinement: the regions of the abstract allocator are the blocks    *)
(* whose pointers the client holds.                                        *)
(***************************************************************************)
LiveOf(hd) == [p \in {hd[h].ptr : h \in Handles} \ {NULL} |-> hd[CHOOSE h \in Handles : hd[h].ptr = p].size]
Kept(hd) ==
  /\ hd \in [Handles -> Entries]
  /\ \A h \in Handles : hd[h] # Nothing => hd[h].ptr # NULL /\ hd[h].size \in Sizes
  /\ \A g, h \in Handles : g # h /\ hd[g].ptr = hd[h].ptr => hd[g].ptr = NULL

\* No two handles hold one pointer.
LEMMA KeptIs == ASSUME IInv PROVE Kept(held) /\ live = LiveOf(held)
<1>1. live = LiveOf(held) BY DEF live, LiveOf
<1>2. CASE InUse(Heap, held)
  <2>1. PICK B, sz, al : Is(Heap, B, sz, al) /\ Backed(B, sz, al, held) BY <1>2 DEF InUse, Holds
  <2>2. \A b \in Allocd(B, al) : b # NULL BY <2>1, AllocdAre
  <2> QED BY <1>1, <2>1, <2>2 DEF Backed, Kept
<1>3. CASE Unused(Heap, held)
  <2>1. held = [h \in Handles |-> Nothing] BY <1>3 DEF Unused
  <2>2. Nothing \in Entries /\ Nothing.ptr = NULL BY Constants DEF NULL
  <2> QED BY <1>1, <2>1, <2>2 DEF Kept
<1> QED BY <1>2, <1>3 DEF IInv

\* The size of a region is the one its handle remembers.
LEMMA LiveAt ==
  ASSUME NEW hd, Kept(hd)
  PROVE  /\ LiveOf(hd) = [p \in DOMAIN LiveOf(hd) |-> LiveOf(hd)[p]]
         /\ DOMAIN LiveOf(hd) = {hd[h].ptr : h \in Handles} \ {NULL}
         /\ (\A p : p \in DOMAIN LiveOf(hd) <=> p # NULL /\ \E h \in Handles : hd[h].ptr = p)
         /\ \A h \in Handles : hd[h].ptr # NULL => LiveOf(hd)[hd[h].ptr] = hd[h].size
<1>1. DOMAIN LiveOf(hd) = {hd[h].ptr : h \in Handles} \ {NULL} BY DEF LiveOf
<1>2. LiveOf(hd) = [p \in DOMAIN LiveOf(hd) |-> LiveOf(hd)[p]] BY DEF LiveOf
<1>3. ASSUME NEW h \in Handles, hd[h].ptr # NULL PROVE LiveOf(hd)[hd[h].ptr] = hd[h].size
  <2> DEFINE g == CHOOSE i \in Handles : hd[i].ptr = hd[h].ptr
  <2>1. g \in Handles /\ hd[g].ptr = hd[h].ptr OBVIOUS
  <2>2. LiveOf(hd)[hd[h].ptr] = hd[g].size BY <1>3 DEF LiveOf
  <2> HIDE DEF g
  <2>3. g = h BY <1>3, <2>1 DEF Kept
  <2> QED BY <2>2, <2>3
<1>4. \A p : p \in DOMAIN LiveOf(hd) <=> p # NULL /\ \E h \in Handles : hd[h].ptr = p BY <1>1
<1> QED BY <1>1, <1>2, <1>3, <1>4

\* A handle that is emptied takes its region away.
LEMMA LiveFreed ==
  ASSUME NEW hd, Kept(hd), NEW h \in Handles, hd[h] # Nothing, Kept([hd EXCEPT ![h] = Nothing])
  PROVE  /\ hd[h].ptr \in DOMAIN LiveOf(hd)
         /\ LiveOf([hd EXCEPT ![h] = Nothing]) = A!Without(LiveOf(hd), hd[h].ptr)
<1> DEFINE after == [hd EXCEPT ![h] = Nothing]
           old == hd[h].ptr
<1>1. hd \in [Handles -> Entries] BY DEF Kept
<1>2. old # NULL /\ Nothing.ptr = NULL BY DEF Kept, Nothing
<1>3. after[h] = Nothing /\ \A i \in Handles : i # h => after[i] = hd[i] BY <1>1
<1>4. \A i \in Handles : i # h => hd[i].ptr # old BY <1>2 DEF Kept
<1>5. Kept(after) OBVIOUS
<1>o. old = hd[h].ptr OBVIOUS
<1> HIDE DEF after, old
<1>l. /\ \A p : p \in DOMAIN LiveOf(hd) <=> p # NULL /\ \E i \in Handles : hd[i].ptr = p
      /\ \A i \in Handles : hd[i].ptr # NULL => LiveOf(hd)[hd[i].ptr] = hd[i].size
  BY LiveAt
<1>m. /\ \A p : p \in DOMAIN LiveOf(after) <=> p # NULL /\ \E i \in Handles : after[i].ptr = p
      /\ \A i \in Handles : after[i].ptr # NULL => LiveOf(after)[after[i].ptr] = after[i].size
  BY <1>5, LiveAt
<1>6. DOMAIN LiveOf(after) = DOMAIN LiveOf(hd) \ {old}
  <2>1. {after[i].ptr : i \in Handles} \ {NULL} = ({hd[i].ptr : i \in Handles} \ {NULL}) \ {old}
    BY <1>2, <1>3, <1>4, <1>o
  <2> QED BY <1>5, <2>1, LiveAt
<1>7. ASSUME NEW p, p \in DOMAIN LiveOf(after) PROVE LiveOf(after)[p] = LiveOf(hd)[p]
  <2>1. PICK i \in Handles : after[i].ptr = p /\ p # NULL BY <1>7, <1>m
  <2>2. i # h /\ after[i] = hd[i] BY <1>2, <1>3, <2>1
  <2>3. LiveOf(after)[p] = after[i].size BY <1>m, <2>1
  <2>4. LiveOf(hd)[p] = hd[i].size BY <1>l, <2>1, <2>2
  <2> QED BY <2>2, <2>3, <2>4
<1>8. LiveOf(after) = [p \in DOMAIN LiveOf(after) |-> LiveOf(after)[p]] BY <1>5, LiveAt
<1>9. LiveOf(after) = A!Without(LiveOf(hd), old) BY ONLY <1>6, <1>7, <1>8 DEF A!Without
<1>10. old \in DOMAIN LiveOf(hd) BY <1>2, <1>o, <1>l
<1> QED BY <1>9, <1>10 DEF after, old

\* A handle that is given a block trades its region for the new one.
LEMMA LiveMoved ==
  ASSUME NEW hd, Kept(hd), NEW h \in Handles, NEW bp, NEW size, bp # NULL, \A i \in Handles : hd[i].ptr # bp,
         Kept(Moved(hd, h, bp, size))
  PROVE  /\ bp \in DOMAIN LiveOf(Moved(hd, h, bp, size)) \ DOMAIN LiveOf(hd)
         /\ LiveOf(Moved(hd, h, bp, size))[bp] = size
         /\ LiveOf(Moved(hd, h, bp, size)) = A!Without(A!With(LiveOf(hd), bp, size), hd[h].ptr)
         /\ hd[h] = Nothing => LiveOf(Moved(hd, h, bp, size)) = A!With(LiveOf(hd), bp, size)
<1> DEFINE after == Moved(hd, h, bp, size)
           old == hd[h].ptr
           new == A!With(LiveOf(hd), bp, size)
<1>1. hd \in [Handles -> Entries] BY DEF Kept
<1>2. after[h].ptr = bp /\ after[h].size = size /\ \A i \in Handles : i # h => after[i] = hd[i] BY <1>1 DEF Moved
<1>3. old # NULL => \A i \in Handles : i # h => hd[i].ptr # old BY DEF Kept
<1>4. old # bp OBVIOUS
<1>5. Kept(after) OBVIOUS
<1>o. old = hd[h].ptr OBVIOUS
<1> HIDE DEF after, old
<1>l. /\ \A p : p \in DOMAIN LiveOf(hd) <=> p # NULL /\ \E i \in Handles : hd[i].ptr = p
      /\ \A i \in Handles : hd[i].ptr # NULL => LiveOf(hd)[hd[i].ptr] = hd[i].size
  BY LiveAt
<1>m. /\ \A p : p \in DOMAIN LiveOf(after) <=> p # NULL /\ \E i \in Handles : after[i].ptr = p
      /\ \A i \in Handles : after[i].ptr # NULL => LiveOf(after)[after[i].ptr] = after[i].size
  BY <1>5, LiveAt
<1>6. DOMAIN LiveOf(after) = (DOMAIN LiveOf(hd) \ {old}) \cup {bp}
  <2>1. {after[i].ptr : i \in Handles} \ {NULL} = (({hd[i].ptr : i \in Handles} \ {NULL}) \ {old}) \cup {bp}
    <3>1. ASSUME NEW p, p \in {after[i].ptr : i \in Handles} \ {NULL}, p # bp
          PROVE  p \in ({hd[i].ptr : i \in Handles} \ {NULL}) \ {old}
      <4>1. PICK i \in Handles : after[i].ptr = p BY <3>1
      <4>2. i # h /\ hd[i].ptr = p BY <1>2, <3>1, <4>1
      <4>3. p # old BY <1>3, <3>1, <4>2
      <4> QED BY <3>1, <4>2, <4>3
    <3>2. ASSUME NEW p, p \in ({hd[i].ptr : i \in Handles} \ {NULL}) \ {old}
          PROVE  p \in {after[i].ptr : i \in Handles} \ {NULL}
      <4>1. PICK i \in Handles : hd[i].ptr = p BY <3>2
      <4>2. i # h BY <1>o, <3>2, <4>1
      <4>3. after[i].ptr = p BY <1>2, <4>1, <4>2
      <4> QED BY <3>2, <4>3
    <3>3. bp \in {after[i].ptr : i \in Handles} \ {NULL} BY <1>2
    <3> QED BY <3>1, <3>2, <3>3
  <2> QED BY <1>5, <2>1, LiveAt
<1>7. LiveOf(after)[bp] = size BY <1>2, <1>m
<1>8. bp \notin DOMAIN LiveOf(hd) BY <1>l
<1>9. ASSUME NEW p, p \in DOMAIN LiveOf(after) PROVE LiveOf(after)[p] = IF p = bp THEN size ELSE LiveOf(hd)[p]
  <2>1. CASE p = bp BY <1>7, <2>1
  <2>2. CASE p # bp
    <3>1. PICK i \in Handles : after[i].ptr = p /\ p # NULL BY <1>9, <1>m
    <3>2. i # h /\ after[i] = hd[i] BY <1>2, <2>2, <3>1
    <3>3. LiveOf(after)[p] = after[i].size BY <1>m, <3>1
    <3>4. LiveOf(hd)[p] = hd[i].size BY <1>l, <3>1, <3>2
    <3> QED BY <2>2, <3>2, <3>3, <3>4
  <2> QED BY <2>1, <2>2
<1>10. LiveOf(after) = [p \in DOMAIN LiveOf(after) |-> LiveOf(after)[p]] BY <1>5, LiveAt
<1>11. DOMAIN new = DOMAIN LiveOf(hd) \cup {bp}
       /\ \A p \in DOMAIN new : new[p] = IF p = bp THEN size ELSE LiveOf(hd)[p]
  BY DEF A!With
<1>w. new = [p \in DOMAIN LiveOf(hd) \cup {bp} |-> IF p = bp THEN size ELSE LiveOf(hd)[p]] BY DEF A!With
<1> HIDE DEF new
<1>12. LiveOf(after) = A!Without(new, old)
  <2>1. DOMAIN new \ {old} = DOMAIN LiveOf(after) BY <1>4, <1>6, <1>11
  <2>2. \A p \in DOMAIN LiveOf(after) : LiveOf(after)[p] = new[p] BY <1>9, <1>11, <2>1
  <2> QED BY ONLY <1>10, <2>1, <2>2 DEF A!Without
<1>13. hd[h] = Nothing => LiveOf(after) = new
  <2> SUFFICES ASSUME hd[h] = Nothing PROVE LiveOf(after) = new OBVIOUS
  <2>1. old = NULL BY <1>o DEF Nothing
  <2>2. old \notin DOMAIN LiveOf(hd) BY <1>l, <2>1
  <2>3. DOMAIN LiveOf(after) = DOMAIN LiveOf(hd) \cup {bp} BY <1>6, <2>2
  <2> QED BY ONLY <1>9, <1>10, <1>w, <2>3
<1> QED BY <1>6, <1>7, <1>8, <1>12, <1>13 DEF after, old, new

\* The abstract allocator has room where a block is taken.
LEMMA RoomAt ==
  ASSUME NEW hd, Kept(hd), NEW bp, NEW size \in Sizes, Fits(hd, bp, size)
  PROVE  size > 0 /\ A!Room(LiveOf(hd), bp, size)
<1>1. size \in Nat /\ size > 0 /\ MAX_HEAP \in Nat
  <2>1. \A t \in Sizes : t \in Nat /\ t # 0 BY ONLY Constants
  <2> QED BY <2>1, MMAssumption
<1>2. bp \in Int /\ bp % 8 = 0 /\ 0 <= bp /\ bp + size <= MAX_HEAP BY DEF Fits
<1>3. A!Region(bp, size) \subseteq 0..MAX_HEAP - 1 BY <1>1, <1>2 DEF A!Region
<1>l. /\ \A p : p \in DOMAIN LiveOf(hd) <=> p # NULL /\ \E i \in Handles : hd[i].ptr = p
      /\ \A i \in Handles : hd[i].ptr # NULL => LiveOf(hd)[hd[i].ptr] = hd[i].size
  BY LiveAt
<1>4. ASSUME NEW b \in DOMAIN LiveOf(hd) PROVE A!Region(bp, size) \cap A!Region(b, LiveOf(hd)[b]) = {}
  <2>1. PICK i \in Handles : hd[i].ptr = b /\ b # NULL BY <1>l, <1>4
  <2> DEFINE n == hd[i].size
  <2>2. LiveOf(hd)[b] = n BY <1>l, <2>1
  <2>3. hd[i] # Nothing BY <2>1 DEF Nothing
  <2>4. b + n <= bp \/ bp + size <= b BY <2>1, <2>3 DEF Fits
  <2>5. b \in Int BY <2>1 DEF Kept, Entries
  <2>6. n \in Int
    <3>1. n \in Sizes BY <2>3 DEF Kept
    <3>2. \A t \in Sizes : t \in Int BY ONLY Constants
    <3> QED BY ONLY <3>1, <3>2
  <2> HIDE DEF n
  <2>7. (bp..bp + size - 1) \cap (b..b + n - 1) = {} BY ONLY <1>1, <1>2, <2>4, <2>5, <2>6
  <2> QED BY <2>2, <2>7 DEF A!Region
<1> QED BY <1>1, <1>2, <1>3, <1>4 DEF A!Room

\* At first the client has no region.
LEMMA AbstractInit == Init => A!Init
<1> SUFFICES ASSUME Init PROVE live = [a \in {} |-> 0] BY DEF A!Init
<1>1. \A h \in Handles : held[h].ptr = NULL BY DEF Init, Nothing
<1>2. {held[h].ptr : h \in Handles} \ {NULL} = {} BY <1>1
<1> QED BY <1>2 DEF live

\* Every call of the package is one of the abstract allocator's.
LEMMA AbstractStep == IInv /\ [Next]_vars => [A!Next]_live
<1> SUFFICES ASSUME IInv, [Next]_vars PROVE A!Next \/ live' = live OBVIOUS
<1>1. IInv' /\ HeldStep BY StepInv
<1>2. Kept(held) /\ live = LiveOf(held) BY KeptIs
<1>3. Kept(held') /\ live' = LiveOf(held')
  <2>1. (IInv => Kept(held) /\ live = LiveOf(held))' BY KeptIs, PTL
  <2> QED BY <1>1, <2>1
<1>4. CASE held' = held BY <1>2, <1>3, <1>4
<1>5. ASSUME NEW h \in Handles, held[h] # Nothing, held' = [held EXCEPT ![h] = Nothing] PROVE A!Next
  <2>1. held[h].ptr \in DOMAIN live /\ live' = A!Without(live, held[h].ptr) BY <1>2, <1>3, <1>5, LiveFreed
  <2> QED BY <2>1 DEF A!Next, A!Free
<1>6. ASSUME NEW h \in Handles, NEW size \in Sizes, NEW bp, bp # NULL, \A i \in Handles : held[i].ptr # bp,
             Fits(held, bp, size), held' = Moved(held, h, bp, size)
      PROVE  A!Next
  <2>1. /\ bp \in DOMAIN live' \ DOMAIN live /\ live'[bp] = size
        /\ live' = A!Without(A!With(live, bp, size), held[h].ptr)
        /\ held[h] = Nothing => live' = A!With(live, bp, size)
    BY <1>2, <1>3, <1>6, LiveMoved
  <2>2. size > 0 /\ A!Room(live, bp, size) BY <1>2, <1>6, RoomAt
  <2>3. CASE held[h] = Nothing BY <2>1, <2>2, <2>3 DEF A!Next, A!Malloc
  <2>4. CASE held[h] # Nothing
    <3>1. held[h].ptr \in DOMAIN live
      <4>1. held[h].ptr # NULL BY <1>2, <2>4 DEF Kept
      <4> QED BY <1>2, <4>1, LiveAt
    <3> QED BY <2>1, <2>2, <3>1 DEF A!Next, A!Realloc
  <2> QED BY <2>3, <2>4
<1> QED BY <1>1, <1>4, <1>5, <1>6 DEF HeldStep

\* The package implements the abstract allocator: a call takes a region apart from
\* all others, aligned and within the heap, gives one back, or does both.
THEOREM AllocatorImplemented == Spec => ImplementsAllocator
BY AbstractInit, AbstractStep, InvariantHolds, PTL DEF Spec, ImplementsAllocator, A!Spec
=============================================================================
