------------------------------ MODULE HeapProofs ------------------------------
(***************************************************************************)
(* What holds of MemoryManager and of HeapInterrupts for every size of the *)
(* heap, of the headers and of the requests: the chunk list stays a tiling *)
(* without free neighbours and the callers get blocks of their own; with   *)
(* handlers between the steps of the main loop's calls the chunks tile the *)
(* heap, two free ones are neighbours only where a call is at work, a      *)
(* handler that frees what it took leaves no trace, and the promise is     *)
(* kept, to the main loop and to every handler, while nothing is disturbed.*)
(***************************************************************************)
EXTENDS HeapInterrupts, TLAPS, WellFoundedInduction

(* What HeapAssumption says, part by part.                                 *)
LEMMA Sizes ==
    /\ HeapSize \in Nat /\ HeaderSize \in Nat /\ HeaderSize > 0
    /\ HeaderSize <= HeapSize
    /\ Requests \subseteq Nat
BY HeapAssumption

-----------------------------------------------------------------------------
(* The invariant, of any set of headers.  No chunk begins inside another,  *)
(* the links back are the links forward reversed, and of two neighbours    *)
(* one is in use.                                                          *)

Headers(D) ==
    [next : D \cup {Null}, prev : D \cup {Null}, allocated : BOOLEAN, size : Nat]

EndOf(h, c) == c + HeaderSize + h[c].size

Typed(h) ==
    /\ h \in [DOMAIN h -> Headers(DOMAIN h)]
    /\ DOMAIN h \subseteq 0 .. HeapSize - HeaderSize
    /\ 0 \in DOMAIN h

Forward(h) ==
    \A c \in DOMAIN h :
        IF h[c].next = Null THEN EndOf(h, c) = HeapSize
        ELSE h[c].next = EndOf(h, c) /\ h[h[c].next].prev = c

Back(h) ==
    \A c \in DOMAIN h :
        /\ h[c].prev = Null <=> c = 0
        /\ h[c].prev # Null => h[h[c].prev].next = c

Apart(h) == \A c, d \in DOMAIN h : c < d => EndOf(h, c) <= d

Chain(h) == Typed(h) /\ Forward(h) /\ Back(h) /\ Apart(h)

(* Two free neighbours.                                                    *)
FreePair(h, c) ==
    h[c].next # Null /\ ~ h[c].allocated /\ ~ h[h[c].next].allocated

Parted(h) == \A c \in DOMAIN h : ~ FreePair(h, c)

(* Each block of a caller is in an allocated chunk of its own.             *)
Housed(h, blocks) ==
    /\ \A b \in blocks :
          /\ b \in [start : Nat, size : Requests]
          /\ b.start - HeaderSize \in DOMAIN h
          /\ h[b.start - HeaderSize].allocated
          /\ b.size <= h[b.start - HeaderSize].size
    /\ \A b, c \in blocks : b.start = c.start => b = c

HeapInv == Chain(chunk) /\ Parted(chunk) /\ Housed(chunk, live)

(* The constructor's single chunk is a heap in order.                      *)
LEMMA InitHeap == Init => HeapInv
<1> SUFFICES ASSUME Init PROVE HeapInv
  OBVIOUS
<1>1. DOMAIN chunk = {0} /\ chunk[0] = Header(Null, Null, FALSE, HeapSize - HeaderSize)
  BY DEF Init
<1>2. HeapSize - HeaderSize \in Nat
  BY Sizes
<1>3. chunk \in [{0} -> Headers({0})]
  BY <1>1, <1>2 DEF Init, Header, Headers
<1>4. Chain(chunk)
  BY <1>1, <1>2, <1>3, Sizes
     DEF Chain, Typed, Forward, Back, Apart, EndOf, Header, Null
<1>5. Parted(chunk) /\ Housed(chunk, live)
  BY <1>1 DEF Parted, FreePair, Housed, Header, Init
<1> QED BY <1>4, <1>5 DEF HeapInv

(* It says what MemoryManager says of the list.                            *)
LEMMA ChainTiles ==
    ASSUME Chain(chunk), Housed(chunk, live)
    PROVE  TypeOK /\ Tiled
<1>1. /\ \A c \in DOMAIN chunk : chunk[c] \in Headers(DOMAIN chunk)
      /\ DOMAIN chunk \subseteq 0 .. HeapSize - HeaderSize /\ 0 \in DOMAIN chunk
  BY DEF Chain, Typed
<1>2. TypeOK
  BY <1>1 DEF TypeOK, Housed, Headers
<1>3. Tiled
  BY <1>1 DEF Tiled, Chain, Forward, Back, EndOf, End
<1> QED BY <1>2, <1>3

LEMMA HeapInvImplies == HeapInv => HeapInOrder
<1> SUFFICES ASSUME HeapInv PROVE HeapInOrder
  OBVIOUS
<1>1. TypeOK /\ Tiled
  BY ChainTiles DEF HeapInv
<1>2. Coalesced
  BY DEF Coalesced, HeapInv, Parted, FreePair
<1> QED BY <1>1, <1>2 DEF HeapInOrder

(* What each chunk of a chain is.                                          *)
LEMMA ChainFacts ==
    ASSUME NEW h, Chain(h), NEW c \in DOMAIN h
    PROVE  /\ c \in Nat /\ h[c].size \in Nat /\ h[c].allocated \in BOOLEAN
           /\ h[c].next \in DOMAIN h \cup {Null}
           /\ h[c].prev \in DOMAIN h \cup {Null}
           /\ h[c] = Header(h[c].next, h[c].prev, h[c].allocated, h[c].size)
           /\ EndOf(h, c) \in Nat /\ EndOf(h, c) <= HeapSize /\ c < EndOf(h, c)
           /\ c <= HeapSize - HeaderSize
           /\ h[c].next # Null => h[c].next = EndOf(h, c)
           /\ h[c].next = Null => \A d \in DOMAIN h : d <= c
           /\ \A d \in DOMAIN h : d > c => h[c].next # Null /\ h[c].next <= d
<1>1. /\ h[c] \in Headers(DOMAIN h)
      /\ DOMAIN h \subseteq 0 .. HeapSize - HeaderSize
  BY DEF Chain, Typed
<1>2. /\ c \in Nat /\ h[c].size \in Nat /\ h[c].allocated \in BOOLEAN
      /\ h[c].next \in DOMAIN h \cup {Null} /\ h[c].prev \in DOMAIN h \cup {Null}
      /\ h[c] = Header(h[c].next, h[c].prev, h[c].allocated, h[c].size)
      /\ c <= HeapSize - HeaderSize
  BY <1>1, Sizes DEF Headers, Header
<1>3. /\ h[c].next = Null => EndOf(h, c) = HeapSize
      /\ h[c].next # Null => h[c].next = EndOf(h, c)
  BY DEF Chain, Forward
<1>4. EndOf(h, c) \in Nat /\ c < EndOf(h, c)
  BY <1>2, Sizes DEF EndOf
<1>5. EndOf(h, c) <= HeapSize
  BY <1>1, <1>2, <1>3, <1>4, Sizes
<1>6. ASSUME NEW d \in DOMAIN h, d > c
      PROVE  h[c].next # Null /\ h[c].next <= d
  <2>1. EndOf(h, c) <= d
    BY <1>6 DEF Chain, Apart
  <2>2. d < HeapSize /\ d \in Nat
    BY <1>1, Sizes
  <2> QED BY <1>3, <1>4, <2>1, <2>2, Sizes
<1>7. \A d \in DOMAIN h : d \in Nat
  BY <1>1, Sizes
<1> QED BY <1>2, <1>3, <1>4, <1>5, <1>6, <1>7

-----------------------------------------------------------------------------
(* The search.  The recursive function of Search exists, since along the   *)
(* list it is the least address that fits; and whatever it is, it returns  *)
(* a chunk that fits: a counterexample with the greatest address has a     *)
(* successor that is one too.                                              *)
Below == OpToRel(<, Nat)

(* A set of numbers that is not empty has a least one.                     *)
LEMMA LeastExists ==
    ASSUME NEW S \in SUBSET Nat, S # {}
    PROVE  \E m \in S : \A n \in S : m <= n
<1>1. IsWellFoundedOn(Below, Nat)
  BY NatLessThanWellFounded, Zenon DEF Below
<1>2. PICK m \in S : \A n \in S : ~ (<<n, m>> \in Below)
  BY <1>1, WFMin, Zenon
<1>3. \A n \in S : m <= n
  <2> TAKE n \in S
  <2>1. m \in Nat /\ n \in Nat
    OBVIOUS
  <2>2. n < m => <<n, m>> \in Below
    BY <2>1, Zenon DEF Below, OpToRel
  <2> QED BY <1>2, <2>1, <2>2
<1> QED BY <1>3

Places == DOMAIN chunk \cup {Null}

IsSearch(f, size) ==
    f = [c \in Places |->
            CASE c = Null -> Null
              [] c # Null /\ Fits(c, size) -> c
              [] OTHER -> f[chunk[c].next]]

Later(c, size) == {d \in DOMAIN chunk : c <= d /\ Fits(d, size)}

FirstLater(c, size) ==
    IF c = Null \/ Later(c, size) = {} THEN Null
    ELSE CHOOSE m \in Later(c, size) : \A n \in Later(c, size) : m <= n

(* The function that Search defines by recursion exists.                   *)
LEMMA SearchExists ==
    ASSUME Chain(chunk), NEW size
    PROVE  \E f : IsSearch(f, size)
<1> DEFINE f == [c \in Places |-> FirstLater(c, size)]
<1>1. ASSUME NEW c \in Places
      PROVE  f[c] = CASE c = Null -> Null
                      [] c # Null /\ Fits(c, size) -> c
                      [] OTHER -> f[chunk[c].next]
  <2>1. CASE c = Null
    BY <2>1 DEF FirstLater
  <2>2. CASE c # Null /\ Fits(c, size)
    <3>1. c \in DOMAIN chunk /\ c \in Nat /\ \A d \in DOMAIN chunk : d \in Nat
      BY <2>2, ChainFacts DEF Places
    <3>2. c \in Later(c, size) /\ \A n \in Later(c, size) : n \in Nat /\ c <= n
      BY <2>2, <3>1 DEF Later
    <3>3. \A m \in Later(c, size) :
             (\A n \in Later(c, size) : m <= n) => m = c
      BY <3>1, <3>2
    <3>4. (CHOOSE m \in Later(c, size) : \A n \in Later(c, size) : m <= n) = c
      BY <3>2, <3>3
    <3> QED BY <2>2, <3>2, <3>4 DEF FirstLater
  <2>3. CASE c # Null /\ ~ Fits(c, size)
    <3> DEFINE n == chunk[c].next
    <3>1. c \in DOMAIN chunk /\ c \in Nat /\ n \in Places
      BY <2>3, ChainFacts DEF Places
    <3>2. \A d \in DOMAIN chunk : d \in Nat
      BY ChainFacts
    <3>3. CASE n = Null
      <4>1. \A d \in DOMAIN chunk : d <= c
        BY <3>1, <3>3, ChainFacts
      <4>2. Later(c, size) = {}
        BY <2>3, <3>1, <3>2, <4>1 DEF Later
      <4>3. f[c] = Null /\ f[n] = Null
        BY <3>1, <3>3, <4>2 DEF FirstLater
      <4> QED BY <2>3, <4>3
    <3>4. CASE n # Null
      <4>1. n \in DOMAIN chunk /\ n > c
        BY <3>1, <3>4, ChainFacts DEF Places
      <4>2. \A d \in DOMAIN chunk : d > c => n <= d
        BY <3>1, ChainFacts
      <4>3. \A d \in DOMAIN chunk :
               (c <= d /\ Fits(d, size)) <=> (n <= d /\ Fits(d, size))
        BY <2>3, <3>1, <3>2, <4>1, <4>2
      <4>4. Later(c, size) = Later(n, size)
        BY <4>3 DEF Later
      <4>5. f[c] = f[n]
        BY <2>3, <3>1, <3>4, <4>4 DEF FirstLater
      <4> QED BY <2>3, <4>5
    <3> QED BY <3>3, <3>4
  <2> QED BY <2>1, <2>2, <2>3
<1>2. f = [c \in Places |->
             CASE c = Null -> Null
               [] c # Null /\ Fits(c, size) -> c
               [] OTHER -> f[chunk[c].next]]
  BY <1>1, Zenon
<1>3. IsSearch(f, size)
  BY <1>2 DEF IsSearch
<1> QED BY <1>3

(* The search gives up, or returns a chunk that fits.                      *)
LEMMA SearchFits ==
    ASSUME Chain(chunk), NEW size
    PROVE  \/ Search(size) = Null
           \/ Search(size) \in DOMAIN chunk /\ Fits(Search(size), size)
<1> DEFINE f == CHOOSE g : IsSearch(g, size)
           Good(v) == v = Null \/ (v \in DOMAIN chunk /\ Fits(v, size))
           Bad == {c \in DOMAIN chunk : ~ Good(f[c])}
<1>1. Search(size) = f[0]
  BY Zenon DEF Search, IsSearch, Places
<1>2. IsSearch(f, size)
  BY SearchExists
<1> HIDE DEF f
<1>3. \A c \in Places :
         f[c] = CASE c = Null -> Null
                  [] c # Null /\ Fits(c, size) -> c
                  [] OTHER -> f[chunk[c].next]
  BY <1>2, Zenon DEF IsSearch
<1>4. Good(f[Null])
  BY <1>3 DEF Places
<1>5. Bad = {}
  <2> SUFFICES ASSUME Bad # {} PROVE FALSE
    OBVIOUS
  <2> DEFINE Depths == {HeapSize - c : c \in Bad}
  <2>1. \A c \in DOMAIN chunk : c \in Nat /\ HeapSize - c \in Nat
    <3> TAKE c \in DOMAIN chunk
    <3>1. c \in Nat /\ c <= HeapSize - HeaderSize
      BY ChainFacts
    <3> QED BY <3>1, Sizes
  <2>2. Depths \in SUBSET Nat /\ Depths # {}
    BY <2>1
  <2> HIDE DEF Depths
  <2>3. PICK m \in Depths : \A n \in Depths : m <= n
    BY <2>2, LeastExists
  <2>4. PICK c \in Bad : m = HeapSize - c
    BY DEF Depths
  <2>5. \A d \in Bad : d <= c
    <3> TAKE d \in Bad
    <3>1. HeapSize - d \in Depths
      BY DEF Depths
    <3>2. m <= HeapSize - d
      BY <2>3, <3>1
    <3> QED BY <2>1, <2>4, <3>2, Sizes
  <2>6. c \in DOMAIN chunk /\ c # Null /\ ~ Good(f[c])
    BY <2>1, <2>4 DEF Null
  <2>7. f[c] = f[chunk[c].next] /\ ~ Fits(c, size)
    BY <1>3, <2>6 DEF Places
  <2>8. chunk[c].next \in DOMAIN chunk /\ chunk[c].next > c
    BY <1>4, <2>6, <2>7, ChainFacts
  <2>9. chunk[c].next \in Bad
    BY <2>6, <2>7, <2>8
  <2> QED BY <2>1, <2>5, <2>6, <2>8, <2>9
<1>6. 0 \in DOMAIN chunk
  BY DEF Chain, Typed
<1>7. Good(f[0])
  BY <1>5, <1>6
<1> QED BY <1>1, <1>7

-----------------------------------------------------------------------------
(* A chunk is taken or given back.                                         *)
LEMMA MarkKeepsChain ==
    ASSUME NEW h, Chain(h), NEW c \in DOMAIN h, NEW b \in BOOLEAN
    PROVE  LET k == [h EXCEPT ![c].allocated = b] IN
           /\ Chain(k) /\ DOMAIN k = DOMAIN h
           /\ \A d \in DOMAIN h :
                 /\ k[d].next = h[d].next /\ k[d].prev = h[d].prev
                 /\ k[d].size = h[d].size
                 /\ k[d].allocated = IF d = c THEN b ELSE h[d].allocated
<1> DEFINE k == [h EXCEPT ![c].allocated = b]
           D == DOMAIN h
<1>1. h \in [D -> Headers(D)]
  BY DEF Chain, Typed
<1>2. /\ k \in [D -> Headers(D)] /\ DOMAIN k = D
      /\ \A d \in D :
            /\ k[d].next = h[d].next /\ k[d].prev = h[d].prev
            /\ k[d].size = h[d].size
            /\ k[d].allocated = IF d = c THEN b ELSE h[d].allocated
  BY <1>1 DEF Headers
<1> HIDE DEF k
<1>3. Typed(k)
  BY <1>2 DEF Chain, Typed
<1>4. \A d \in D : h[d].next \in D \cup {Null} /\ h[d].prev \in D \cup {Null}
  BY ChainFacts
<1>5. Forward(k) /\ Back(k) /\ Apart(k)
  BY <1>2, <1>4 DEF Chain, Forward, Back, Apart, EndOf
<1>6. Chain(k)
  BY <1>3, <1>5 DEF Chain
<1> QED BY <1>2, <1>6 DEF k

(* The rest of a chunk becomes a chunk of its own.                         *)
LEMMA SplitKeepsChain ==
    ASSUME Chain(chunk), NEW r \in DOMAIN chunk, NEW size \in Nat,
           HasRest(r, size), NEW s, s = Split(r, size)
    PROVE  \E t :
           /\ Chain(s) /\ DOMAIN s = DOMAIN chunk \cup {t} /\ t \notin DOMAIN chunk
           /\ s[t].next = chunk[r].next /\ ~ s[t].allocated
           /\ s[r].size = size /\ s[r].next = t
           /\ \A d \in DOMAIN chunk :
                 /\ s[d].allocated = chunk[d].allocated
                 /\ d # r => s[d].size = chunk[d].size /\ s[d].next = chunk[d].next
<1> DEFINE D == DOMAIN chunk
           t == r + HeaderSize + size
           E == D \cup {t}
           n == chunk[r].next
           rest == Header(n, r, FALSE, chunk[r].size - size - HeaderSize)
           grown == [c \in D \cup {t} |->
                        CASE c = t -> rest
                          [] c = r -> [chunk[r] EXCEPT !.size = size, !.next = t]
                          [] OTHER -> chunk[c]]
           k == Split(r, size)
<1>1. /\ r \in Nat /\ t \in Nat /\ r < t /\ t < EndOf(chunk, r)
      /\ t <= HeapSize - HeaderSize
      /\ chunk[r].size - size - HeaderSize \in Nat
      /\ t + HeaderSize + (chunk[r].size - size - HeaderSize) = EndOf(chunk, r)
  BY ChainFacts, Sizes DEF HasRest, EndOf
<1>2. \A d \in D : d <= r \/ EndOf(chunk, r) <= d
  <2>1. \A d \in D : r < d => EndOf(chunk, r) <= d
    BY DEF Chain, Apart
  <2>2. \A d \in D : d \in Nat
    BY ChainFacts
  <2> QED BY <1>1, <2>1, <2>2
<1>3. t \notin D
  <2>1. EndOf(chunk, r) \in Nat
    BY ChainFacts
  <2> QED BY <1>1, <1>2, <2>1
<1>4. /\ n \in D \cup {Null} /\ n # r /\ n # t
      /\ n # Null => n = EndOf(chunk, r) /\ chunk[n].prev = r
  <2>1. n \in D \cup {Null} /\ (n # Null => n = EndOf(chunk, r) /\ r < EndOf(chunk, r))
    BY ChainFacts
  <2>2. n # Null => chunk[n].prev = r
    BY DEF Chain, Forward
  <2> QED BY <1>1, <1>3, <2>1, <2>2 DEF Null
<1>5. chunk \in [D -> Headers(D)] /\ \A c \in D : chunk[c] \in Headers(D)
  BY DEF Chain, Typed
<1>6. /\ grown \in [E -> Headers(E)]
      /\ grown[t] = rest
      /\ grown[r].next = t /\ grown[r].size = size
      /\ grown[r].prev = chunk[r].prev /\ grown[r].allocated = chunk[r].allocated
      /\ \A d \in D \ {r} : grown[d] = chunk[d]
  <2>1. /\ rest \in Headers(E)
        /\ [chunk[r] EXCEPT !.size = size, !.next = t] \in Headers(E)
    BY <1>1, <1>4, <1>5 DEF Headers, Header
  <2>2. Headers(D) \subseteq Headers(E)
    BY DEF Headers
  <2> QED BY <1>3, <1>5, <2>1, <2>2 DEF Headers
<1>7. k = Link(grown, n, "prev", t)
  BY DEF Split, Header
<1> HIDE DEF grown
<1>8. /\ k \in [E -> Headers(E)] /\ DOMAIN k = E
      /\ \A d \in E :
            /\ k[d].next = grown[d].next /\ k[d].allocated = grown[d].allocated
            /\ k[d].size = grown[d].size
            /\ k[d].prev = IF d = n THEN t ELSE grown[d].prev
  <2> HIDE DEF k, t, n
  <2>1. CASE n = Null
    <3>1. k = grown
      BY <1>7, <2>1 DEF Link
    <3>2. \A d \in D : d \in Nat
      BY ChainFacts
    <3>3. n \notin E
      BY <1>1, <2>1, <3>2 DEF Null
    <3> QED BY <1>6, <3>1, <3>3
  <2>2. CASE n # Null
    <3>1. k = [grown EXCEPT ![n]["prev"] = t] /\ n \in E
      BY <1>4, <1>7, <2>2 DEF Link
    <3>2. t \in E
      OBVIOUS
    <3> QED BY <1>6, <3>1, <3>2 DEF Headers
  <2> QED BY <2>1, <2>2
<1> HIDE DEF k
<1>9. /\ k[t].next = n /\ ~ k[t].allocated /\ k[t].prev = r
      /\ k[t].size = chunk[r].size - size - HeaderSize
      /\ k[r].next = t /\ k[r].size = size
      /\ \A d \in D :
            /\ k[d].allocated = chunk[d].allocated
            /\ k[d].prev = IF d = n THEN t ELSE chunk[d].prev
            /\ d # r => k[d].size = chunk[d].size /\ k[d].next = chunk[d].next
  BY <1>3, <1>4, <1>6, <1>8 DEF Header
<1>10. Typed(k)
  <2>1. D \subseteq 0 .. HeapSize - HeaderSize /\ 0 \in D
    BY DEF Chain, Typed
  <2>2. t \in 0 .. HeapSize - HeaderSize
    BY <1>1, Sizes
  <2> HIDE DEF t
  <2> QED BY ONLY <1>8, <2>1, <2>2 DEF Typed
<1>11. /\ EndOf(k, t) = EndOf(chunk, r) /\ EndOf(k, r) = t
       /\ \A d \in D : d # r => EndOf(k, d) = EndOf(chunk, d)
  BY <1>1, <1>9 DEF EndOf
<1>12. \A d \in D : /\ chunk[d].next \in D \cup {Null} /\ chunk[d].prev \in D \cup {Null}
                    /\ d \in Nat /\ EndOf(chunk, d) \in Nat
  BY ChainFacts
<1>13. \A d \in D : d # r => chunk[d].next = Null \/ chunk[d].next # n
  BY <1>4 DEF Chain, Forward
<1>14. Forward(k)
  <2>1. ASSUME NEW c \in D, c # r
        PROVE  IF k[c].next = Null THEN EndOf(k, c) = HeapSize
               ELSE k[c].next = EndOf(k, c) /\ k[k[c].next].prev = c
    <3>1. IF chunk[c].next = Null THEN EndOf(chunk, c) = HeapSize
          ELSE chunk[c].next = EndOf(chunk, c) /\ chunk[chunk[c].next].prev = c
      BY DEF Chain, Forward
    <3> QED BY <1>9, <1>11, <1>12, <1>13, <2>1, <3>1
  <2>2. IF k[t].next = Null THEN EndOf(k, t) = HeapSize
        ELSE k[t].next = EndOf(k, t) /\ k[k[t].next].prev = t
    <3>1. IF chunk[r].next = Null THEN EndOf(chunk, r) = HeapSize
          ELSE chunk[r].next = EndOf(chunk, r)
      BY DEF Chain, Forward
    <3> HIDE DEF t
    <3> QED BY <1>4, <1>9, <1>11, <3>1
  <2>3. k[r].next = EndOf(k, r) /\ k[k[r].next].prev = r /\ k[r].next # Null
    BY <1>1, <1>9, <1>11 DEF Null
  <2> QED BY <1>8, <2>1, <2>2, <2>3 DEF Forward
<1>15. Back(k)
  <2>1. ASSUME NEW c \in D, c # n
        PROVE  /\ k[c].prev = Null <=> c = 0
               /\ k[c].prev # Null => k[k[c].prev].next = c
    <3>1. /\ chunk[c].prev = Null <=> c = 0
          /\ chunk[c].prev # Null => chunk[chunk[c].prev].next = c
      BY DEF Chain, Back
    <3> QED BY <1>9, <1>12, <2>1, <3>1
  <2>2. n # Null => k[n].prev = t /\ k[t].next = n /\ n # 0 /\ t # Null
    BY <1>1, <1>4, <1>9 DEF Null
  <2>3. k[t].prev = r /\ k[r].next = t /\ t # 0 /\ r # Null
    BY <1>1, <1>9 DEF Null
  <2> HIDE DEF t, n
  <2>4. ASSUME NEW c \in E
        PROVE  /\ k[c].prev = Null <=> c = 0
               /\ k[c].prev # Null => k[k[c].prev].next = c
    <3>1. CASE c = t
      BY <2>3, <3>1
    <3>2. CASE c = n
      <4>1. n # Null
        BY <1>1, <1>12, <3>2 DEF Null
      <4> QED BY <2>2, <3>2, <4>1
    <3>3. CASE c # t /\ c # n
      BY <2>1, <3>3
    <3> QED BY <3>1, <3>2, <3>3
  <2> QED BY <1>8, <2>4 DEF Back
<1>16. Apart(k)
  <2> SUFFICES ASSUME NEW c \in E, NEW d \in E, c < d PROVE EndOf(k, c) <= d
    BY <1>8 DEF Apart
  <2>1. \A a, b \in D : a < b => EndOf(chunk, a) <= b
    BY DEF Chain, Apart
  <2>2. EndOf(chunk, r) \in Nat
    BY <1>12
  <2>3. CASE c = r
    BY <1>1, <1>2, <1>11, <1>12, <2>2, <2>3
  <2>4. CASE c = t
    BY <1>1, <1>2, <1>11, <1>12, <2>2, <2>4
  <2>5. CASE c \in D /\ c # r
    <3>1. EndOf(k, c) = EndOf(chunk, c)
      BY <1>11, <2>5
    <3>2. CASE d \in D
      BY <2>1, <2>5, <3>1, <3>2
    <3>3. CASE d = t
      <4>1. c < r
        <5>1. c \in Nat /\ c < t /\ (c <= r \/ EndOf(chunk, r) <= c)
          BY <1>2, <1>12, <2>5, <3>3
        <5> HIDE DEF t
        <5> QED BY <1>1, <2>2, <2>5, <5>1
      <4>2. EndOf(chunk, c) <= r
        BY <2>1, <2>5, <4>1
      <4> QED BY <1>1, <1>12, <2>5, <3>1, <3>3, <4>2
    <3> QED BY <3>2, <3>3
  <2> QED BY <2>3, <2>4, <2>5
<1>17. Chain(k)
  BY <1>10, <1>14, <1>15, <1>16 DEF Chain
<1>18. k = s
  BY DEF k
<1> HIDE DEF t
<1> QED BY <1>3, <1>8, <1>9, <1>17, <1>18

(* A chunk swallows its successor; what others are is as it was.           *)
LEMMA MergeFields ==
    ASSUME NEW h, Chain(h), NEW c \in DOMAIN h, h[c].next # Null
    PROVE  LET k == Merge(h, c)
               n == h[c].next
               m == h[n].next
           IN  /\ n \in DOMAIN h /\ c < n /\ h[n].prev = c /\ n = EndOf(h, c)
               /\ m \in (DOMAIN h \ {c, n}) \cup {Null} /\ n \notin {0, Null}
               /\ k \in [DOMAIN h \ {n} -> Headers(DOMAIN h)]
               /\ DOMAIN k = DOMAIN h \ {n}
               /\ k[c].next = m /\ k[c].size = h[c].size + h[n].size + HeaderSize
               /\ k[c].allocated = h[c].allocated
               /\ \A d \in DOMAIN h \ {n} :
                     /\ k[d].prev = IF d = m THEN c ELSE h[d].prev
                     /\ d # c => /\ k[d].next = h[d].next /\ k[d].size = h[d].size
                                 /\ k[d].allocated = h[d].allocated
<1> DEFINE D == DOMAIN h
           n == h[c].next
           m == h[n].next
           grown == [h EXCEPT ![c].size = @ + h[n].size + HeaderSize,
                              ![c].next = m]
           linked == Link(grown, m, "prev", c)
           k == Merge(h, c)
<1>1. /\ n \in D /\ c < n /\ h[n].prev = c /\ n = EndOf(h, c) /\ c \in Nat /\ n \in Nat
      /\ h[c].size \in Nat
  <2>1. n \in D /\ n = EndOf(h, c) /\ c < n /\ c \in Nat /\ h[c].size \in Nat
    BY ChainFacts
  <2>2. h[n].prev = c
    BY DEF Chain, Forward
  <2> QED BY <2>1, <2>2, ChainFacts
<1>2. /\ m \in (D \ {c, n}) \cup {Null} /\ n \notin {0, Null} /\ h[n].size \in Nat
  <2>1. /\ m \in D \cup {Null} /\ h[n].size \in Nat /\ EndOf(h, n) \in Nat
        /\ m # Null => m = EndOf(h, n) /\ n < EndOf(h, n)
    BY <1>1, ChainFacts
  <2> HIDE DEF m, n
  <2> QED BY <1>1, <2>1 DEF Null
<1>3. h \in [D -> Headers(D)]
  BY DEF Chain, Typed
<1> HIDE DEF m, n
<1>4. /\ grown \in [D -> Headers(D)]
      /\ grown[c].next = m /\ grown[c].size = h[c].size + h[n].size + HeaderSize
      /\ grown[c].prev = h[c].prev /\ grown[c].allocated = h[c].allocated
      /\ \A d \in D \ {c} : grown[d] = h[d]
  <2> DEFINE swollen == [h[c] EXCEPT !.size = @ + h[n].size + HeaderSize, !.next = m]
  <2>1. h[c].size + h[n].size + HeaderSize \in Nat
    BY <1>1, <1>2, Sizes
  <2>2. h[c] \in Headers(D)
    BY <1>3
  <2>3. /\ swollen \in Headers(D) /\ swollen.next = m
        /\ swollen.size = h[c].size + h[n].size + HeaderSize
        /\ swollen.prev = h[c].prev /\ swollen.allocated = h[c].allocated
    BY <1>2, <2>1, <2>2 DEF Headers
  <2>4. grown = [h EXCEPT ![c] = swollen]
    BY <1>3, <2>2 DEF Headers
  <2> HIDE DEF swollen, grown
  <2> QED BY <1>3, <2>3, <2>4
<1> HIDE DEF grown
<1>5. /\ linked \in [D -> Headers(D)]
      /\ \A d \in D :
            /\ linked[d].next = grown[d].next /\ linked[d].allocated = grown[d].allocated
            /\ linked[d].size = grown[d].size
            /\ linked[d].prev = IF d = m THEN c ELSE grown[d].prev
  <2>1. CASE m = Null
    <3>1. linked = grown
      BY <2>1 DEF Link
    <3>2. \A d \in D : d \in Nat
      BY ChainFacts
    <3>3. m \notin D
      BY <2>1, <3>2 DEF Null
    <3> QED BY <1>4, <3>1, <3>3
  <2>2. CASE m # Null
    <3>1. linked = [grown EXCEPT ![m]["prev"] = c] /\ m \in D
      BY <1>2, <2>2 DEF Link
    <3> HIDE DEF linked
    <3> QED BY <1>4, <3>1 DEF Headers
  <2> QED BY <2>1, <2>2
<1>6. k = [d \in D \ {n} |-> linked[d]]
  <2>1. DOMAIN linked = D
    BY <1>5
  <2> QED BY <2>1 DEF Merge, Without, grown, linked, m, n
<1> HIDE DEF k, linked
<1>7. /\ k \in [D \ {n} -> Headers(D)] /\ DOMAIN k = D \ {n}
      /\ \A d \in D \ {n} : k[d] = linked[d]
  BY <1>5, <1>6
<1>8. c \in D \ {n}
  BY <1>1
<1>9. /\ k[c].next = m /\ k[c].size = h[c].size + h[n].size + HeaderSize
      /\ k[c].allocated = h[c].allocated
      /\ \A d \in DOMAIN h \ {n} :
            /\ k[d].prev = IF d = m THEN c ELSE h[d].prev
            /\ d # c => /\ k[d].next = h[d].next /\ k[d].size = h[d].size
                        /\ k[d].allocated = h[d].allocated
  BY <1>4, <1>5, <1>7, <1>8
<1> QED BY <1>1, <1>2, <1>7, <1>9 DEF k, m, n

(* A merge leaves a chain, and the chunk ends where its successor did.     *)
LEMMA MergeKeepsChain ==
    ASSUME NEW h, Chain(h), NEW c \in DOMAIN h, h[c].next # Null
    PROVE  /\ Chain(Merge(h, c))
           /\ EndOf(Merge(h, c), c) = EndOf(h, h[c].next)
<1> DEFINE D == DOMAIN h
           n == h[c].next
           m == h[n].next
           k == Merge(h, c)
           E == D \ {n}
<1>1. /\ n \in D /\ c < n /\ h[n].prev = c /\ n = EndOf(h, c)
      /\ m \in (D \ {c, n}) \cup {Null} /\ n \notin {0, Null}
      /\ k \in [E -> Headers(D)]
      /\ DOMAIN k = E
      /\ k[c].next = m /\ k[c].size = h[c].size + h[n].size + HeaderSize
      /\ k[c].allocated = h[c].allocated
      /\ \A d \in E :
            /\ k[d].prev = IF d = m THEN c ELSE h[d].prev
            /\ d # c => /\ k[d].next = h[d].next /\ k[d].size = h[d].size
                        /\ k[d].allocated = h[d].allocated
  BY ONLY MergeFields, Chain(h), c \in DOMAIN h, h[c].next # Null
<1>2. \A d \in D : /\ d \in Nat /\ h[d].size \in Nat /\ EndOf(h, d) \in Nat
                   /\ h[d].next \in D \cup {Null} /\ h[d].prev \in D \cup {Null}
                   /\ d < EndOf(h, d)
  BY ChainFacts
<1>3. IF m = Null THEN EndOf(h, n) = HeapSize
      ELSE m = EndOf(h, n) /\ h[m].prev = n
  BY <1>1 DEF Chain, Forward
<1> HIDE DEF m, n, k
<1>4. \A d \in D : d # c => h[d].next # n
  BY <1>1, <1>2 DEF Chain, Forward, Null
<1>5. \A d \in E : d # m => h[d].prev # n
  BY <1>1 DEF Chain, Back, m, Null
<1>6. c \in E /\ c # n
  BY <1>1, <1>2
<1>7. /\ EndOf(k, c) = EndOf(h, n)
      /\ \A d \in E : d # c => EndOf(k, d) = EndOf(h, d)
  BY <1>1, <1>2, <1>6, Sizes DEF EndOf
<1>8. Typed(k)
  <2>1. D \subseteq 0 .. HeapSize - HeaderSize /\ 0 \in D
    BY DEF Chain, Typed
  <2>2. E \subseteq 0 .. HeapSize - HeaderSize /\ 0 \in E
    BY <1>1, <2>1
  <2>3. \A d \in E : k[d] \in Headers(E)
    <3> TAKE d \in E
    <3>1. k[d] \in Headers(D) /\ k[d].next # n /\ k[d].prev # n
      BY <1>1, <1>4, <1>5, <1>6
    <3> QED BY <1>1, <3>1 DEF Headers
  <2>4. k \in [E -> Headers(E)]
    BY <1>1, <2>3
  <2> HIDE DEF E
  <2> QED BY ONLY <1>1, <2>2, <2>4 DEF Typed
<1>9. Forward(k)
  <2>1. ASSUME NEW d \in E, d # c
        PROVE  IF k[d].next = Null THEN EndOf(k, d) = HeapSize
               ELSE k[d].next = EndOf(k, d) /\ k[k[d].next].prev = d
    <3>1. IF h[d].next = Null THEN EndOf(h, d) = HeapSize
          ELSE h[d].next = EndOf(h, d) /\ h[h[d].next].prev = d
      BY DEF Chain, Forward
    <3>2. h[d].next # m \/ h[d].next = Null
      BY <1>1, <1>3, <2>1, <3>1
    <3> QED BY <1>1, <1>2, <1>4, <1>7, <2>1, <3>1, <3>2
  <2>2. IF k[c].next = Null THEN EndOf(k, c) = HeapSize
        ELSE k[c].next = EndOf(k, c) /\ k[k[c].next].prev = c
    BY <1>1, <1>3, <1>7
  <2> QED BY <1>1, <2>1, <2>2 DEF Forward
<1>10. Back(k)
  <2> SUFFICES ASSUME NEW d \in E
               PROVE  /\ k[d].prev = Null <=> d = 0
                      /\ k[d].prev # Null => k[k[d].prev].next = d
    BY <1>1 DEF Back
  <2>1. /\ h[d].prev = Null <=> d = 0
        /\ h[d].prev # Null => h[h[d].prev].next = d
    BY DEF Chain, Back
  <2>2. CASE d = m
    <3>1. m # Null /\ m = EndOf(h, n) /\ m # 0 /\ c # Null
      BY <1>1, <1>2, <1>3, <2>2 DEF Null
    <3> QED BY <1>1, <2>2, <3>1
  <2>3. CASE d # m
    <3>1. k[d].prev = h[d].prev /\ h[d].prev # n
      BY <1>1, <1>5, <2>3
    <3>2. h[d].prev = c => d = n
      BY <1>2, <2>1 DEF n, Null
    <3> QED BY <1>1, <1>2, <2>1, <3>1, <3>2
  <2> QED BY <2>2, <2>3
<1>11. Apart(k)
  <2> SUFFICES ASSUME NEW a \in E, NEW b \in E, a < b PROVE EndOf(k, a) <= b
    BY <1>1 DEF Apart
  <2>1. \A x, y \in D : x < y => EndOf(h, x) <= y
    BY DEF Chain, Apart
  <2>2. CASE a = c
    <3>1. n <= b
      BY <1>1, <2>1, <2>2
    <3>2. n < b
      BY <1>1, <1>2, <3>1
    <3> QED BY <1>1, <1>7, <2>1, <2>2, <3>2
  <2>3. CASE a # c
    BY <1>7, <2>1, <2>3
  <2> QED BY <2>2, <2>3
<1>12. Chain(k)
  BY <1>8, <1>9, <1>10, <1>11 DEF Chain
<1> QED BY <1>7, <1>12 DEF k, n

(* No two free neighbours come about by a merge, but with the one that the *)
(* swallowed chunk had.                                                    *)
LEMMA MergePairs ==
    ASSUME NEW h, Chain(h), NEW c \in DOMAIN h, h[c].next # Null
    PROVE  \A d \in DOMAIN h \ {h[c].next} :
              FreePair(Merge(h, c), d) =>
                  \/ d # c /\ FreePair(h, d)
                  \/ /\ d = c /\ h[h[c].next].next # Null
                     /\ ~ h[h[h[c].next].next].allocated
<1> DEFINE D == DOMAIN h
           n == h[c].next
           m == h[n].next
           k == Merge(h, c)
<1>1. /\ n \in D /\ c # n
      /\ m \in (D \ {c, n}) \cup {Null}
      /\ k[c].next = m
      /\ k[c].allocated = h[c].allocated
      /\ \A d \in D \ {n} :
            d # c => /\ k[d].next = h[d].next /\ k[d].allocated = h[d].allocated
  <2>1. /\ n \in D /\ c < n /\ h[n].prev = c /\ n = EndOf(h, c)
        /\ m \in (D \ {c, n}) \cup {Null} /\ n \notin {0, Null}
        /\ k \in [D \ {n} -> Headers(D)]
        /\ DOMAIN k = D \ {n}
        /\ k[c].next = m /\ k[c].size = h[c].size + h[n].size + HeaderSize
        /\ k[c].allocated = h[c].allocated
        /\ \A d \in D \ {n} :
              /\ k[d].prev = IF d = m THEN c ELSE h[d].prev
              /\ d # c => /\ k[d].next = h[d].next /\ k[d].size = h[d].size
                          /\ k[d].allocated = h[d].allocated
    BY ONLY MergeFields, Chain(h), c \in DOMAIN h, h[c].next # Null
  <2>2. c \in Nat
    BY ChainFacts
  <2> QED BY <2>1, <2>2
<1> SUFFICES ASSUME NEW d \in D \ {n}, FreePair(k, d)
             PROVE  \/ d # c /\ FreePair(h, d)
                    \/ d = c /\ m # Null /\ ~ h[m].allocated
  OBVIOUS
<1>2. d # c => h[d].next # n /\ h[d].next \in D \cup {Null}
  <2>1. h[n].prev = c
    BY DEF Chain, Forward
  <2>2. h[d].next # Null => h[h[d].next].prev = d
    BY DEF Chain, Forward
  <2>3. h[d].next \in D \cup {Null}
    BY ChainFacts
  <2> QED BY <2>1, <2>2, <2>3
<1>3. k[d].next # Null /\ ~ k[d].allocated /\ ~ k[k[d].next].allocated
  BY DEF FreePair
<1> HIDE DEF n, m, k
<1>4. CASE d = c
  BY <1>1, <1>3, <1>4 DEF m, n
<1>5. CASE d # c
  <2>1. h[d].next # Null /\ ~ h[d].allocated /\ ~ h[h[d].next].allocated
    BY <1>1, <1>2, <1>3, <1>5 DEF n
  <2> QED BY <1>5, <2>1 DEF FreePair
<1> QED BY <1>4, <1>5

-----------------------------------------------------------------------------
(* malloc                                                                  *)

(* Blocks in chunks of their own do not overlap and are within the heap.   *)
LEMMA HousedApart ==
    ASSUME NEW h, Chain(h), NEW blocks, Housed(h, blocks)
    PROVE  /\ \A b \in blocks : b.start \in 0 .. HeapSize /\ b.start + b.size <= HeapSize
           /\ \A b, c \in blocks :
                 b # c => ~ Promise!Overlap(b, c) /\ b.start # c.start
<1>1. ASSUME NEW b \in blocks
      PROVE  /\ b.start \in Nat /\ b.size \in Nat
             /\ b.start - HeaderSize \in DOMAIN h
             /\ b.start + b.size <= EndOf(h, b.start - HeaderSize)
             /\ EndOf(h, b.start - HeaderSize) \in Nat
             /\ EndOf(h, b.start - HeaderSize) <= HeapSize
  <2> DEFINE d == b.start - HeaderSize
  <2>1. /\ b.start \in Nat /\ b.size \in Nat /\ d \in DOMAIN h
        /\ b.size <= h[d].size
    BY Sizes DEF Housed
  <2>2. d \in Nat /\ h[d].size \in Nat /\ EndOf(h, d) \in Nat /\ EndOf(h, d) <= HeapSize
    BY <2>1, ChainFacts
  <2> QED BY <2>1, <2>2, Sizes DEF EndOf
<1>2. ASSUME NEW b \in blocks, NEW c \in blocks, b # c
      PROVE  ~ Promise!Overlap(b, c) /\ b.start # c.start
  <2>1. b.start # c.start
    BY <1>2 DEF Housed
  <2>2. b.start < c.start => b.start + b.size <= c.start
    <3>1. b.start < c.start => EndOf(h, b.start - HeaderSize) <= c.start - HeaderSize
      BY <1>1, Sizes DEF Chain, Apart
    <3> QED BY <1>1, <3>1, Sizes
  <2>3. c.start < b.start => c.start + c.size <= b.start
    <3>1. c.start < b.start => EndOf(h, c.start - HeaderSize) <= b.start - HeaderSize
      BY <1>1, Sizes DEF Chain, Apart
    <3> QED BY <1>1, <3>1, Sizes
  <2> QED BY <1>1, <2>1, <2>2, <2>3 DEF Promise!Overlap
<1>3. \A b \in blocks : b.start \in 0 .. HeapSize /\ b.start + b.size <= HeapSize
  BY <1>1, Sizes
<1> QED BY <1>2, <1>3

(* malloc keeps the invariant and gives a block nobody has.                *)
LEMMA MallocKeeps ==
    ASSUME Chain(chunk), Housed(chunk, live), NEW size \in Requests, malloc(size)
    PROVE  /\ Chain(chunk') /\ Housed(chunk', live')
           /\ Parted(chunk) => Parted(chunk')
           /\ \E b \in [start : Nat, size : Requests] :
                 b \notin live /\ live' = live \cup {b}
<1> DEFINE r == Search(size)
           D == DOMAIN chunk
           k == IF HasRest(r, size) THEN Split(r, size) ELSE chunk
           b == [start |-> r + HeaderSize, size |-> size]
<1>1. r # Null /\ chunk' = Taken(k, r) /\ live' = live \cup {b}
  BY DEF malloc
<1>2. Chain(chunk) /\ Housed(chunk, live)
  OBVIOUS
<1>3. r \in D /\ Fits(r, size)
  BY <1>1, <1>2, SearchFits
<1> HIDE DEF r
<1>4. /\ r \in Nat /\ chunk[r].size \in Nat /\ size \in Nat
      /\ chunk[r].size > size /\ ~ chunk[r].allocated
  BY <1>2, <1>3, ChainFacts, Sizes DEF Fits
(* What the chunk that is found is made of: itself, or two.                *)
<1>5. /\ Chain(k) /\ D \subseteq DOMAIN k
      /\ size <= k[r].size
      /\ \A d \in D : k[d].allocated = chunk[d].allocated
      /\ \A d \in D \ {r} : k[d].size = chunk[d].size /\ k[d].next = chunk[d].next
      /\ \A d \in DOMAIN k \ D : k[d].next = chunk[r].next
      /\ k[r].next # chunk[r].next => k[r].next \notin D
  <2>1. CASE HasRest(r, size)
    <3> DEFINE s == Split(r, size)
    <3>1. PICK t :
          /\ Chain(s) /\ DOMAIN s = DOMAIN chunk \cup {t} /\ t \notin DOMAIN chunk
          /\ s[t].next = chunk[r].next /\ ~ s[t].allocated
          /\ s[r].size = size /\ s[r].next = t
          /\ \A d \in DOMAIN chunk :
                /\ s[d].allocated = chunk[d].allocated
                /\ d # r => s[d].size = chunk[d].size /\ s[d].next = chunk[d].next
      <4>1. /\ Chain(chunk) /\ r \in DOMAIN chunk /\ size \in Nat
            /\ HasRest(r, size) /\ s = Split(r, size)
        BY <1>2, <1>3, <1>4, <2>1
      <4> HIDE DEF s
      <4> QED BY ONLY <4>1, SplitKeepsChain
    <3>2. k = s
      BY <2>1
    <3> HIDE DEF k, s
    <3> QED BY <1>4, <3>1, <3>2
  <2>2. CASE ~ HasRest(r, size)
    <3>1. k = chunk
      BY <2>2
    <3> HIDE DEF k
    <3> QED BY <1>2, <1>4, <3>1
  <2> QED BY <2>1, <2>2
<1> HIDE DEF k
<1>6. r \in DOMAIN k /\ chunk' = [k EXCEPT ![r].allocated = TRUE]
  BY <1>1, <1>3, <1>5 DEF Taken
<1>7. /\ Chain(chunk') /\ DOMAIN chunk' = DOMAIN k
      /\ \A d \in DOMAIN k :
            /\ chunk'[d].next = k[d].next
            /\ chunk'[d].size = k[d].size
            /\ chunk'[d].allocated = IF d = r THEN TRUE ELSE k[d].allocated
  <2> DEFINE u == [k EXCEPT ![r].allocated = TRUE]
  <2>1. Chain(k) /\ r \in DOMAIN k /\ TRUE \in BOOLEAN
    BY <1>5, <1>6
  <2>2. /\ Chain(u) /\ DOMAIN u = DOMAIN k
        /\ \A d \in DOMAIN k :
              /\ u[d].next = k[d].next /\ u[d].prev = k[d].prev
              /\ u[d].size = k[d].size
              /\ u[d].allocated = IF d = r THEN TRUE ELSE k[d].allocated
    BY ONLY <2>1, MarkKeepsChain
  <2>3. chunk' = u
    BY <1>6
  <2> HIDE DEF u
  <2> QED BY <2>2, <2>3
<1>8. ASSUME Parted(chunk) PROVE Parted(chunk')
  <2> SUFFICES ASSUME NEW d \in DOMAIN k, FreePair(chunk', d) PROVE FALSE
    BY <1>7 DEF Parted
  <2>1. /\ d # r /\ k[d].next # Null /\ ~ k[d].allocated
        /\ k[d].next # r /\ k[d].next \in DOMAIN k /\ ~ k[k[d].next].allocated
    <3>1. k[d].next \in DOMAIN k \cup {Null}
      BY <1>5, ChainFacts
    <3> QED BY <1>7, <3>1 DEF FreePair
  <2>2. chunk[r].next \in D \cup {Null}
    BY <1>2, <1>3, ChainFacts
  <2>3. ~ FreePair(chunk, r)
    BY <1>3, <1>8 DEF Parted
  <2>4. CASE d \in D
    <3>1. chunk[d].next = k[d].next /\ ~ chunk[d].allocated
      BY <1>5, <2>1, <2>4
    <3>2. chunk[d].next \in D
      BY <1>2, <2>1, <2>4, <3>1, ChainFacts
    <3>3. FreePair(chunk, d)
      BY <1>5, <2>1, <3>1, <3>2 DEF FreePair
    <3> QED BY <1>8, <2>4, <3>3 DEF Parted
  <2>5. CASE d \notin D
    <3>1. chunk[r].next = k[d].next
      BY <1>5, <2>5
    <3> QED BY <1>4, <1>5, <2>1, <2>2, <2>3, <3>1 DEF FreePair
  <2> QED BY <2>4, <2>5
<1>9. \A a \in live : a.start # b.start
  <2> TAKE a \in live
  <2>1. chunk[a.start - HeaderSize].allocated /\ a.start \in Nat
    BY <1>2 DEF Housed
  <2>2. a.start - HeaderSize # r
    BY <1>4, <2>1
  <2> QED BY <1>4, <2>1, <2>2, Sizes
<1>10. Housed(chunk', live')
  <2>1. ASSUME NEW a \in live
        PROVE  /\ a \in [start : Nat, size : Requests]
               /\ a.start - HeaderSize \in DOMAIN chunk'
               /\ chunk'[a.start - HeaderSize].allocated
               /\ a.size <= chunk'[a.start - HeaderSize].size
    <3> DEFINE d == a.start - HeaderSize
    <3>1. /\ a \in [start : Nat, size : Requests] /\ d \in D
          /\ chunk[d].allocated /\ a.size <= chunk[d].size
      BY <1>2 DEF Housed
    <3> HIDE DEF d
    <3>2. d # r /\ d \in DOMAIN k
      BY <1>4, <1>5, <3>1
    <3>3. d \in DOMAIN chunk' /\ chunk'[d].allocated /\ a.size <= chunk'[d].size
      BY <1>5, <1>7, <3>1, <3>2
    <3> QED BY <3>1, <3>3 DEF d
  <2>2. /\ b \in [start : Nat, size : Requests]
        /\ b.start - HeaderSize = r /\ b.start = r + HeaderSize /\ b.size = size
    BY <1>4, Sizes
  <2>3. r \in DOMAIN chunk' /\ chunk'[r].allocated /\ size <= chunk'[r].size
    BY <1>5, <1>6, <1>7
  <2> HIDE DEF b
  <2>4. \A a, c \in live : a.start = c.start => a = c
    BY <1>2 DEF Housed
  <2> QED BY <1>1, <1>9, <2>1, <2>2, <2>3, <2>4 DEF Housed
<1>11. b \in [start : Nat, size : Requests] /\ b \notin live
  BY <1>4, <1>9, Sizes
<1> QED BY <1>1, <1>7, <1>8, <1>10, <1>11

-----------------------------------------------------------------------------
(* free                                                                    *)

(* What is allocated in h is so in k, with the same size.                  *)
Kept(h, k, S) ==
    \A e \in S : h[e].allocated =>
        e \in DOMAIN k /\ k[e].allocated /\ k[e].size = h[e].size

(* A free chunk swallows a free successor.                                 *)
LEMMA JoinKeeps ==
    ASSUME NEW h, Chain(h), NEW c \in DOMAIN h, FreePair(h, c),
           NEW k, k = Merge(h, c)
    PROVE  /\ Chain(k) /\ c \in DOMAIN k /\ ~ k[c].allocated
           /\ DOMAIN k = DOMAIN h \ {h[c].next}
           /\ Kept(h, k, DOMAIN h)
           /\ \A d \in DOMAIN k :
                 FreePair(k, d) => \E e \in DOMAIN h : e # c /\ FreePair(h, e) /\ (d # c => e = d)
<1> DEFINE D == DOMAIN h
           n == h[c].next
           m == h[n].next
           j == Merge(h, c)
<1>1. h[c].next # Null /\ ~ h[c].allocated /\ ~ h[n].allocated
  BY DEF FreePair
<1>2. /\ n \in D /\ c < n /\ h[n].prev = c /\ n = EndOf(h, c)
      /\ m \in (D \ {c, n}) \cup {Null} /\ n \notin {0, Null}
      /\ j \in [D \ {n} -> Headers(D)]
      /\ DOMAIN j = D \ {n}
      /\ j[c].next = m /\ j[c].size = h[c].size + h[n].size + HeaderSize
      /\ j[c].allocated = h[c].allocated
      /\ \A d \in D \ {n} :
            /\ j[d].prev = IF d = m THEN c ELSE h[d].prev
            /\ d # c => /\ j[d].next = h[d].next /\ j[d].size = h[d].size
                        /\ j[d].allocated = h[d].allocated
  <2>1. h[c].next # Null
    BY <1>1
  <2> QED BY ONLY MergeFields, Chain(h), c \in DOMAIN h, <2>1
<1>3. Chain(k)
  BY <1>1, MergeKeepsChain
<1>4. \A d \in DOMAIN h \ {h[c].next} :
         FreePair(k, d) =>
             \/ d # c /\ FreePair(h, d)
             \/ /\ d = c /\ h[h[c].next].next # Null
                /\ ~ h[h[h[c].next].next].allocated
  BY <1>1, MergePairs
<1>5. c \in Nat
  BY ChainFacts
<1>6. /\ n \in D /\ c # n /\ DOMAIN k = D \ {n} /\ k[c].allocated = h[c].allocated
      /\ \A d \in D \ {n} : d # c => /\ k[d].size = h[d].size
                                     /\ k[d].allocated = h[d].allocated
  BY <1>2, <1>5
<1>7. Kept(h, k, D)
  BY <1>1, <1>6 DEF Kept
<1>8. ASSUME NEW d \in DOMAIN k, FreePair(k, d)
      PROVE  \E e \in D : e # c /\ FreePair(h, e) /\ (d # c => e = d)
  <2>1. CASE d # c
    BY <1>4, <1>6, <1>8, <2>1
  <2>2. CASE d = c
    <3>1. FreePair(h, n)
      BY <1>1, <1>4, <1>6, <1>8, <2>2 DEF FreePair
    <3> QED BY <1>6, <2>2, <3>1
  <2> QED BY <2>1, <2>2
<1> HIDE DEF n
<1> QED BY <1>1, <1>3, <1>6, <1>7, <1>8 DEF n

(* The chunk before c or c itself, and what is there after the merge with  *)
(* the one before: only there may two neighbours be free.                  *)
LEMMA FreedKeeps ==
    ASSUME Chain(chunk), NEW c \in DOMAIN chunk, NEW k, k = Freed(c)
    PROVE  Chain(k) /\ (Parted(chunk) => Parted(k)) /\ Kept(chunk, k, DOMAIN chunk \ {c})
<1> DEFINE D == DOMAIN chunk
           mem == [chunk EXCEPT ![c].allocated = FALSE]
           p == chunk[c].prev
           before == IsFree(mem, p)
           left == IF before THEN p ELSE c
           joined == IF before THEN Merge(mem, p) ELSE mem
<1>1. /\ Chain(mem) /\ DOMAIN mem = D
      /\ \A d \in D :
            /\ mem[d].next = chunk[d].next /\ mem[d].prev = chunk[d].prev
            /\ mem[d].size = chunk[d].size
            /\ mem[d].allocated = IF d = c THEN FALSE ELSE chunk[d].allocated
  <2>1. FALSE \in BOOLEAN
    OBVIOUS
  <2> QED BY ONLY Chain(chunk), c \in DOMAIN chunk, <2>1, MarkKeepsChain
<1>2. k = IF IsFree(joined, joined[left].next) THEN Merge(joined, left) ELSE joined
  <2>1. mem[c].prev = p
    BY <1>1
  <2> HIDE DEF p
  <2> QED BY <2>1 DEF Freed
<1> HIDE DEF mem
<1>3. /\ p \in D \cup {Null}
      /\ p # Null => p \in D /\ chunk[p].next = c
      /\ c # Null
  BY ChainFacts DEF Chain, Back, Null
<1>4. \A d \in D : chunk[d].next = c => p = d
  BY <1>3 DEF Chain, Forward
<1>5. ASSUME Parted(chunk), NEW d \in D, FreePair(mem, d)
      PROVE  d = c \/ d = p
  <2>1. chunk[d].next \in D \cup {Null}
    BY ChainFacts
  <2>2. ~ FreePair(chunk, d)
    BY <1>5 DEF Parted
  <2> QED BY <1>1, <1>4, <1>5, <2>1, <2>2 DEF FreePair
<1>6. Kept(chunk, mem, D \ {c})
  BY <1>1 DEF Kept
<1>7. /\ Chain(joined) /\ left \in DOMAIN joined /\ ~ joined[left].allocated
      /\ Parted(chunk) => \A d \in DOMAIN joined : FreePair(joined, d) => d = left
      /\ Kept(chunk, joined, D \ {c})
  <2>1. CASE before
    <3> DEFINE j == Merge(mem, p)
    <3>1. p \in DOMAIN mem /\ FreePair(mem, p) /\ mem[p].next = c
      BY <1>1, <1>3, <2>1 DEF IsFree, FreePair
    <3>2. /\ Chain(j) /\ p \in DOMAIN j /\ ~ j[p].allocated
          /\ DOMAIN j = DOMAIN mem \ {mem[p].next}
          /\ Kept(mem, j, DOMAIN mem)
          /\ \A d \in DOMAIN j :
                FreePair(j, d) => \E e \in DOMAIN mem : e # p /\ FreePair(mem, e) /\ (d # p => e = d)
      BY ONLY <1>1, <3>1, JoinKeeps
    <3>3. joined = j /\ left = p
      BY <2>1
    <3> HIDE DEF joined, left, j, before
    <3>4. Parted(chunk) => \A d \in DOMAIN j : FreePair(j, d) => d = p
      BY <1>1, <1>5, <3>1, <3>2
    <3>5. Kept(chunk, j, D \ {c})
      BY <1>1, <1>6, <3>2 DEF Kept
    <3> QED BY <3>2, <3>3, <3>4, <3>5
  <2>2. CASE ~ before
    <3>1. joined = mem /\ left = c
      BY <2>2
    <3>2. ~ FreePair(mem, p) \/ p = c \/ p = Null
      BY <2>2 DEF IsFree, FreePair
    <3> HIDE DEF joined, left, before
    <3>3. Parted(chunk) => \A d \in D : FreePair(mem, d) => d = c
      BY <1>3, <1>5, <3>2, ChainFacts DEF Null
    <3> QED BY <1>1, <1>6, <3>1, <3>3
  <2> QED BY <2>1, <2>2
<1> HIDE DEF joined, left, before
<1>8. CASE IsFree(joined, joined[left].next)
  <2>1. FreePair(joined, left) /\ k = Merge(joined, left)
    BY <1>2, <1>7, <1>8 DEF IsFree, FreePair
  <2>2. /\ Chain(k) /\ left \in DOMAIN k /\ ~ k[left].allocated
        /\ DOMAIN k = DOMAIN joined \ {joined[left].next}
        /\ Kept(joined, k, DOMAIN joined)
        /\ \A d \in DOMAIN k :
              FreePair(k, d) =>
                 \E e \in DOMAIN joined : e # left /\ FreePair(joined, e) /\ (d # left => e = d)
    BY ONLY <1>7, <2>1, JoinKeeps
  <2>3. Parted(chunk) => Parted(k)
    BY <1>7, <2>2 DEF Parted
  <2>4. Kept(chunk, k, D \ {c})
    BY <1>7, <2>2 DEF Kept
  <2> QED BY <2>2, <2>3, <2>4
<1>9. CASE ~ IsFree(joined, joined[left].next)
  <2>1. ~ FreePair(joined, left) /\ k = joined
    BY <1>2, <1>9 DEF IsFree, FreePair
  <2> QED BY <1>7, <2>1 DEF Parted
<1> QED BY <1>8, <1>9

(* free keeps the invariant: no other block's chunk goes or shrinks.       *)
LEMMA FreeKeeps ==
    ASSUME Chain(chunk), Housed(chunk, live), NEW b \in live, free(b)
    PROVE  /\ Chain(chunk') /\ Housed(chunk', live')
           /\ Parted(chunk) => Parted(chunk')
<1> DEFINE c == b.start - HeaderSize
<1>1. /\ Chain(chunk) /\ Housed(chunk, live)
      /\ chunk' = Freed(c) /\ live' = live \ {b}
  BY DEF free
<1>2. c \in DOMAIN chunk /\ chunk[c].allocated
  BY <1>1 DEF Housed
<1>3. \A a \in live' : a \in live /\ a.start # b.start /\ a.start \in Nat /\ b.start \in Nat
  BY <1>1 DEF Housed
<1>4. \A a \in live' : a.start - HeaderSize # c
  BY <1>3, Sizes
<1> HIDE DEF c
<1>5. /\ Chain(chunk') /\ (Parted(chunk) => Parted(chunk'))
      /\ Kept(chunk, chunk', DOMAIN chunk \ {c})
  BY ONLY <1>1, <1>2, FreedKeeps
<1>6. Housed(chunk', live')
  <2>1. ASSUME NEW a \in live'
        PROVE  /\ a \in [start : Nat, size : Requests]
               /\ a.start - HeaderSize \in DOMAIN chunk'
               /\ chunk'[a.start - HeaderSize].allocated
               /\ a.size <= chunk'[a.start - HeaderSize].size
    <3>1. /\ a \in [start : Nat, size : Requests]
          /\ a.start - HeaderSize \in DOMAIN chunk \ {c}
          /\ chunk[a.start - HeaderSize].allocated
          /\ a.size <= chunk[a.start - HeaderSize].size
      BY <1>1, <1>3, <1>4 DEF Housed
    <3> QED BY <1>5, <3>1 DEF Kept
  <2>2. \A x, y \in live' : x.start = y.start => x = y
    BY <1>1, <1>3 DEF Housed
  <2> QED BY <2>1, <2>2 DEF Housed
<1> QED BY <1>5, <1>6

-----------------------------------------------------------------------------
(* Every step of the heap keeps the invariant.                             *)
LEMMA HeapInvKept == HeapInv /\ [Next]_vars => HeapInv'
<1> SUFFICES ASSUME HeapInv, [Next]_vars PROVE HeapInv'
  OBVIOUS
<1>1. ASSUME NEW size \in Requests, malloc(size) PROVE HeapInv'
  BY <1>1, MallocKeeps DEF HeapInv
<1>2. ASSUME NEW b \in live, free(b) PROVE HeapInv'
  BY <1>2, FreeKeeps DEF HeapInv
<1>3. CASE UNCHANGED vars
  BY <1>3 DEF vars, HeapInv
<1> QED BY <1>1, <1>2, <1>3 DEF Next

(* The list tiles the heap and free neighbours are merged, whatever the    *)
(* order of the calls of malloc and free (memorymanagement.cpp).           *)
THEOREM HeapStaysInOrder == Spec => []HeapInOrder
<1>1. Init => HeapInv
  BY InitHeap
<1>2. HeapInv /\ [Next]_vars => HeapInv'
  BY HeapInvKept
<1>3. HeapInv => HeapInOrder
  BY HeapInvImplies
<1> QED BY <1>1, <1>2, <1>3, PTL DEF Spec

(* A new block that is housed overlaps none and is within the heap, as the *)
(* promise has it; and a block that is housed may be given back.           *)
LEMMA TakingIsPromised ==
    ASSUME Chain(chunk'), Housed(chunk', live'),
           \E b \in [start : Nat, size : Requests] :
              b \notin live /\ live' = live \cup {b}
    PROVE  Promise!Next
<1>1. PICK b \in [start : Nat, size : Requests] :
         b \notin live /\ live' = live \cup {b}
  OBVIOUS
<1>2. /\ b.start \in 0 .. HeapSize /\ b.start + b.size <= HeapSize
      /\ \A a \in live : ~ Promise!Overlap(b, a) /\ b.start # a.start
  <2>1. /\ \A a \in live' : a.start \in 0 .. HeapSize /\ a.start + a.size <= HeapSize
        /\ \A a, c \in live' :
              a # c => ~ Promise!Overlap(a, c) /\ a.start # c.start
    BY ONLY Chain(chunk'), Housed(chunk', live'), HousedApart
  <2> QED BY <1>1, <2>1
<1> QED BY <1>1, <1>2 DEF Promise!Next, Promise!Malloc, Promise!Blocks

LEMMA GivingIsPromised ==
    ASSUME Chain(chunk), Housed(chunk, live), NEW b \in live, live' = live \ {b}
    PROVE  Promise!Next
<1>1. b.start \in 0 .. HeapSize /\ b \in [start : Nat, size : Requests]
  <2>1. /\ \A a \in live : a.start \in 0 .. HeapSize /\ a.start + a.size <= HeapSize
        /\ \A a, d \in live :
              a # d => ~ Promise!Overlap(a, d) /\ a.start # d.start
    BY ONLY Chain(chunk), Housed(chunk, live), HousedApart
  <2> QED BY <2>1 DEF Housed
<1>2. b \in Promise!Blocks
  BY <1>1 DEF Promise!Blocks
<1> QED BY <1>2 DEF Promise!Next, Promise!Free

(* A step of the list is one of the promise.                               *)
LEMMA StepKeepsPromise ==
    HeapInv /\ [Next]_vars => [Promise!Next]_live
<1> SUFFICES ASSUME HeapInv, [Next]_vars PROVE [Promise!Next]_live
  OBVIOUS
<1>1. ASSUME NEW size \in Requests, malloc(size) PROVE Promise!Next
  BY <1>1, MallocKeeps, TakingIsPromised DEF HeapInv
<1>2. ASSUME NEW b \in live, free(b) PROVE Promise!Next
  BY <1>2, GivingIsPromised DEF HeapInv, free
<1> QED BY <1>1, <1>2 DEF Next, vars

(* The callers get what HeapPromise says, for every heap.                  *)
THEOREM PromiseIsKept == Spec => KeepsPromise
<1>1. Init => Promise!Init
  BY DEF Init, Promise!Init
<1>2. Init => HeapInv
  BY InitHeap
<1>3. HeapInv /\ [Next]_vars => HeapInv'
  BY HeapInvKept
<1>4. HeapInv /\ [Next]_vars => [Promise!Next]_live
  BY StepKeepsPromise
<1> QED BY <1>1, <1>2, <1>3, <1>4, PTL DEF Spec, KeepsPromise, Promise!Spec

-----------------------------------------------------------------------------
(* The chunk the main loop works on is free while it writes.  What it      *)
(* takes for granted (Stands) holds whenever no handler runs.              *)
InHand ==
    /\ step \in {"search", "found", "carving", "mark"} => want \in Requests
    /\ step \in {"carving", "merging"} => at \in DOMAIN chunk /\ ~ chunk[at].allocated
    /\ step = "carving" => HasRest(at, want)
    /\ ~ inside => Stands

Sound == Chain(chunk) /\ Housed(chunk, live) /\ InHand

SoundInv == ~ disturbed => Sound

(* Housed needs of the list no more than the chunks in use.                *)
LEMMA HousedKept ==
    ASSUME NEW h, NEW k, NEW blocks, Housed(h, blocks), NEW less \in SUBSET blocks,
           \A b \in less : b.start - HeaderSize \in DOMAIN k
                           /\ k[b.start - HeaderSize].allocated
                           /\ k[b.start - HeaderSize].size = h[b.start - HeaderSize].size
    PROVE  Housed(k, less)
BY DEF Housed

(* A block in a free chunk's place is nobody's yet.                        *)
LEMMA FreshBlock ==
    ASSUME NEW h, NEW blocks, Housed(h, blocks), Chain(h), NEW c \in DOMAIN h,
           ~ h[c].allocated, NEW b, b.start = c + HeaderSize
    PROVE  \A a \in blocks : a.start # b.start
<1> TAKE a \in blocks
<1>1. a.start \in Nat /\ h[a.start - HeaderSize].allocated
  BY DEF Housed
<1>2. c \in Nat /\ a.start - HeaderSize # c
  BY <1>1, ChainFacts
<1> QED BY <1>1, <1>2, Sizes

-----------------------------------------------------------------------------
(* The calls of the main loop, step by step.                               *)
LEMMA SearchSteps ==
    ASSUME Sound, Stands,
           \/ \E s \in Requests : CallMalloc(s)
           \/ Look \/ GiveUp \/ Decide \/ LookAround,
           UNCHANGED <<handler, history>>
    PROVE  Sound' /\ live' = live
<1>1. UNCHANGED <<chunk, live>>
  BY DEF CallMalloc, Look, GiveUp, Decide, LookAround
<1>2. Chain(chunk') /\ Housed(chunk', live')
  BY <1>1 DEF Sound
<1>3. 0 \in DOMAIN chunk /\ chunk' = chunk
  BY <1>1 DEF Sound, Chain, Typed
<1>4. ASSUME \E s \in Requests : CallMalloc(s) PROVE InHand'
  BY <1>3, <1>4 DEF CallMalloc, InHand, Stands
<1>5. ASSUME Look PROVE InHand'
  <2>1. at \in DOMAIN chunk /\ want \in Requests
    BY <1>5 DEF Look, Sound, InHand, Stands
  <2>2. chunk[at].next \in DOMAIN chunk \cup {Null}
    BY <2>1, ChainFacts DEF Sound
  <2> QED BY <1>3, <1>5, <2>1, <2>2 DEF Look, InHand, Stands, Fits
<1>6. ASSUME GiveUp PROVE InHand'
  BY <1>3, <1>6 DEF GiveUp, Done, InHand, Stands
<1>7. ASSUME Decide PROVE InHand'
  <2>1. at \in DOMAIN chunk /\ want \in Requests /\ Fits(at, want)
    BY <1>7 DEF Decide, Sound, InHand, Stands
  <2>2. chunk[at].size \in Nat /\ want \in Nat
    BY <2>1, ChainFacts, Sizes DEF Sound
  <2> QED BY <1>3, <1>7, <2>1, <2>2 DEF Decide, InHand, Stands, Fits, HasRest
<1>8. ASSUME LookAround PROVE InHand'
  BY <1>3, <1>8 DEF LookAround, InHand, Stands, Sound
<1>9. InHand'
  BY <1>4, <1>5, <1>6, <1>7, <1>8
<1> QED BY <1>1, <1>2, <1>9 DEF Sound

LEMMA CarveKeeps ==
    ASSUME Sound, Carve
    PROVE  Sound' /\ live' = live
<1> DEFINE s == Split(at, want)
<1>1. /\ Chain(chunk) /\ at \in DOMAIN chunk /\ want \in Nat /\ HasRest(at, want)
      /\ s = Split(at, want)
  BY Sizes DEF Carve, Sound, InHand
<1>2. chunk' = s
  BY DEF Carve
<1> HIDE DEF s
<1>3. PICK t :
      /\ Chain(s) /\ DOMAIN s = DOMAIN chunk \cup {t} /\ t \notin DOMAIN chunk
      /\ s[t].next = chunk[at].next /\ ~ s[t].allocated
      /\ s[at].size = want /\ s[at].next = t
      /\ \A d \in DOMAIN chunk :
            /\ s[d].allocated = chunk[d].allocated
            /\ d # at => s[d].size = chunk[d].size /\ s[d].next = chunk[d].next
  <2>1. PICK r, n : r = at /\ n = want
    OBVIOUS
  <2>2. Chain(chunk) /\ r \in DOMAIN chunk /\ n \in Nat /\ HasRest(r, n) /\ s = Split(r, n)
    BY <1>1, <2>1
  <2>3. \E t :
        /\ Chain(s) /\ DOMAIN s = DOMAIN chunk \cup {t} /\ t \notin DOMAIN chunk
        /\ s[t].next = chunk[r].next /\ ~ s[t].allocated
        /\ s[r].size = n /\ s[r].next = t
        /\ \A d \in DOMAIN chunk :
              /\ s[d].allocated = chunk[d].allocated
              /\ d # r => s[d].size = chunk[d].size /\ s[d].next = chunk[d].next
    BY ONLY <2>2, SplitKeepsChain
  <2> QED BY <2>1, <2>3
<1>4. live' = live /\ step' = "mark" /\ at' = at /\ want' = want /\ want \in Requests
      /\ ~ chunk[at].allocated
  BY DEF Carve, Sound, InHand
<1>5. Housed(chunk', live')
  <2>1. \A b \in live : b.start - HeaderSize \in DOMAIN chunk
                        /\ chunk[b.start - HeaderSize].allocated
    BY DEF Sound, Housed
  <2>2. \A b \in live : b.start - HeaderSize \in DOMAIN chunk'
                        /\ chunk'[b.start - HeaderSize].allocated
                        /\ chunk'[b.start - HeaderSize].size = chunk[b.start - HeaderSize].size
    BY <1>2, <1>3, <1>4, <2>1
  <2>3. Housed(chunk, live)
    BY DEF Sound
  <2> QED BY <1>4, <2>2, <2>3, HousedKept
<1>6. InHand'
  BY <1>1, <1>2, <1>3, <1>4 DEF InHand, Stands
<1> QED BY <1>2, <1>3, <1>4, <1>5, <1>6 DEF Sound

LEMMA MarkKeeps ==
    ASSUME Sound, Stands, Mark
    PROVE  /\ Sound'
           /\ \E b \in [start : Nat, size : Requests] :
                 b \notin live /\ live' = live \cup {b}
<1> DEFINE b == [start |-> at + HeaderSize, size |-> want]
           u == [chunk EXCEPT ![at].allocated = TRUE]
<1>1. /\ Chain(chunk) /\ Housed(chunk, live)
      /\ at \in DOMAIN chunk /\ ~ chunk[at].allocated
      /\ chunk[at].size >= want /\ want \in Requests
      /\ chunk' = u /\ live' = live \cup {b} /\ step' = "idle"
  BY DEF Mark, Done, Taken, Sound, InHand, Stands
<1>2. /\ Chain(u) /\ DOMAIN u = DOMAIN chunk
      /\ \A d \in DOMAIN chunk :
            /\ u[d].next = chunk[d].next /\ u[d].prev = chunk[d].prev
            /\ u[d].size = chunk[d].size
            /\ u[d].allocated = IF d = at THEN TRUE ELSE chunk[d].allocated
  <2>1. TRUE \in BOOLEAN
    OBVIOUS
  <2> QED BY ONLY <1>1, <2>1, MarkKeepsChain
<1>3. at \in Nat /\ chunk[at].size \in Nat
  BY <1>1, ChainFacts
<1>4. /\ b \in [start : Nat, size : Requests] /\ b.start = at + HeaderSize
      /\ b.size = want /\ b.start - HeaderSize = at
  BY <1>1, <1>3, Sizes
<1> HIDE DEF u, b
<1>5. \A a \in live : a.start # b.start
  BY <1>1, <1>4, FreshBlock
<1>6. \A a \in live :
         /\ a \in [start : Nat, size : Requests]
         /\ a.start - HeaderSize \in DOMAIN u
         /\ u[a.start - HeaderSize].allocated
         /\ a.size <= u[a.start - HeaderSize].size
  BY <1>1, <1>2 DEF Housed
<1>7. \A a, c \in live : a.start = c.start => a = c
  BY <1>1 DEF Housed
<1>8. want <= u[at].size /\ u[at].allocated
  BY <1>1, <1>2, <1>3, Sizes
<1>9. Housed(chunk', live')
  BY <1>1, <1>2, <1>4, <1>5, <1>6, <1>7, <1>8 DEF Housed
<1>10. InHand'
  BY <1>1 DEF InHand, Stands
<1> QED BY <1>1, <1>2, <1>4, <1>5, <1>9, <1>10 DEF Sound

LEMMA CallFreeKeeps ==
    ASSUME Sound, NEW b \in live, CallFree(b)
    PROVE  Sound' /\ live' = live \ {b}
<1> DEFINE c == b.start - HeaderSize
           u == [chunk EXCEPT ![c].allocated = FALSE]
<1>1. /\ Chain(chunk) /\ Housed(chunk, live) /\ c \in DOMAIN chunk
      /\ at' = c /\ chunk' = u /\ live' = live \ {b} /\ step' = "freed"
  BY DEF CallFree, Sound, Housed
<1>2. /\ Chain(u) /\ DOMAIN u = DOMAIN chunk
      /\ \A d \in DOMAIN chunk :
            /\ u[d].next = chunk[d].next /\ u[d].prev = chunk[d].prev
            /\ u[d].size = chunk[d].size
            /\ u[d].allocated = IF d = c THEN FALSE ELSE chunk[d].allocated
  <2>1. FALSE \in BOOLEAN
    OBVIOUS
  <2>2. Chain(chunk) /\ c \in DOMAIN chunk
    BY <1>1
  <2> HIDE DEF c
  <2> QED BY ONLY <2>1, <2>2, MarkKeepsChain
<1>3. \A a \in live \ {b} : a \in live /\ a.start # b.start /\ a.start \in Nat /\ b.start \in Nat
  BY <1>1 DEF Housed
<1>4. \A a \in live \ {b} : a.start - HeaderSize # c
  BY <1>3, Sizes
<1>5. \A a \in live \ {b} : a.start - HeaderSize \in DOMAIN chunk
                            /\ chunk[a.start - HeaderSize].allocated
  BY <1>1 DEF Housed
<1> HIDE DEF u, c
<1>6. \A a \in live \ {b} : /\ a.start - HeaderSize \in DOMAIN u
                            /\ u[a.start - HeaderSize].allocated
                            /\ u[a.start - HeaderSize].size = chunk[a.start - HeaderSize].size
  BY <1>2, <1>4, <1>5
<1>7. Housed(u, live \ {b})
  BY <1>1, <1>6, HousedKept
<1>8. InHand'
  BY <1>1, <1>2 DEF InHand, Stands
<1> QED BY <1>1, <1>2, <1>7, <1>8 DEF Sound

LEMMA MergeBothKeeps ==
    ASSUME Sound, MergeBoth
    PROVE  Sound' /\ live' = live
<1>1. /\ Chain(chunk) /\ at \in DOMAIN chunk /\ ~ chunk[at].allocated
      /\ chunk' = Freed(at) /\ live' = live /\ step' = "idle"
  BY DEF MergeBoth, Done, Sound, InHand
<1>2. /\ Chain(chunk') /\ (Parted(chunk) => Parted(chunk'))
      /\ Kept(chunk, chunk', DOMAIN chunk \ {at})
  BY ONLY <1>1, FreedKeeps
<1>3. Housed(chunk, live)
  BY DEF Sound
<1>4. \A b \in live : b.start - HeaderSize \in DOMAIN chunk \ {at}
                      /\ chunk[b.start - HeaderSize].allocated
  BY <1>1, <1>3 DEF Housed
<1>5. Housed(chunk', live)
  BY <1>2, <1>3, <1>4, HousedKept DEF Kept
<1>6. InHand'
  BY <1>1 DEF InHand, Stands
<1> QED BY <1>1, <1>2, <1>5, <1>6 DEF Sound

-----------------------------------------------------------------------------
(* A step of the main loop: what it leaves sound, and what it says to the  *)
(* promise.                                                                *)
LEMMA MainLoopKeeps ==
    ASSUME Sound, MainLoop
    PROVE  Sound' /\ [Promise!Next]_live
<1>1. Stands /\ UNCHANGED <<handler, history>>
  BY DEF MainLoop, Sound, InHand
<1>2. Chain(chunk) /\ Housed(chunk, live)
  BY DEF Sound
<1>3. CASE \/ \E s \in Requests : CallMalloc(s)
           \/ Look \/ GiveUp \/ Decide \/ LookAround
  BY <1>1, <1>3, SearchSteps
<1>4. CASE Carve
  BY <1>4, CarveKeeps
<1>5. CASE Mark
  <2>1. /\ Sound'
        /\ \E b \in [start : Nat, size : Requests] :
              b \notin live /\ live' = live \cup {b}
    BY <1>1, <1>5, MarkKeeps
  <2>2. Chain(chunk') /\ Housed(chunk', live')
    BY <2>1 DEF Sound
  <2>3. Promise!Next
    BY ONLY <2>1, <2>2, TakingIsPromised
  <2> QED BY <2>1, <2>3
<1>6. CASE \E b \in live : CallFree(b)
  <2>1. PICK b \in live : CallFree(b)
    BY <1>6
  <2>2. Sound' /\ live' = live \ {b}
    BY <2>1, CallFreeKeeps
  <2>3. Promise!Next
    BY ONLY <1>2, <2>2, b \in live, GivingIsPromised
  <2> QED BY <2>2, <2>3
<1>7. CASE MergeBoth
  BY <1>7, MergeBothKeeps
<1> QED BY <1>3, <1>4, <1>5, <1>6, <1>7 DEF MainLoop

(* A handler's call, while the main loop is not between its writes: what   *)
(* is in hand stays so, whatever becomes of the pointer.                   *)
LEMMA HandlerKeepsHand ==
    ASSUME InHand, inside, UNCHANGED <<main, inside>>, ~ BetweenWrites
    PROVE  InHand'
BY DEF InHand, main, BetweenWrites

LEMMA HandlerKeeps ==
    ASSUME Sound,
           \/ \E s \in Requests : HandlerMalloc(s)
           \/ \E b \in live : HandlerFree(b)
    PROVE  SoundInv' /\ Promise!Next
<1>1. Chain(chunk) /\ Housed(chunk, live) /\ InHand
  BY DEF Sound
<1>2. ASSUME NEW s \in Requests, HandlerMalloc(s)
      PROVE  SoundInv' /\ Promise!Next
  <2>1. malloc(s) /\ inside /\ UNCHANGED <<main, inside>> /\ disturbed' = BetweenWrites
    BY <1>2 DEF HandlerMalloc
  <2>2. /\ Chain(chunk') /\ Housed(chunk', live')
        /\ \E b \in [start : Nat, size : Requests] :
              b \notin live /\ live' = live \cup {b}
    BY <1>1, <2>1, MallocKeeps
  <2>3. Promise!Next
    BY ONLY <2>2, TakingIsPromised
  <2>4. ~ disturbed' => InHand'
    BY <1>1, <2>1, HandlerKeepsHand
  <2> QED BY <2>2, <2>3, <2>4 DEF SoundInv, Sound
<1>3. ASSUME NEW b \in live, HandlerFree(b)
      PROVE  SoundInv' /\ Promise!Next
  <2>1. /\ free(b) /\ inside /\ UNCHANGED <<main, inside>> /\ disturbed' = BetweenWrites
        /\ live' = live \ {b}
    BY <1>3 DEF HandlerFree, free
  <2>2. Chain(chunk') /\ Housed(chunk', live')
    BY <1>1, <2>1, FreeKeeps
  <2>3. Promise!Next
    BY ONLY <1>1, <2>1, b \in live, GivingIsPromised
  <2>4. ~ disturbed' => InHand'
    BY <1>1, <2>1, HandlerKeepsHand
  <2> QED BY <2>2, <2>3, <2>4 DEF SoundInv, Sound
<1> QED BY <1>2, <1>3

LEMMA InitSound == InitShared => SoundInv
<1> SUFFICES ASSUME InitShared PROVE SoundInv
  OBVIOUS
<1>1. Chain(chunk) /\ Housed(chunk, live)
  BY InitHeap DEF InitShared, HeapInv
<1>2. InHand
  BY DEF InitShared, InHand, Stands
<1> QED BY <1>1, <1>2 DEF SoundInv, Sound

LEMMA SoundKept ==
    SoundInv /\ [NextShared]_allVars => SoundInv' /\ [Promise!Next]_live
<1> SUFFICES ASSUME SoundInv, [NextShared]_allVars
             PROVE  SoundInv' /\ [Promise!Next]_live
  OBVIOUS
<1>1. CASE UNCHANGED allVars
  BY <1>1 DEF allVars, main, handler, history, SoundInv, Sound, InHand, Stands,
              HasRest, Fits
<1>2. CASE NextShared
  <2>1. Sound /\ ~ disturbed
    BY <1>2 DEF NextShared, SoundInv
  <2>2. CASE MainLoop
    BY <2>1, <2>2, MainLoopKeeps DEF SoundInv
  <2>3. CASE Interrupt
    BY <2>1, <2>3 DEF Interrupt, main, history, SoundInv, Sound, InHand, HasRest
  <2>4. CASE Return
    BY <2>1, <2>4 DEF Return, main, SoundInv, Sound, InHand, Stands, HasRest, Fits
  <2>5. CASE \/ \E s \in Requests : HandlerMalloc(s)
             \/ \E b \in live : HandlerFree(b)
    BY <2>1, <2>5, HandlerKeeps
  <2> QED BY <1>2, <2>2, <2>3, <2>4, <2>5 DEF NextShared
<1> QED BY <1>1, <1>2

(* malloc and free keep their promise to the main loop and to all handlers *)
(* that come between the steps of its calls, until one of them takes away  *)
(* what the main loop has in hand (memorymanagement.cpp 39-63, 69-88).     *)
THEOREM SharedPromise == SpecShared => KeepsPromise
<1>1. InitShared => Promise!Init
  BY DEF InitShared, Init, Promise!Init
<1>2. InitShared => SoundInv
  BY InitSound
<1>3. SoundInv /\ [NextShared]_allVars => SoundInv' /\ [Promise!Next]_live
  BY SoundKept
<1> QED BY <1>1, <1>2, <1>3, PTL DEF SpecShared, KeepsPromise, Promise!Spec

(* Until then the list tiles the heap.                                     *)
THEOREM SharedTiling == SpecShared => [](~ disturbed => TypeOK /\ Tiled)
<1>1. InitShared => SoundInv
  BY InitSound
<1>2. SoundInv /\ [NextShared]_allVars => SoundInv'
  BY SoundKept
<1>3. SoundInv => (~ disturbed => TypeOK /\ Tiled)
  BY ChainTiles DEF SoundInv, Sound
<1> QED BY <1>1, <1>2, <1>3, PTL DEF SpecShared
-----------------------------------------------------------------------------
(* What the calls leave of the list, told by what is allocated and by the  *)
(* boundaries between two free chunks: malloc makes no boundary that was   *)
(* not one before, and free takes away the two of the chunk it frees.      *)

(* k is h with free chunk r taken, or the first part of it.                *)
Took(h, k, r) ==
    /\ r \in DOMAIN h /\ ~ h[r].allocated
    /\ r \in DOMAIN k /\ k[r].allocated
    /\ \A d \in DOMAIN h \ {r} :
          d \in DOMAIN k /\ k[d].allocated = h[d].allocated /\ EndOf(k, d) = EndOf(h, d)
    /\ \A d \in DOMAIN k \ DOMAIN h : ~ k[d].allocated
    /\ \A d \in DOMAIN k :
          FreePair(k, d) => \E e \in DOMAIN h : FreePair(h, e) /\ EndOf(h, e) = EndOf(k, d)

(* k is h with chunk c given back.                                         *)
Gave(h, k, c) ==
    /\ \A d \in DOMAIN h \ {c} :
          h[d].allocated =>
              d \in DOMAIN k /\ k[d].allocated /\ EndOf(k, d) = EndOf(h, d)
    /\ \A d \in DOMAIN k :
          k[d].allocated => d \in DOMAIN h \ {c} /\ h[d].allocated
    /\ \A d \in DOMAIN k :
          FreePair(k, d) =>
              \E e \in DOMAIN h : /\ FreePair(h, e) /\ EndOf(h, e) = EndOf(k, d)
                                  /\ EndOf(h, e) \notin {c, EndOf(h, c)}

(* Two chunks with the same successor end at the same place.               *)
LEMMA SameNextSameEnd ==
    ASSUME NEW h, Chain(h), NEW k, Chain(k), NEW c \in DOMAIN h, NEW d \in DOMAIN k,
           h[c].next = k[d].next
    PROVE  EndOf(h, c) = EndOf(k, d)
BY DEF Chain, Forward

(* Splitting a chunk makes one boundary, if it was free; the others stay.  *)
LEMMA SplitPairs ==
    ASSUME Chain(chunk), NEW r \in DOMAIN chunk, NEW size \in Nat,
           HasRest(r, size), NEW s, s = Split(r, size)
    PROVE  /\ r \in DOMAIN s /\ s[r].allocated = chunk[r].allocated
           /\ EndOf(s, r) = r + HeaderSize + size /\ s[r].next # chunk[r].next
           /\ \A d \in DOMAIN chunk \ {r} :
                 /\ d \in DOMAIN s /\ s[d].allocated = chunk[d].allocated
                 /\ EndOf(s, d) = EndOf(chunk, d)
           /\ \A d \in DOMAIN s \ DOMAIN chunk : ~ s[d].allocated
           /\ ~ chunk[r].allocated => \A d \in DOMAIN s \ {r} : FreePair(s, d) =>
                 \E e \in DOMAIN chunk : FreePair(chunk, e) /\ EndOf(chunk, e) = EndOf(s, d)
<1>1. PICK t :
      /\ Chain(s) /\ DOMAIN s = DOMAIN chunk \cup {t} /\ t \notin DOMAIN chunk
      /\ s[t].next = chunk[r].next /\ ~ s[t].allocated
      /\ s[r].size = size /\ s[r].next = t
      /\ \A d \in DOMAIN chunk :
            /\ s[d].allocated = chunk[d].allocated
            /\ d # r => s[d].size = chunk[d].size /\ s[d].next = chunk[d].next
  BY SplitKeepsChain
<1>2. \A d \in DOMAIN chunk : chunk[d].next \in DOMAIN chunk \cup {Null}
  BY ChainFacts
<1>3. t \in Nat
  BY <1>1, ChainFacts
<1>4. ASSUME NEW d \in DOMAIN s, FreePair(s, d), ~ chunk[r].allocated, d # r
      PROVE  \E e \in DOMAIN chunk : FreePair(chunk, e) /\ EndOf(chunk, e) = EndOf(s, d)
  <2>1. s[d].next # Null /\ ~ s[d].allocated /\ ~ s[s[d].next].allocated
    BY <1>4 DEF FreePair
  <2>2. CASE d = t
    <3>1. FreePair(chunk, r)
      BY <1>1, <1>2, <1>4, <2>1, <2>2 DEF FreePair
    <3>2. EndOf(chunk, r) = EndOf(s, d)
      BY <1>1, <2>2, SameNextSameEnd
    <3> QED BY <3>1, <3>2
  <2>3. CASE d # t
    <3>1. d \in DOMAIN chunk /\ s[d].next = chunk[d].next /\ s[d].size = chunk[d].size
      BY <1>1, <1>4, <2>3
    <3>2. FreePair(chunk, d)
      BY <1>1, <1>2, <2>1, <3>1 DEF FreePair
    <3> QED BY <3>1, <3>2 DEF EndOf
  <2> QED BY <2>2, <2>3
<1>5. s[r].next # chunk[r].next
  BY <1>1, <1>2, <1>3 DEF Null
<1> QED BY <1>1, <1>4, <1>5 DEF EndOf

(* A chunk is marked: a boundary that comes about is one of its own.       *)
LEMMA MarkPairs ==
    ASSUME NEW h, Chain(h), NEW c \in DOMAIN h, NEW b \in BOOLEAN
    PROVE  LET k == [h EXCEPT ![c].allocated = b] IN
           /\ Chain(k) /\ DOMAIN k = DOMAIN h
           /\ \A d \in DOMAIN h :
                 /\ EndOf(k, d) = EndOf(h, d) /\ k[d].next = h[d].next
                 /\ k[d].allocated = IF d = c THEN b ELSE h[d].allocated
           /\ \A d \in DOMAIN h :
                 FreePair(k, d) => FreePair(h, d) \/ d = c \/ EndOf(h, d) = c
<1> DEFINE k == [h EXCEPT ![c].allocated = b]
<1>1. /\ Chain(k) /\ DOMAIN k = DOMAIN h
      /\ \A d \in DOMAIN h :
            /\ k[d].next = h[d].next /\ k[d].prev = h[d].prev
            /\ k[d].size = h[d].size
            /\ k[d].allocated = IF d = c THEN b ELSE h[d].allocated
  BY ONLY MarkKeepsChain, Chain(h), c \in DOMAIN h, b \in BOOLEAN
<1>2. \A d \in DOMAIN h : /\ h[d].next \in DOMAIN h \cup {Null}
                          /\ h[d].next # Null => h[d].next = EndOf(h, d)
  BY ChainFacts
<1> HIDE DEF k
<1>3. \A d \in DOMAIN h :
         FreePair(k, d) => FreePair(h, d) \/ d = c \/ EndOf(h, d) = c
  BY <1>1, <1>2 DEF FreePair
<1>4. \A d \in DOMAIN h : EndOf(k, d) = EndOf(h, d)
  BY <1>1 DEF EndOf
<1> QED BY <1>1, <1>3, <1>4 DEF k

(* malloc takes a free chunk, or its first part, for a block nobody has.   *)
LEMMA MallocTook ==
    ASSUME Chain(chunk), Housed(chunk, live), NEW size \in Requests, malloc(size)
    PROVE  \E r, b :
              /\ Took(chunk, chunk', r)
              /\ b.start = r + HeaderSize /\ b \notin live /\ live' = live \cup {b}
<1> DEFINE r == Search(size)
           D == DOMAIN chunk
           k == IF HasRest(r, size) THEN Split(r, size) ELSE chunk
           b == [start |-> r + HeaderSize, size |-> size]
<1>1. r # Null /\ chunk' = Taken(k, r) /\ live' = live \cup {b}
  BY DEF malloc
<1>2. r \in D /\ Fits(r, size) /\ size \in Nat
  BY <1>1, SearchFits, Sizes
<1>3. ~ chunk[r].allocated
  BY <1>2 DEF Fits
<1> HIDE DEF r
<1>4. /\ Chain(k) /\ r \in DOMAIN k
      /\ \A d \in D \ {r} :
            d \in DOMAIN k /\ k[d].allocated = chunk[d].allocated
            /\ EndOf(k, d) = EndOf(chunk, d)
      /\ \A d \in DOMAIN k \ D : ~ k[d].allocated
      /\ \A d \in DOMAIN k \ {r} :
            FreePair(k, d) => \E e \in D : FreePair(chunk, e) /\ EndOf(chunk, e) = EndOf(k, d)
  <2>1. CASE HasRest(r, size)
    <3> DEFINE s == Split(r, size)
    <3>1. /\ r \in DOMAIN s
          /\ \A d \in DOMAIN chunk \ {r} :
                /\ d \in DOMAIN s /\ s[d].allocated = chunk[d].allocated
                /\ EndOf(s, d) = EndOf(chunk, d)
          /\ \A d \in DOMAIN s \ DOMAIN chunk : ~ s[d].allocated
          /\ ~ chunk[r].allocated => \A d \in DOMAIN s \ {r} : FreePair(s, d) =>
                \E e \in DOMAIN chunk : FreePair(chunk, e) /\ EndOf(chunk, e) = EndOf(s, d)
      BY <1>2, <2>1, SplitPairs
    <3>2. Chain(s)
      BY <1>2, <2>1, SplitKeepsChain
    <3>3. k = s
      BY <2>1
    <3> HIDE DEF k, s
    <3> QED BY <1>3, <3>1, <3>2, <3>3
  <2>2. CASE ~ HasRest(r, size)
    <3>1. k = chunk
      BY <2>2
    <3> HIDE DEF k
    <3> QED BY <1>2, <3>1
  <2> QED BY <2>1, <2>2
<1> HIDE DEF k
<1>5. /\ DOMAIN chunk' = DOMAIN k
      /\ \A d \in DOMAIN k :
            /\ EndOf(chunk', d) = EndOf(k, d)
            /\ chunk'[d].allocated = IF d = r THEN TRUE ELSE k[d].allocated
            /\ FreePair(chunk', d) => FreePair(k, d) /\ d # r
  <2> DEFINE u == [k EXCEPT ![r].allocated = TRUE]
  <2>1. chunk' = u
    BY <1>1 DEF Taken
  <2>2. Chain(k) /\ r \in DOMAIN k /\ TRUE \in BOOLEAN
    BY <1>4
  <2>3. /\ Chain(u) /\ DOMAIN u = DOMAIN k
        /\ \A d \in DOMAIN k :
              /\ EndOf(u, d) = EndOf(k, d) /\ u[d].next = k[d].next
              /\ u[d].allocated = IF d = r THEN TRUE ELSE k[d].allocated
        /\ \A d \in DOMAIN k :
              FreePair(u, d) => FreePair(k, d) \/ d = r \/ EndOf(k, d) = r
    BY ONLY <2>2, MarkPairs
  <2>4. \A d \in DOMAIN k : /\ k[d].next \in DOMAIN k \cup {Null}
                            /\ k[d].next # Null => k[d].next = EndOf(k, d)
    BY <2>2, ChainFacts
  <2> HIDE DEF u
  <2>5. \A d \in DOMAIN k : FreePair(u, d) => FreePair(k, d) /\ d # r
    BY <2>2, <2>3, <2>4 DEF FreePair
  <2> QED BY <2>1, <2>3, <2>5
<1>6. Took(chunk, chunk', r)
  BY <1>2, <1>3, <1>4, <1>5 DEF Took
<1>7. b.start = r + HeaderSize
  OBVIOUS
<1>8. b \notin live
  <2> HIDE DEF b
  <2> QED BY <1>2, <1>3, <1>7, FreshBlock
<1> HIDE DEF b
<1> QED BY <1>1, <1>6, <1>7, <1>8

(* A merge of two free chunks takes away the boundary between them.        *)
LEMMA JoinGave ==
    ASSUME NEW h, Chain(h), NEW c \in DOMAIN h, FreePair(h, c),
           NEW k, k = Merge(h, c)
    PROVE  /\ Chain(k) /\ c \in DOMAIN k /\ ~ k[c].allocated
           /\ k[c].next = h[h[c].next].next
           /\ \A d \in DOMAIN h : h[d].allocated =>
                 d \in DOMAIN k /\ k[d].allocated /\ EndOf(k, d) = EndOf(h, d)
           /\ \A d \in DOMAIN k : k[d].allocated => d \in DOMAIN h /\ h[d].allocated
           /\ \A d \in DOMAIN k :
                 FreePair(k, d) =>
                     \E e \in DOMAIN h : /\ FreePair(h, e) /\ EndOf(h, e) = EndOf(k, d)
                                         /\ EndOf(h, e) # EndOf(h, c)
<1> DEFINE D == DOMAIN h
           n == h[c].next
           m == h[n].next
           j == Merge(h, c)
<1>1. h[c].next # Null /\ ~ h[c].allocated /\ ~ h[n].allocated
  BY DEF FreePair
<1>2. /\ n \in D /\ c < n /\ h[n].prev = c /\ n = EndOf(h, c)
      /\ m \in (D \ {c, n}) \cup {Null} /\ n \notin {0, Null}
      /\ j \in [D \ {n} -> Headers(D)]
      /\ DOMAIN j = D \ {n}
      /\ j[c].next = m /\ j[c].size = h[c].size + h[n].size + HeaderSize
      /\ j[c].allocated = h[c].allocated
      /\ \A d \in D \ {n} :
            /\ j[d].prev = IF d = m THEN c ELSE h[d].prev
            /\ d # c => /\ j[d].next = h[d].next /\ j[d].size = h[d].size
                        /\ j[d].allocated = h[d].allocated
  <2>1. h[c].next # Null
    BY <1>1
  <2> QED BY ONLY MergeFields, Chain(h), c \in DOMAIN h, <2>1
<1>3. Chain(k) /\ EndOf(k, c) = EndOf(h, n)
  BY <1>1, MergeKeepsChain
<1>4. \A d \in D \ {n} :
         FreePair(k, d) =>
             \/ d # c /\ FreePair(h, d)
             \/ d = c /\ m # Null /\ ~ h[m].allocated
  BY <1>1, MergePairs
<1>5. c \in Nat /\ c # n
  BY <1>2, ChainFacts
<1>6. k = j
  OBVIOUS
<1>7. \A x, y \in D : x < y => EndOf(h, x) <= y
  BY DEF Chain, Apart
<1>8. \A x \in D : x \in Nat /\ EndOf(h, x) \in Nat /\ x < EndOf(h, x)
  BY ChainFacts
<1> HIDE DEF n, m, j
<1>9. /\ DOMAIN k = D \ {n} /\ k[c].next = m /\ ~ k[c].allocated
      /\ \A d \in D \ {n} : d # c => /\ EndOf(k, d) = EndOf(h, d)
                                     /\ k[d].allocated = h[d].allocated
  BY <1>1, <1>2, <1>6 DEF EndOf
<1>10. ASSUME NEW d \in DOMAIN k, FreePair(k, d)
       PROVE  \E e \in D : /\ FreePair(h, e) /\ EndOf(h, e) = EndOf(k, d)
                           /\ EndOf(h, e) # EndOf(h, c)
  <2>1. CASE d # c
    <3>1. FreePair(h, d) /\ d \in D /\ EndOf(h, d) = EndOf(k, d)
      BY <1>4, <1>9, <1>10, <2>1
    <3>2. EndOf(h, d) # EndOf(h, c)
      <4>1. CASE d < c
        BY <1>7, <1>8, <3>1, <4>1
      <4>2. CASE c < d
        BY <1>7, <1>8, <3>1, <4>2
      <4> QED BY <1>8, <2>1, <3>1, <4>1, <4>2
    <3> QED BY <3>1, <3>2
  <2>2. CASE d = c
    <3>1. FreePair(h, n)
      BY <1>1, <1>4, <1>9, <1>10, <2>2 DEF FreePair, m
    <3>2. EndOf(h, n) # EndOf(h, c)
      BY <1>2, <1>8
    <3> QED BY <1>2, <1>3, <2>2, <3>1, <3>2
  <2> QED BY <2>1, <2>2
<1>11. c \in DOMAIN k /\ k[c].next = h[h[c].next].next
  BY <1>5, <1>9 DEF n, m
<1>12. \A d \in D : h[d].allocated =>
          d \in DOMAIN k /\ k[d].allocated /\ EndOf(k, d) = EndOf(h, d)
  BY <1>1, <1>9
<1>13. \A d \in DOMAIN k : k[d].allocated => d \in D /\ h[d].allocated
  BY <1>9
<1> QED BY <1>3, <1>9, <1>10, <1>11, <1>12, <1>13

(* free takes away the boundaries of the chunk, on both sides.             *)
LEMMA FreedGave ==
    ASSUME Chain(chunk), NEW c \in DOMAIN chunk, NEW k, k = Freed(c)
    PROVE  Gave(chunk, k, c)
<1> DEFINE D == DOMAIN chunk
           mem == [chunk EXCEPT ![c].allocated = FALSE]
           p == chunk[c].prev
           before == IsFree(mem, p)
           left == IF before THEN p ELSE c
           joined == IF before THEN Merge(mem, p) ELSE mem
           e == EndOf(chunk, c)
<1>1. /\ Chain(mem) /\ DOMAIN mem = D
      /\ \A d \in D :
            /\ EndOf(mem, d) = EndOf(chunk, d) /\ mem[d].next = chunk[d].next
            /\ mem[d].allocated = IF d = c THEN FALSE ELSE chunk[d].allocated
      /\ \A d \in D :
            FreePair(mem, d) => FreePair(chunk, d) \/ d = c \/ EndOf(chunk, d) = c
  <2>1. Chain(chunk) /\ c \in DOMAIN chunk /\ FALSE \in BOOLEAN
    OBVIOUS
  <2> QED BY ONLY <2>1, MarkPairs
<1>2. k = IF IsFree(joined, joined[left].next) THEN Merge(joined, left) ELSE joined
  <2>1. mem[c].prev = p
    BY MarkKeepsChain
  <2> HIDE DEF p
  <2> QED BY <2>1 DEF Freed
<1> HIDE DEF mem
<1>3. /\ p \in D \cup {Null}
      /\ p # Null => p \in D /\ chunk[p].next = c
      /\ c # Null /\ c \in Nat /\ e \in Nat /\ c < e
  BY ChainFacts DEF Chain, Back, Null
<1>4. \A d \in D : FreePair(mem, d) /\ EndOf(chunk, d) = c => d = p /\ FreePair(mem, p)
  <2> SUFFICES ASSUME NEW d \in D, FreePair(mem, d), EndOf(chunk, d) = c
               PROVE  d = p
    OBVIOUS
  <2>1. chunk[d].next # Null
    BY <1>1 DEF FreePair
  <2>2. chunk[d].next = c
    BY <2>1 DEF Chain, Forward
  <2> QED BY <1>3, <2>2 DEF Chain, Forward
<1>5. \A a, b \in D : EndOf(chunk, a) = EndOf(chunk, b) => a = b
  <2>1. \A x, y \in D : x < y => EndOf(chunk, x) <= y
    BY DEF Chain, Apart
  <2>2. \A x \in D : x \in Nat /\ EndOf(chunk, x) \in Nat /\ x < EndOf(chunk, x)
    BY ChainFacts
  <2> QED BY <2>1, <2>2
(* After the merge with the chunk before: the boundary at c is gone, and   *)
(* what begins at left ends where c did.                                   *)
<1>6. /\ Chain(joined) /\ left \in DOMAIN joined /\ ~ joined[left].allocated
      /\ EndOf(joined, left) = e
      /\ \A d \in D \ {c} : chunk[d].allocated =>
            d \in DOMAIN joined /\ joined[d].allocated /\ EndOf(joined, d) = EndOf(chunk, d)
      /\ \A d \in DOMAIN joined : joined[d].allocated => d \in D \ {c} /\ chunk[d].allocated
      /\ \A d \in DOMAIN joined :
            FreePair(joined, d) =>
               \/ EndOf(joined, d) = e
               \/ \E x \in D : /\ FreePair(chunk, x) /\ EndOf(chunk, x) = EndOf(joined, d)
                               /\ EndOf(chunk, x) # c
  <2>1. CASE before
    <3> DEFINE j == Merge(mem, p)
    <3>1. p \in D /\ FreePair(mem, p) /\ mem[p].next = c /\ EndOf(chunk, p) = c
      <4>1. p \in D /\ chunk[p].next = c
        BY <1>3, <2>1 DEF IsFree
      <4>2. EndOf(chunk, p) = c
        BY <1>3, <4>1 DEF Chain, Forward
      <4> QED BY <1>1, <1>3, <2>1, <4>1, <4>2 DEF IsFree, FreePair
    <3>2. /\ Chain(j) /\ p \in DOMAIN j /\ ~ j[p].allocated
          /\ j[p].next = mem[mem[p].next].next
          /\ \A d \in DOMAIN mem : mem[d].allocated =>
                d \in DOMAIN j /\ j[d].allocated /\ EndOf(j, d) = EndOf(mem, d)
          /\ \A d \in DOMAIN j : j[d].allocated => d \in DOMAIN mem /\ mem[d].allocated
          /\ \A d \in DOMAIN j :
                FreePair(j, d) =>
                    \E x \in DOMAIN mem : /\ FreePair(mem, x) /\ EndOf(mem, x) = EndOf(j, d)
                                          /\ EndOf(mem, x) # EndOf(mem, p)
      BY ONLY <1>1, <3>1, JoinGave
    <3>3. EndOf(j, p) = e
      <4>1. j[p].next = chunk[c].next
        BY <1>1, <3>1, <3>2
      <4> QED BY <3>2, <4>1, SameNextSameEnd
    <3>4. joined = j /\ left = p
      BY <2>1
    <3> HIDE DEF joined, left, j, before, p, e
    <3>5. ASSUME NEW d \in DOMAIN j, FreePair(j, d)
          PROVE  \/ EndOf(j, d) = e
                 \/ \E x \in D : /\ FreePair(chunk, x) /\ EndOf(chunk, x) = EndOf(j, d)
                                 /\ EndOf(chunk, x) # c
      <4>1. PICK x \in D : /\ FreePair(mem, x) /\ EndOf(mem, x) = EndOf(j, d)
                           /\ EndOf(mem, x) # EndOf(mem, p)
        BY <1>1, <3>2, <3>5
      <4>2. EndOf(chunk, x) # c /\ EndOf(chunk, x) = EndOf(j, d)
        BY <1>1, <3>1, <4>1
      <4>3. FreePair(chunk, x) \/ x = c
        BY <1>1, <4>1, <4>2
      <4> QED BY <4>2, <4>3 DEF e
    <3> QED BY <1>1, <3>2, <3>3, <3>4, <3>5
  <2>2. CASE ~ before
    <3>1. joined = mem /\ left = c
      BY <2>2
    <3>2. ~ FreePair(mem, p) \/ p = Null
      BY <2>2 DEF IsFree, FreePair
    <3>3. \A d \in D : FreePair(mem, d) => EndOf(chunk, d) # c
      BY <1>3, <1>4, <3>2, ChainFacts DEF Null
    <3>4. ~ mem[c].allocated /\ c \in DOMAIN mem /\ EndOf(mem, c) = e
      BY <1>1
    <3> HIDE DEF joined, left, before, e
    <3>5. \A d \in D : FreePair(mem, d) => FreePair(chunk, d) \/ EndOf(mem, d) = e
      BY <1>1, <3>3, <3>4
    <3> QED BY <1>1, <3>1, <3>3, <3>4, <3>5
  <2> QED BY <2>1, <2>2
<1> HIDE DEF joined, left, before, p, e
<1>7. CASE IsFree(joined, joined[left].next)
  <2>1. FreePair(joined, left) /\ k = Merge(joined, left)
    BY <1>2, <1>6, <1>7 DEF IsFree, FreePair
  <2>2. /\ \A d \in DOMAIN joined : joined[d].allocated =>
              d \in DOMAIN k /\ k[d].allocated /\ EndOf(k, d) = EndOf(joined, d)
        /\ \A d \in DOMAIN k : k[d].allocated => d \in DOMAIN joined /\ joined[d].allocated
        /\ \A d \in DOMAIN k :
              FreePair(k, d) =>
                 \E x \in DOMAIN joined : /\ FreePair(joined, x)
                                          /\ EndOf(joined, x) = EndOf(k, d)
                                          /\ EndOf(joined, x) # EndOf(joined, left)
    BY ONLY <1>6, <2>1, JoinGave
  <2>3. ASSUME NEW d \in DOMAIN k, FreePair(k, d)
        PROVE  \E x \in D : /\ FreePair(chunk, x) /\ EndOf(chunk, x) = EndOf(k, d)
                            /\ EndOf(chunk, x) \notin {c, e}
    <3>1. PICK y \in DOMAIN joined : /\ FreePair(joined, y)
                                     /\ EndOf(joined, y) = EndOf(k, d)
                                     /\ EndOf(joined, y) # e
      BY <1>6, <2>2, <2>3
    <3>2. PICK x \in D : /\ FreePair(chunk, x) /\ EndOf(chunk, x) = EndOf(joined, y)
                         /\ EndOf(chunk, x) # c
      BY <1>6, <3>1
    <3> QED BY <3>1, <3>2
  <2> QED BY <1>6, <2>2, <2>3 DEF Gave, e
<1>8. CASE ~ IsFree(joined, joined[left].next)
  <2>1. ~ FreePair(joined, left) /\ k = joined
    BY <1>2, <1>8 DEF IsFree, FreePair
  <2>2. ASSUME NEW d \in DOMAIN joined, FreePair(joined, d)
        PROVE  EndOf(joined, d) # e
    <3>1. \A x, y \in DOMAIN joined : x < y => EndOf(joined, x) <= y
      BY <1>6 DEF Chain, Apart
    <3>2. \A x \in DOMAIN joined :
             x \in Nat /\ EndOf(joined, x) \in Nat /\ x < EndOf(joined, x)
      BY <1>6, ChainFacts
    <3>3. d # left
      BY <2>1, <2>2
    <3>4. EndOf(joined, d) # EndOf(joined, left)
      <4>1. CASE d < left
        BY <1>6, <3>1, <3>2, <4>1
      <4>2. CASE left < d
        BY <1>6, <3>1, <3>2, <4>2
      <4> QED BY <1>6, <3>2, <3>3, <4>1, <4>2
    <3> QED BY <1>6, <3>4
  <2>3. ASSUME NEW d \in DOMAIN k, FreePair(k, d)
        PROVE  \E x \in D : /\ FreePair(chunk, x) /\ EndOf(chunk, x) = EndOf(k, d)
                            /\ EndOf(chunk, x) \notin {c, e}
    <3>1. EndOf(joined, d) # e /\ FreePair(joined, d) /\ d \in DOMAIN joined
      BY <2>1, <2>2, <2>3
    <3>2. PICK x \in D : /\ FreePair(chunk, x) /\ EndOf(chunk, x) = EndOf(joined, d)
                         /\ EndOf(chunk, x) # c
      BY <1>6, <3>1
    <3> QED BY <2>1, <3>1, <3>2
  <2> QED BY <1>6, <2>1, <2>3 DEF Gave, e
<1> QED BY <1>7, <1>8

-----------------------------------------------------------------------------
(* Coalesced, with handlers between the steps.  Where the main loop is     *)
(* outside its writes no two neighbours are free.  Once it has split a     *)
(* chunk, the one boundary between free chunks is the one it made; once it *)
(* has marked a chunk free, they are the two of that chunk, and what is    *)
(* allocated between them is the handler's own.                            *)

PairsAt(h, P) == \A c \in DOMAIN h : FreePair(h, c) => EndOf(h, c) \in P

Home(b) == b.start - HeaderSize

(* What is allocated between c and e is a block of these.                  *)
Cleared(h, c, e, blocks) ==
    \A d \in DOMAIN h : h[d].allocated /\ d < e /\ c < EndOf(h, d) =>
        \E b \in blocks : Home(b) = d

PartedSoFar ==
    /\ step \in {"idle", "search", "found", "carving"} => Parted(chunk)
    /\ step = "mark" => PairsAt(chunk, {at + HeaderSize + want})
    /\ step \in {"freed", "merging"} =>
          \E e \in Nat : /\ at < e /\ PairsAt(chunk, {at, e})
                         /\ Cleared(chunk, at, e, own)

(* The handler's list and the one it found, entry, differ in the blocks it *)
(* has taken alone: what was allocated is, and what is allocated was or is *)
(* the handler's own.                                                      *)
OnlyOwn ==
    /\ Chain(entry) /\ Parted(entry)
    /\ \A c \in DOMAIN entry : entry[c].allocated =>
          c \in DOMAIN chunk /\ chunk[c].allocated /\ EndOf(chunk, c) = EndOf(entry, c)
    /\ \A c \in DOMAIN chunk : chunk[c].allocated =>
          (c \in DOMAIN entry /\ entry[c].allocated) \/ \E b \in own : Home(b) = c
    /\ \A b \in own : Home(b) \in DOMAIN entry => ~ entry[Home(b)].allocated

Pieces ==
    /\ step \in {"idle", "search", "found", "carving", "mark", "freed", "merging"}
    /\ ~ inPieces => PartedSoFar
    /\ ~ inside \/ step = "merging" => own = {}
    /\ inside /\ Quiet /\ entry # <<>> => OnlyOwn

SharedInv == ~ disturbed => Sound /\ Pieces

LEMMA PartedPairs ==
    ASSUME NEW h, NEW P, Parted(h)
    PROVE  PairsAt(h, P)
BY DEF Parted, PairsAt

(* Neither call makes a boundary between free chunks that was none.        *)
LEMMA TookPairs ==
    ASSUME NEW h, NEW k, NEW r, Took(h, k, r), NEW P, PairsAt(h, P)
    PROVE  PairsAt(k, P)
BY DEF Took, PairsAt

LEMMA GavePairs ==
    ASSUME NEW h, NEW k, NEW c, Gave(h, k, c), NEW P, PairsAt(h, P)
    PROVE  PairsAt(k, P)
BY DEF Gave, PairsAt

LEMMA NoPairs ==
    ASSUME NEW h
    PROVE  Parted(h) <=> PairsAt(h, {})
BY DEF Parted, PairsAt

(* The chunks' addresses and ends, in order.                               *)
LEMMA InOrderAlong ==
    ASSUME NEW h, Chain(h)
    PROVE  /\ \A c \in DOMAIN h : c \in Nat /\ EndOf(h, c) \in Nat /\ c < EndOf(h, c)
           /\ \A c, d \in DOMAIN h : c < d => EndOf(h, c) <= d
           /\ \A c \in DOMAIN h : h[c].next # Null =>
                 h[c].next \in DOMAIN h /\ h[c].next = EndOf(h, c)
BY ChainFacts DEF Chain, Apart

(* Two chains without free neighbours that have the same chunks allocated, *)
(* with the same ends, are the same.                                       *)
LEMMA SameChunks ==
    ASSUME NEW g, Chain(g), Parted(g), NEW h, Chain(h),
           \A c \in DOMAIN g : g[c].allocated =>
              c \in DOMAIN h /\ h[c].allocated /\ EndOf(h, c) = EndOf(g, c),
           \A c \in DOMAIN h : h[c].allocated => c \in DOMAIN g /\ g[c].allocated
    PROVE  \A c \in DOMAIN g : c \in DOMAIN h /\ h[c].allocated = g[c].allocated
<1> SUFFICES ASSUME NEW c \in DOMAIN g
             PROVE  c \in DOMAIN h /\ h[c].allocated = g[c].allocated
  OBVIOUS
<1>1. c \in DOMAIN h
  <2>1. CASE c = 0
    BY <2>1 DEF Chain, Typed
  <2>2. CASE g[c].allocated
    BY <2>2
  <2>3. CASE c # 0 /\ ~ g[c].allocated
    <3> DEFINE p == g[c].prev
    <3>1. p \in DOMAIN g /\ g[p].next = c /\ c # Null
      BY <2>3, ChainFacts DEF Chain, Back, Null
    <3>2. g[p].allocated
      <4>1. ~ FreePair(g, p)
        BY <3>1 DEF Parted
      <4> QED BY <2>3, <3>1, <4>1 DEF FreePair
    <3>3. p \in DOMAIN h /\ EndOf(h, p) = c
      <4>1. EndOf(g, p) = c
        BY <3>1, InOrderAlong
      <4> QED BY <3>1, <3>2, <4>1
    <3>4. h[p].next # Null
      <4>1. c <= HeapSize - HeaderSize /\ c \in Nat
        BY ChainFacts
      <4>2. EndOf(h, p) # HeapSize
        BY <3>3, <4>1, Sizes
      <4> QED BY <3>3, <4>2 DEF Chain, Forward
    <3> QED BY <3>3, <3>4, InOrderAlong
  <2> QED BY <2>1, <2>2, <2>3
<1>2. g[c].allocated \in BOOLEAN /\ h[c].allocated \in BOOLEAN
  BY <1>1, ChainFacts
<1> QED BY <1>1, <1>2

LEMMA SameChain ==
    ASSUME NEW g, Chain(g), Parted(g), NEW h, Chain(h), Parted(h),
           \A c \in DOMAIN g : g[c].allocated =>
              c \in DOMAIN h /\ h[c].allocated /\ EndOf(h, c) = EndOf(g, c),
           \A c \in DOMAIN h : h[c].allocated => c \in DOMAIN g /\ g[c].allocated
    PROVE  h = g
<1>1. \A c \in DOMAIN g : c \in DOMAIN h /\ h[c].allocated = g[c].allocated
  BY SameChunks
<1>2. \A c \in DOMAIN h : c \in DOMAIN g /\ g[c].allocated = h[c].allocated
  <2>1. \A c \in DOMAIN h : h[c].allocated =>
           c \in DOMAIN g /\ g[c].allocated /\ EndOf(g, c) = EndOf(h, c)
    OBVIOUS
  <2>2. \A c \in DOMAIN g : g[c].allocated => c \in DOMAIN h /\ h[c].allocated
    OBVIOUS
  <2> QED BY ONLY <2>1, <2>2, Chain(g), Chain(h), Parted(h), SameChunks
<1>3. DOMAIN g = DOMAIN h
  BY <1>1, <1>2
<1> DEFINE D == DOMAIN g
<1>4. ASSUME NEW c \in D
      PROVE  EndOf(g, c) = EndOf(h, c) /\ g[c].next = h[c].next
  <2>1. /\ c \in Nat /\ EndOf(g, c) \in Nat /\ EndOf(h, c) \in Nat
        /\ c < EndOf(g, c) /\ c < EndOf(h, c)
    BY <1>3, InOrderAlong
  <2>2. /\ IF g[c].next = Null THEN EndOf(g, c) = HeapSize
           ELSE g[c].next = EndOf(g, c) /\ g[c].next \in D
        /\ IF h[c].next = Null THEN EndOf(h, c) = HeapSize
           ELSE h[c].next = EndOf(h, c) /\ h[c].next \in D
    BY <1>3, ChainFacts DEF Chain, Forward
  <2>3. \A d \in D : d \in Nat /\ d < HeapSize /\ d # Null
    BY ChainFacts, Sizes DEF Null
  <2>4. \A d \in D : c < d => EndOf(g, c) <= d /\ EndOf(h, c) <= d
    BY <1>3, InOrderAlong
  <2>5. EndOf(g, c) <= HeapSize /\ EndOf(h, c) <= HeapSize /\ HeapSize \in Nat
    BY <1>3, ChainFacts, Sizes
  <2>6. EndOf(h, c) <= EndOf(g, c)
    BY <2>1, <2>2, <2>4, <2>5
  <2>7. EndOf(g, c) <= EndOf(h, c)
    BY <2>1, <2>2, <2>4, <2>5
  <2>8. EndOf(g, c) = EndOf(h, c)
    BY <2>1, <2>6, <2>7
  <2> QED BY <2>2, <2>3, <2>8
<1>5. ASSUME NEW c \in D
      PROVE  g[c].prev = h[c].prev
  <2>1. /\ g[c].prev = Null <=> c = 0
        /\ h[c].prev = Null <=> c = 0
        /\ g[c].prev # Null => g[c].prev \in D /\ g[g[c].prev].next = c
        /\ h[c].prev # Null => h[c].prev \in D
    BY <1>3, ChainFacts DEF Chain, Back
  <2>2. CASE c = 0
    BY <2>1, <2>2
  <2>3. CASE c # 0
    <3> DEFINE p == g[c].prev
    <3>1. p \in D /\ g[p].next = c /\ h[p].next = c
      BY <1>4, <2>1, <2>3
    <3>2. c # Null
      BY ChainFacts DEF Null
    <3>3. h[h[p].next].prev = p
      BY <1>3, <3>1, <3>2 DEF Chain, Forward
    <3> QED BY <3>1, <3>3
  <2> QED BY <2>2, <2>3
<1>6. ASSUME NEW c \in D
      PROVE  g[c] = h[c]
  <2>1. /\ g[c] = Header(g[c].next, g[c].prev, g[c].allocated, g[c].size)
        /\ h[c] = Header(h[c].next, h[c].prev, h[c].allocated, h[c].size)
        /\ g[c].size \in Nat /\ h[c].size \in Nat /\ c \in Nat
    BY <1>3, ChainFacts
  <2>2. g[c].size = h[c].size
    BY <1>4, <2>1, Sizes DEF EndOf
  <2>3. g[c].allocated = h[c].allocated
    BY <1>1
  <2> QED BY <1>4, <1>5, <2>1, <2>2, <2>3
<1>7. g = [c \in DOMAIN g |-> g[c]] /\ h = [c \in DOMAIN h |-> h[c]]
  BY DEF Chain, Typed
<1> QED BY <1>3, <1>6, <1>7

(* So a handler that has freed all it took leaves the list as it was.      *)
LEMMA SharedInvImplies == SharedInv => SharedInOrder
<1> SUFFICES ASSUME SharedInv, ~ disturbed PROVE ListInOrder /\ LeavesNoTrace
  BY DEF SharedInOrder
<1>1. Chain(chunk) /\ Housed(chunk, live) /\ Pieces
  BY DEF SharedInv, Sound
<1>2. Quiet => Parted(chunk)
  BY <1>1 DEF Quiet, Pieces, PartedSoFar
<1>3. Quiet => Coalesced
  BY <1>2 DEF Coalesced, Parted, FreePair
<1>4. LeavesNoTrace
  <2> SUFFICES ASSUME Quiet, inside, own = {}, entry # <<>> PROVE chunk = entry
    BY DEF LeavesNoTrace
  <2>1. OnlyOwn
    BY <1>1 DEF Pieces
  <2>2. /\ Chain(entry) /\ Parted(entry)
        /\ \A c \in DOMAIN entry : entry[c].allocated =>
              c \in DOMAIN chunk /\ chunk[c].allocated /\ EndOf(chunk, c) = EndOf(entry, c)
        /\ \A c \in DOMAIN chunk : chunk[c].allocated => c \in DOMAIN entry /\ entry[c].allocated
    BY <2>1 DEF OnlyOwn
  <2> QED BY ONLY <1>1, <1>2, <2>2, Quiet, SameChain
<1> QED BY <1>1, <1>3, <1>4, ChainTiles DEF ListInOrder

-----------------------------------------------------------------------------
(* The steps of the main loop that write.                                  *)
LEMMA CarvePieces ==
    ASSUME Sound, Pieces, Carve, ~ inside, UNCHANGED <<handler, history>>
    PROVE  Pieces'
<1>1. /\ Chain(chunk) /\ at \in DOMAIN chunk /\ ~ chunk[at].allocated
      /\ want \in Nat /\ HasRest(at, want) /\ chunk' = Split(at, want)
      /\ step = "carving" /\ step' = "mark" /\ at' = at /\ want' = want
      /\ inside' = inside /\ own' = own /\ inPieces' = inPieces
  BY Sizes DEF Carve, Sound, InHand, handler, history
<1>2. ASSUME ~ inPieces PROVE PairsAt(chunk', {at + HeaderSize + want})
  <2> DEFINE s == Split(at, want)
  <2>1. /\ at \in DOMAIN s /\ s[at].allocated = chunk[at].allocated
        /\ EndOf(s, at) = at + HeaderSize + want /\ s[at].next # chunk[at].next
        /\ \A d \in DOMAIN chunk \ {at} :
              /\ d \in DOMAIN s /\ s[d].allocated = chunk[d].allocated
              /\ EndOf(s, d) = EndOf(chunk, d)
        /\ \A d \in DOMAIN s \ DOMAIN chunk : ~ s[d].allocated
        /\ ~ chunk[at].allocated => \A d \in DOMAIN s \ {at} : FreePair(s, d) =>
              \E e \in DOMAIN chunk : FreePair(chunk, e) /\ EndOf(chunk, e) = EndOf(s, d)
    <3>1. PICK r, n : r = at /\ n = want
      OBVIOUS
    <3>2. Chain(chunk) /\ r \in DOMAIN chunk /\ n \in Nat /\ HasRest(r, n) /\ s = Split(r, n)
      BY <1>1, <3>1
    <3> HIDE DEF s
    <3>3. /\ r \in DOMAIN s /\ s[r].allocated = chunk[r].allocated
          /\ EndOf(s, r) = r + HeaderSize + n /\ s[r].next # chunk[r].next
          /\ \A d \in DOMAIN chunk \ {r} :
                /\ d \in DOMAIN s /\ s[d].allocated = chunk[d].allocated
                /\ EndOf(s, d) = EndOf(chunk, d)
          /\ \A d \in DOMAIN s \ DOMAIN chunk : ~ s[d].allocated
          /\ ~ chunk[r].allocated => \A d \in DOMAIN s \ {r} : FreePair(s, d) =>
                \E e \in DOMAIN chunk : FreePair(chunk, e) /\ EndOf(chunk, e) = EndOf(s, d)
      BY ONLY <3>2, SplitPairs
    <3> QED BY <3>1, <3>3
  <2>2. Parted(chunk)
    BY <1>1, <1>2 DEF Pieces, PartedSoFar
  <2> QED BY <1>1, <2>1, <2>2 DEF PairsAt, Parted
<1> QED BY <1>1, <1>2 DEF Pieces, PartedSoFar, Quiet

LEMMA MarkPieces ==
    ASSUME Sound, Stands, Pieces, Mark, ~ inside, UNCHANGED <<handler, history>>
    PROVE  Pieces'
<1> DEFINE u == [chunk EXCEPT ![at].allocated = TRUE]
           t == at + HeaderSize + want
<1>1. /\ Chain(chunk) /\ at \in DOMAIN chunk /\ ~ chunk[at].allocated
      /\ chunk[at].size >= want /\ want \in Nat /\ chunk' = u
      /\ step = "mark" /\ step' = "idle"
      /\ inside' = inside /\ own' = own /\ inPieces' = inPieces
  BY Sizes DEF Mark, Done, Taken, Sound, InHand, Stands, handler, history
<1>2. ASSUME ~ inPieces PROVE Parted(chunk')
  <2>1. PairsAt(chunk, {t})
    BY <1>1, <1>2 DEF Pieces, PartedSoFar
  <2>2. /\ Chain(u) /\ DOMAIN u = DOMAIN chunk
        /\ \A d \in DOMAIN chunk :
              /\ u[d].next = chunk[d].next /\ u[d].prev = chunk[d].prev
              /\ u[d].size = chunk[d].size
              /\ u[d].allocated = IF d = at THEN TRUE ELSE chunk[d].allocated
    <3>1. TRUE \in BOOLEAN
      OBVIOUS
    <3> QED BY ONLY <1>1, <3>1, MarkKeepsChain
  <2>3. chunk' = u
    BY <1>1
  <2> HIDE DEF u
  <2>4. /\ \A c \in DOMAIN chunk :
              c \in Nat /\ EndOf(chunk, c) \in Nat /\ c < EndOf(chunk, c)
        /\ \A c, d \in DOMAIN chunk : c < d => EndOf(chunk, c) <= d
        /\ \A c \in DOMAIN chunk : chunk[c].next # Null =>
              chunk[c].next \in DOMAIN chunk /\ chunk[c].next = EndOf(chunk, c)
    BY <1>1, InOrderAlong
  <2>5. t \in Nat /\ at < t /\ t <= EndOf(chunk, at)
    BY <1>1, <2>4, ChainFacts, Sizes DEF EndOf
  <2> HIDE DEF t
  <2> SUFFICES ASSUME NEW d \in DOMAIN chunk, FreePair(u, d) PROVE FALSE
    BY <2>2, <2>3 DEF Parted
  <2>6. d # at /\ FreePair(chunk, d)
    BY <2>2, <2>4 DEF FreePair
  <2>7. EndOf(chunk, d) = t
    BY <2>1, <2>6 DEF PairsAt
  <2>8. CASE d < at
    BY <1>1, <2>4, <2>5, <2>7, <2>8
  <2>9. CASE at < d
    BY <1>1, <2>4, <2>5, <2>7, <2>9
  <2> QED BY <1>1, <2>4, <2>6, <2>8, <2>9
<1> QED BY <1>1, <1>2 DEF Pieces, PartedSoFar, Quiet

LEMMA CallFreePieces ==
    ASSUME Sound, Pieces, NEW b \in live, CallFree(b), step = "idle", ~ inside,
           UNCHANGED <<handler, history>>
    PROVE  Pieces'
<1> DEFINE c == b.start - HeaderSize
           u == [chunk EXCEPT ![c].allocated = FALSE]
           e == EndOf(chunk, c)
<1>1. /\ Chain(chunk) /\ c \in DOMAIN chunk
      /\ at' = c /\ chunk' = u /\ step' = "freed"
      /\ inside' = inside /\ own' = own /\ inPieces' = inPieces /\ own = {}
  BY DEF CallFree, Sound, Housed, Pieces, handler, history
<1>2. ASSUME ~ inPieces
      PROVE  e \in Nat /\ c < e /\ PairsAt(u, {c, e}) /\ Cleared(u, c, e, own)
  <2>1. Parted(chunk)
    BY <1>2 DEF Pieces, PartedSoFar
  <2>2. Chain(chunk) /\ c \in DOMAIN chunk /\ FALSE \in BOOLEAN
    BY <1>1
  <2> HIDE DEF c
  <2>3. /\ Chain(u) /\ DOMAIN u = DOMAIN chunk
        /\ \A d \in DOMAIN chunk :
              /\ EndOf(u, d) = EndOf(chunk, d) /\ u[d].next = chunk[d].next
              /\ u[d].allocated = IF d = c THEN FALSE ELSE chunk[d].allocated
        /\ \A d \in DOMAIN chunk :
              FreePair(u, d) => FreePair(chunk, d) \/ d = c \/ EndOf(chunk, d) = c
    BY ONLY <2>2, MarkPairs
  <2>4. /\ \A d \in DOMAIN chunk :
              d \in Nat /\ EndOf(chunk, d) \in Nat /\ d < EndOf(chunk, d)
        /\ \A x, d \in DOMAIN chunk : x < d => EndOf(chunk, x) <= d
    BY <1>1, InOrderAlong
  <2> HIDE DEF u
  <2>5. PairsAt(u, {c, e})
    BY <2>1, <2>3 DEF PairsAt, Parted
  <2>6. Cleared(u, c, e, own)
    <3> SUFFICES ASSUME NEW d \in DOMAIN chunk, u[d].allocated, d < e, c < EndOf(chunk, d)
                 PROVE  FALSE
      BY <2>3 DEF Cleared
    <3>1. d # c
      BY <2>3
    <3>2. CASE d < c
      BY <2>2, <2>4, <3>2
    <3>3. CASE c < d
      BY <2>2, <2>4, <3>3
    <3> QED BY <2>2, <2>4, <3>1, <3>2, <3>3
  <2> QED BY <2>2, <2>4, <2>5, <2>6
<1> HIDE DEF c, u, e
<1>3. ~ inPieces' => PartedSoFar'
  BY <1>1, <1>2 DEF PartedSoFar
<1> QED BY <1>1, <1>3 DEF Pieces, Quiet

LEMMA MergeBothPieces ==
    ASSUME Sound, Pieces, MergeBoth, ~ inside, UNCHANGED <<handler, history>>
    PROVE  Pieces'
<1>1. /\ Chain(chunk) /\ at \in DOMAIN chunk /\ ~ chunk[at].allocated
      /\ chunk' = Freed(at) /\ step = "merging" /\ step' = "idle"
      /\ inside' = inside /\ own' = own /\ inPieces' = inPieces /\ own = {}
  BY DEF MergeBoth, Done, Sound, InHand, Pieces, handler, history
<1>2. Gave(chunk, chunk', at)
  BY ONLY <1>1, FreedGave
<1>3. ASSUME ~ inPieces PROVE Parted(chunk')
  <2>1. PICK e \in Nat : /\ at < e /\ PairsAt(chunk, {at, e})
                         /\ Cleared(chunk, at, e, own)
    BY <1>1, <1>3 DEF Pieces, PartedSoFar
  <2> SUFFICES ASSUME NEW d \in DOMAIN chunk', FreePair(chunk', d) PROVE FALSE
    BY DEF Parted
  <2>2. PICK x \in DOMAIN chunk : /\ FreePair(chunk, x)
                                  /\ EndOf(chunk, x) \notin {at, EndOf(chunk, at)}
    BY <1>2 DEF Gave
  <2>3. /\ \A c \in DOMAIN chunk :
              c \in Nat /\ EndOf(chunk, c) \in Nat /\ c < EndOf(chunk, c)
        /\ \A c, y \in DOMAIN chunk : c < y => EndOf(chunk, c) <= y
        /\ \A c \in DOMAIN chunk : chunk[c].next # Null =>
              chunk[c].next \in DOMAIN chunk /\ chunk[c].next = EndOf(chunk, c)
    BY <1>1, InOrderAlong
  <2>4. EndOf(chunk, x) = e /\ e # EndOf(chunk, at)
    BY <2>1, <2>2 DEF PairsAt
  <2>5. at < x
    <3>1. CASE x < at
      BY <1>1, <2>1, <2>3, <2>4, <3>1
    <3> QED BY <1>1, <2>2, <2>3, <3>1
  <2> DEFINE n == chunk[at].next
  <2>6. n # Null /\ n \in DOMAIN chunk /\ n = EndOf(chunk, at)
    BY <1>1, <2>3, <2>5, ChainFacts
  <2>7. n < e /\ at < n
    BY <1>1, <2>3, <2>4, <2>5, <2>6
  <2>8. ~ chunk[n].allocated
    BY <1>1, <2>1, <2>3, <2>6, <2>7 DEF Cleared
  <2>9. FreePair(chunk, at)
    BY <1>1, <2>6, <2>8 DEF FreePair
  <2>10. EndOf(chunk, at) \in {at, e}
    BY <1>1, <2>1, <2>9 DEF PairsAt
  <2> QED BY <1>1, <2>3, <2>4, <2>10
<1> QED BY <1>1, <1>3 DEF Pieces, PartedSoFar, Quiet

(* Those that only look at the list.                                       *)
LEMMA SearchPieces ==
    ASSUME Pieces, ~ inside,
           \/ \E s \in Requests : CallMalloc(s)
           \/ Look \/ GiveUp \/ Decide \/ LookAround,
           UNCHANGED <<handler, history>>
    PROVE  Pieces'
<1>1. /\ chunk' = chunk /\ inside' = inside /\ own' = own /\ inPieces' = inPieces
      /\ own = {}
  BY DEF CallMalloc, Look, GiveUp, Decide, LookAround, handler, history, Pieces
<1>2. CASE (\E s \in Requests : CallMalloc(s)) \/ Look \/ GiveUp \/ Decide
  <2>1. /\ step \in {"idle", "search", "found"}
        /\ step' \in {"idle", "search", "found", "carving", "mark"}
    BY <1>2 DEF CallMalloc, Look, GiveUp, Decide, Done
  <2>2. ~ inPieces => Parted(chunk)
    BY <2>1 DEF Pieces, PartedSoFar
  <2>3. ~ inPieces' => PartedSoFar'
    BY <1>1, <2>1, <2>2, PartedPairs DEF PartedSoFar
  <2> QED BY <1>1, <2>1, <2>3 DEF Pieces, Quiet
<1>3. CASE LookAround
  <2>1. step = "freed" /\ step' = "merging" /\ at' = at
    BY <1>3 DEF LookAround
  <2>2. ~ inPieces' => PartedSoFar'
    BY <1>1, <2>1 DEF Pieces, PartedSoFar
  <2> QED BY <1>1, <2>1, <2>2 DEF Pieces, Quiet
<1> QED BY <1>2, <1>3

(* The handler's calls.                                                    *)
LEMMA HandlerMallocPieces ==
    ASSUME Sound, Pieces, NEW s \in Requests, HandlerMalloc(s), ~ disturbed'
    PROVE  Pieces'
<1>1. /\ Chain(chunk) /\ Housed(chunk, live) /\ malloc(s) /\ inside /\ inside'
      /\ step' = step /\ at' = at /\ want' = want /\ entry' = entry /\ inPieces' = inPieces
      /\ step \notin {"carving", "merging"} /\ own' = own \cup (live' \ live)
  BY DEF HandlerMalloc, Sound, main, BetweenWrites
<1>2. PICK r, b : /\ Took(chunk, chunk', r)
                  /\ b.start = r + HeaderSize /\ b \notin live /\ live' = live \cup {b}
  BY <1>1, MallocTook
<1>3. own' = own \cup {b}
  BY <1>1, <1>2
<1>4. /\ r \in DOMAIN chunk /\ ~ chunk[r].allocated /\ r \in Nat /\ Home(b) = r
  <2>1. r \in DOMAIN chunk /\ ~ chunk[r].allocated
    BY <1>2 DEF Took
  <2>2. r \in Nat
    BY <1>1, <2>1, ChainFacts
  <2> QED BY <1>2, <2>1, <2>2, Sizes DEF Home
<1>5. ~ inPieces => PartedSoFar'
  <2> SUFFICES ASSUME ~ inPieces PROVE PartedSoFar'
    OBVIOUS
  <2>1. Parted(chunk) => Parted(chunk')
    BY <1>2, TookPairs, NoPairs
  <2>2. step = "mark" => PairsAt(chunk', {at + HeaderSize + want})
    BY <1>2, TookPairs DEF Pieces, PartedSoFar
  <2>3. ASSUME step = "freed"
        PROVE  \E e \in Nat : /\ at < e /\ PairsAt(chunk', {at, e})
                              /\ Cleared(chunk', at, e, own')
    <3>1. PICK e \in Nat : /\ at < e /\ PairsAt(chunk, {at, e})
                           /\ Cleared(chunk, at, e, own)
      BY <2>3 DEF Pieces, PartedSoFar
    <3>2. PairsAt(chunk', {at, e})
      BY <1>2, <3>1, TookPairs
    <3>3. Cleared(chunk', at, e, own')
      BY <1>2, <1>3, <1>4, <3>1 DEF Cleared, Took
    <3> QED BY <3>1, <3>2, <3>3
  <2> QED BY <1>1, <2>1, <2>2, <2>3 DEF Pieces, PartedSoFar
<1>6. ASSUME Quiet', entry # <<>> PROVE OnlyOwn'
  <2>1. OnlyOwn
    BY <1>1, <1>6 DEF Pieces, Quiet
  <2> QED BY <1>1, <1>2, <1>3, <1>4, <2>1 DEF OnlyOwn, Took
<1> QED BY <1>1, <1>5, <1>6 DEF Pieces

LEMMA HandlerFreePieces ==
    ASSUME Sound, Pieces, NEW b \in live, HandlerFree(b), ~ disturbed'
    PROVE  Pieces'
<1> DEFINE c == Home(b)
<1>1. /\ Chain(chunk) /\ chunk' = Freed(c) /\ inside /\ inside' /\ c \in DOMAIN chunk
      /\ step' = step /\ at' = at /\ want' = want /\ inPieces' = inPieces
      /\ step \notin {"carving", "merging"} /\ own' = own \ {b}
      /\ entry' = IF b \in own THEN entry ELSE <<>>
  BY DEF HandlerFree, free, Sound, Housed, main, BetweenWrites, Home
<1> HIDE DEF c
<1>2. Gave(chunk, chunk', c)
  BY ONLY <1>1, FreedGave
<1>3. ~ inPieces => PartedSoFar'
  <2> SUFFICES ASSUME ~ inPieces PROVE PartedSoFar'
    OBVIOUS
  <2>1. Parted(chunk) => Parted(chunk')
    BY <1>2, GavePairs, NoPairs
  <2>2. step = "mark" => PairsAt(chunk', {at + HeaderSize + want})
    BY <1>2, GavePairs DEF Pieces, PartedSoFar
  <2>3. ASSUME step = "freed"
        PROVE  \E e \in Nat : /\ at < e /\ PairsAt(chunk', {at, e})
                              /\ Cleared(chunk', at, e, own')
    <3>1. PICK e \in Nat : /\ at < e /\ PairsAt(chunk, {at, e})
                           /\ Cleared(chunk, at, e, own)
      BY <2>3 DEF Pieces, PartedSoFar
    <3>2. PairsAt(chunk', {at, e})
      BY <1>2, <3>1, GavePairs
    <3>3. Cleared(chunk', at, e, own')
      <4> SUFFICES ASSUME NEW d \in DOMAIN chunk', chunk'[d].allocated, d < e,
                          at < EndOf(chunk', d)
                   PROVE  \E a \in own' : Home(a) = d
        BY DEF Cleared
      <4>1. d \in DOMAIN chunk /\ d # c /\ chunk[d].allocated /\ EndOf(chunk', d) = EndOf(chunk, d)
        BY <1>2 DEF Gave
      <4>2. PICK a \in own : Home(a) = d
        BY <3>1, <4>1 DEF Cleared
      <4> QED BY <1>1, <4>1, <4>2 DEF c
    <3> QED BY <3>1, <3>2, <3>3
  <2> QED BY <1>1, <2>1, <2>2, <2>3 DEF Pieces, PartedSoFar
<1>4. ASSUME Quiet', entry' # <<>> PROVE OnlyOwn'
  <2>1. b \in own /\ entry' = entry /\ OnlyOwn
    BY <1>1, <1>4 DEF Pieces, Quiet
  <2>2. c \in DOMAIN entry => ~ entry[c].allocated
    BY <2>1 DEF OnlyOwn, c
  <2>3. ASSUME NEW d \in DOMAIN entry, entry[d].allocated
        PROVE  d \in DOMAIN chunk' /\ chunk'[d].allocated /\ EndOf(chunk', d) = EndOf(entry, d)
    BY <1>2, <2>1, <2>2, <2>3 DEF OnlyOwn, Gave
  <2>4. ASSUME NEW d \in DOMAIN chunk', chunk'[d].allocated
        PROVE  (d \in DOMAIN entry /\ entry[d].allocated) \/ \E a \in own' : Home(a) = d
    <3>1. d \in DOMAIN chunk /\ d # c /\ chunk[d].allocated
      BY <1>2, <2>4 DEF Gave
    <3> QED BY <1>1, <2>1, <3>1 DEF OnlyOwn, c
  <2> QED BY <1>1, <2>1, <2>3, <2>4 DEF OnlyOwn
<1> QED BY <1>1, <1>3, <1>4 DEF Pieces

LEMMA InterruptPieces ==
    ASSUME Sound, Pieces, Interrupt
    PROVE  Pieces'
<1>1. /\ chunk' = chunk /\ step' = step /\ at' = at /\ want' = want /\ inPieces' = inPieces
      /\ ~ inside /\ own = {} /\ own' = {} /\ entry' = chunk /\ Chain(chunk)
  BY DEF Interrupt, Pieces, main, history, Sound
<1>2. ~ inPieces' => PartedSoFar'
  BY <1>1 DEF Pieces, PartedSoFar
<1>3. Quiet' => OnlyOwn'
  BY <1>1, <1>2 DEF Quiet, OnlyOwn, PartedSoFar
<1> QED BY <1>1, <1>2, <1>3 DEF Pieces

LEMMA ReturnPieces ==
    ASSUME Pieces, Return
    PROVE  Pieces'
<1>1. /\ chunk' = chunk /\ step' = step /\ at' = at /\ want' = want /\ ~ inside' /\ own' = {}
      /\ inPieces' = (inPieces \/ (step = "freed" /\ own # {}))
  BY DEF Return, main
<1>2. ~ inPieces' => PartedSoFar'
  <2> SUFFICES ASSUME ~ inPieces' PROVE PartedSoFar'
    OBVIOUS
  <2>1. ~ inPieces /\ (step = "freed" => own = {})
    BY <1>1
  <2>2. step \in {"freed", "merging"} => own = {}
    BY <2>1 DEF Pieces
  <2> QED BY <1>1, <2>1, <2>2 DEF Pieces, PartedSoFar
<1> QED BY <1>1, <1>2 DEF Pieces

(* Every step keeps it.                                                    *)
LEMMA SharedInvKept == SharedInv /\ [NextShared]_allVars => SharedInv'
<1> SUFFICES ASSUME SharedInv, [NextShared]_allVars, ~ disturbed' PROVE Sound' /\ Pieces'
  BY DEF SharedInv
<1>1. Sound'
  BY SoundKept DEF SharedInv, SoundInv
<1> SUFFICES Pieces'
  BY <1>1
<1>2. CASE UNCHANGED allVars
  BY <1>1, <1>2 DEF allVars, main, handler, history, SharedInv, Pieces, PartedSoFar,
                    Quiet, OnlyOwn
<1>3. CASE NextShared
  <2>1. ~ disturbed /\ Sound /\ Pieces
    BY <1>3 DEF NextShared, SharedInv
  <2>2. CASE MainLoop
    <3>1. ~ inside /\ Stands /\ UNCHANGED <<handler, history>>
      BY <2>1, <2>2 DEF MainLoop, Sound, InHand
    <3>2. CASE \/ \E s \in Requests : CallMalloc(s)
               \/ Look \/ GiveUp \/ Decide \/ LookAround
      BY <2>1, <3>1, <3>2, SearchPieces
    <3>3. CASE Carve
      BY <2>1, <3>1, <3>3, CarvePieces
    <3>4. CASE Mark
      BY <2>1, <3>1, <3>4, MarkPieces
    <3>5. CASE \E b \in live : CallFree(b)
      <4>1. PICK b \in live : CallFree(b)
        BY <3>5
      <4>2. step = "idle"
        BY <4>1 DEF CallFree
      <4> QED BY <2>1, <3>1, <4>1, <4>2, CallFreePieces
    <3>6. CASE MergeBoth
      BY <2>1, <3>1, <3>6, MergeBothPieces
    <3> QED BY <2>2, <3>2, <3>3, <3>4, <3>5, <3>6 DEF MainLoop
  <2>3. CASE Interrupt
    BY <2>1, <2>3, InterruptPieces
  <2>4. CASE Return
    BY <2>1, <2>4, ReturnPieces
  <2>5. CASE \E s \in Requests : HandlerMalloc(s)
    BY <2>1, <2>5, HandlerMallocPieces
  <2>6. CASE \E b \in live : HandlerFree(b)
    BY <2>1, <2>6, HandlerFreePieces
  <2> QED BY <1>3, <2>2, <2>3, <2>4, <2>5, <2>6 DEF NextShared
<1> QED BY <1>2, <1>3

LEMMA InitSharedInv == InitShared => SharedInv
<1> SUFFICES ASSUME InitShared PROVE Sound /\ Pieces
  BY DEF SharedInv
<1>1. Sound
  BY InitSound DEF SoundInv, InitShared
<1>2. Parted(chunk)
  BY InitHeap DEF InitShared, HeapInv
<1>3. Pieces
  BY <1>2 DEF InitShared, Pieces, PartedSoFar
<1> QED BY <1>1, <1>3

(* Interrupts or not, the list tiles the heap, free neighbours are merged  *)
(* where the main loop is outside its writes, and a handler that frees     *)
(* what it took leaves the list as it found it, for every heap and every   *)
(* order of the calls (memorymanagement.cpp 39-63, 69-88).                 *)
THEOREM SharedListInOrder == SpecShared => []SharedInOrder
<1>1. InitShared => SharedInv
  BY InitSharedInv
<1>2. SharedInv /\ [NextShared]_allVars => SharedInv'
  BY SharedInvKept
<1>3. SharedInv => SharedInOrder
  BY SharedInvImplies
<1> QED BY <1>1, <1>2, <1>3, PTL DEF SpecShared
===============================================================================
