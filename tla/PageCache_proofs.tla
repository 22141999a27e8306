-------------------------- MODULE PageCache_proofs --------------------------
(***************************************************************************)
(* Proofs about PageCache, for every page size, file size and number of    *)
(* cache entries.                                                          *)
(***************************************************************************)
EXTENDS PageCache, TLAPS, Recursion

\* Page numbers and offsets of an address behind page 0.
LEMMA AddressParts ==
    ASSUME NEW a \in Nat, PageSize <= a
    PROVE  /\ PageOf(a) \in Nat \ {0}
           /\ OffsetOf(a) \in Offset
           /\ At(PageOf(a), OffsetOf(a)) = a
BY PageCacheAssumption, SMTT(30) DEF PageOf, OffsetOf, Offset, At

LEMMA PageInFile ==
    ASSUME NEW a \in Nat, a < FileSize
    PROVE  PageOf(a) <= FilePages - 1
BY PageCacheAssumption, SMTT(30) DEF PageOf, FilePages

LEMMA PageBehindData ==
    ASSUME NEW a \in Nat, DataSize <= a
    PROVE  PageSize <= a
BY PageCacheAssumption, SMTT(30) DEF DataSize

LEMMA ChainLen ==
    ASSUME TypeOK
    PROVE  Len(chain) = Entries
BY PageCacheAssumption DEF TypeOK, Entry

\* The loop of update_cache stops at the first entry that ends it.
LEMMA SearchStops ==
    ASSUME TypeOK, NEW p
    PROVE  /\ Search(p) \in 1 .. Entries
           /\ StopsAt(p, Search(p))
           /\ \A j \in 1 .. Search(p) - 1 : ~StopsAt(p, j)
<1>. DEFINE S == { i \in 1 .. Entries : StopsAt(p, i) }
<1>1. Len(chain) = Entries /\ Entries \in Nat \ {0}
  BY ChainLen, PageCacheAssumption
<1>2. Entries \in S
  BY <1>1 DEF StopsAt
<1>3. S \subseteq Nat
  OBVIOUS
<1>4. \E i \in S : \A j \in S : ~(j < i)
  BY <1>2, <1>3, LeastElement
<1>5. \E i \in 1 .. Len(chain) : /\ StopsAt(p, i)
                                 /\ \A j \in 1 .. i - 1 : ~StopsAt(p, j)
  <2>1. PICK i \in S : \A j \in S : ~(j < i)  BY <1>4
  <2>2. \A j \in 1 .. i - 1 : ~StopsAt(p, j)
    <3>. SUFFICES ASSUME NEW j \in 1 .. i - 1, StopsAt(p, j) PROVE FALSE
      OBVIOUS
    <3>1. j \in S /\ j < i  BY <1>1
    <3>. QED  BY <3>1, <2>1
  <2>. QED  BY <2>1, <2>2, <1>1
<1>. HIDE DEF S
<1>. QED  BY <1>5, <1>1 DEF Search

\* What moving an entry to the front does to a chain: it permutes it.
LEMMA MoveToFrontPermutes ==
    ASSUME TypeOK, NEW i \in 1 .. Entries
    PROVE  LET c == MoveToFront(chain, i) IN
           /\ c \in [1 .. Entries -> Entry]
           /\ c[1] = chain[i]
           /\ \A j \in 1 .. Entries : (j > 1 /\ j <= i) => c[j] = chain[j - 1]
           /\ \A j \in 1 .. Entries : j > i => c[j] = chain[j]
<1>. DEFINE c == MoveToFront(chain, i)
<1>1. Len(chain) = Entries /\ Entries \in Nat \ {0}
  BY ChainLen, PageCacheAssumption
<1>2. c = [j \in 1 .. Entries |-> IF j = 1 THEN chain[i]
                                 ELSE IF j <= i THEN chain[j - 1] ELSE chain[j]]
  BY <1>1 DEF MoveToFront
<1>3. \A j \in 1 .. Entries : c[j] \in Entry
  <2>. TAKE j \in 1 .. Entries
  <2>1. \A k \in 1 .. Entries : chain[k] \in Entry  BY DEF TypeOK
  <2>2. CASE j = 1  BY <1>2, <2>1, <2>2
  <2>3. CASE j # 1 /\ j <= i
    <3>1. j - 1 \in 1 .. Entries  BY <1>1, <2>3
    <3>. QED  BY <1>2, <2>1, <2>3, <3>1
  <2>4. CASE j > i  BY <1>2, <2>1, <2>4
  <2>. QED  BY <1>1, <2>2, <2>3, <2>4
<1>4. c \in [1 .. Entries -> Entry]
  BY <1>2, <1>3
<1>5. /\ c[1] = chain[i]
      /\ \A j \in 1 .. Entries : (j > 1 /\ j <= i) => c[j] = chain[j - 1]
      /\ \A j \in 1 .. Entries : j > i => c[j] = chain[j]
  BY <1>1, <1>2
<1>. QED  BY <1>4, <1>5

\* read_page fills a buffer with the bytes of the page that are in the file.
LEMMA ReadPageReads ==
    ASSUME NEW p \in Nat, NEW b \in [Offset -> Byte \cup {Junk}]
    PROVE  /\ read_page(p, b) \in [Offset -> Byte \cup {Junk}]
           /\ \A o \in Offset : At(p, o) < FileSize
                => read_page(p, b)[o] = StoryFile[At(p, o)]
<1>1. \A o \in Offset : At(p, o) \in Nat
  BY PageCacheAssumption DEF Offset, At
<1>. QED  BY <1>1, PageCacheAssumption DEF read_page

\* update_cache(p) leaves the entries coherent, the entry it returns holds
\* page p, and a buffer that is not emptied still points to its page.
LEMMA UpdateCacheCorrect ==
    ASSUME Inv, NEW p \in 1 .. FilePages - 1, NEW i, i = Search(p), Updated(p, i)
    PROVE  /\ chain' \in [1 .. Entries -> Entry]
           /\ page_number' \in [Entry -> 0 .. FilePages - 1]
           /\ data' \in [Entry -> [Offset -> Byte \cup {Junk}]]
           /\ ChainComplete' /\ UnusedLast' /\ OneCopy' /\ EntryCoherent'
           /\ chain[i] \in Entry /\ page_number'[chain[i]] = p
           /\ \A q \in Nat, e \in Entry :
                /\ page_number[e] = q
                /\ Emptied(q, p, i) # 0
                => page_number'[e] = q
<1>. DEFINE e0 == chain[i]
<1>1. TypeOK /\ Len(chain) = Entries /\ Entries \in Nat \ {0} /\ FilePages \in Int
  <2>1. FilePages \in Int
    BY PageCacheAssumption DEF FilePages
  <2>. QED  BY <2>1, ChainLen, PageCacheAssumption DEF Inv
<1>2. /\ i \in 1 .. Entries
      /\ StopsAt(p, i)
      /\ \A j \in 1 .. i - 1 : ~StopsAt(p, j)
  BY <1>1, SearchStops
<1>3. e0 \in Entry
  BY <1>1, <1>2 DEF TypeOK
<1>4. page_number' \in [Entry -> 0 .. FilePages - 1]
  <2>1. CASE page_number[e0] = p
    BY <1>1, <2>1 DEF Updated, TypeOK
  <2>2. CASE page_number[e0] # p
    <3>1. page_number' = [page_number EXCEPT ![e0] = p]  BY <2>2 DEF Updated
    <3>2. p \in 0 .. FilePages - 1  BY <1>1
    <3>. QED  BY <1>1, <1>3, <3>1, <3>2 DEF TypeOK
  <2>. QED  BY <2>1, <2>2
<1>5. page_number'[e0] = p /\ \A e \in Entry \ {e0} : page_number'[e] = page_number[e]
  BY <1>1, <1>3 DEF Updated, TypeOK
<1>6. data' \in [Entry -> [Offset -> Byte \cup {Junk}]]
  <2>1. CASE page_number[e0] = p
    BY <1>1, <2>1 DEF Updated, TypeOK
  <2>2. CASE page_number[e0] # p
    <3>1. data' = [data EXCEPT ![e0] = read_page(p, data[e0])]
      BY <2>2 DEF Updated
    <3>2. data[e0] \in [Offset -> Byte \cup {Junk}]
      BY <1>1, <1>3 DEF TypeOK
    <3>3. read_page(p, data[e0]) \in [Offset -> Byte \cup {Junk}]
      BY <1>1, <3>2, ReadPageReads
    <3>. QED  BY <1>1, <1>3, <3>1, <3>3 DEF TypeOK
  <2>. QED  BY <2>1, <2>2
<1>7. EntryCoherent'
  <2>1. CASE page_number[e0] = p
    BY <2>1 DEF Updated, Inv, EntryCoherent
  <2>2. CASE page_number[e0] # p
    <3>1. /\ data'[e0] = read_page(p, data[e0])
          /\ \A e \in Entry \ {e0} : data'[e] = data[e]
      BY <1>1, <1>3, <2>2 DEF Updated, TypeOK
    <3>2. data[e0] \in [Offset -> Byte \cup {Junk}]
      BY <1>1, <1>3 DEF TypeOK
    <3>. QED
      BY <1>5, <3>1, <3>2, ReadPageReads DEF EntryCoherent, Inv
  <2>. QED  BY <2>1, <2>2
<1>8. /\ chain' \in [1 .. Entries -> Entry]
      /\ \A e \in Entry : \E j \in 1 .. Entries : chain'[j] = e
      /\ chain'[Entries] # chain[Entries] => i = Entries
      /\ \A j \in 1 .. Entries : j < Entries =>
           \/ chain'[j] = e0
           \/ \E k \in 1 .. Entries - 1 : chain'[j] = chain[k]
  <2>1. CASE i <= 2
    <3>1. chain' = chain  BY <1>1, <1>2, <2>1 DEF Updated
    <3>. QED  BY <1>1, <1>2, <3>1 DEF TypeOK, Inv, ChainComplete
  <2>2. CASE i > 2
    <3>1. /\ chain' \in [1 .. Entries -> Entry]
          /\ chain'[1] = chain[i]
          /\ \A j \in 1 .. Entries : (j > 1 /\ j <= i) => chain'[j] = chain[j - 1]
          /\ \A j \in 1 .. Entries : j > i => chain'[j] = chain[j]
      BY <1>1, <1>2, <2>2, MoveToFrontPermutes DEF Updated
    <3>2. ASSUME NEW e \in Entry  PROVE \E j \in 1 .. Entries : chain'[j] = e
      <4>1. PICK k \in 1 .. Entries : chain[k] = e  BY DEF Inv, ChainComplete
      <4>2. CASE k < i
        <5>1. k + 1 \in 1 .. Entries /\ chain'[k + 1] = e
          BY <1>1, <1>2, <3>1, <4>1, <4>2
        <5>. QED  BY <5>1
      <4>3. CASE k = i  BY <1>1, <3>1, <4>1, <4>3
      <4>4. CASE k > i  BY <3>1, <4>1, <4>4
      <4>. QED  BY <1>2, <4>2, <4>3, <4>4
    <3>3. chain'[Entries] # chain[Entries] => i = Entries
      BY <1>1, <1>2, <3>1
    <3>4. ASSUME NEW j \in 1 .. Entries, j < Entries
          PROVE  chain'[j] = e0 \/ \E k \in 1 .. Entries - 1 : chain'[j] = chain[k]
      <4>1. CASE j = 1  BY <3>1, <4>1
      <4>2. CASE j > 1 /\ j <= i
        <5>1. j - 1 \in 1 .. Entries - 1 /\ chain'[j] = chain[j - 1]
          BY <1>1, <3>1, <4>2
        <5>. QED  BY <5>1
      <4>3. CASE j > i
        <5>1. j \in 1 .. Entries - 1 /\ chain'[j] = chain[j]
          BY <1>1, <3>1, <3>4, <4>3
        <5>. QED  BY <5>1
      <4>. QED  BY <1>2, <4>1, <4>2, <4>3
    <3>. QED  BY <3>1, <3>2, <3>3, <3>4
  <2>. QED  BY <1>2, <2>1, <2>2
<1>9. UnusedLast'
  <2>. SUFFICES ASSUME NEW j \in 1 .. Entries, page_number'[chain'[j]] = 0, j # Entries
                PROVE  FALSE
    BY DEF UnusedLast
  <2>1. chain'[j] # e0  BY <1>5
  <2>2. PICK k \in 1 .. Entries - 1 : chain'[j] = chain[k]
    BY <1>1, <1>8, <2>1
  <2>3. page_number[chain[k]] = 0
    BY <1>1, <1>5, <1>8, <2>1, <2>2
  <2>. QED  BY <1>1, <2>2, <2>3 DEF Inv, UnusedLast
<1>10. OneCopy'
  <2>1. CASE page_number[e0] = p
    BY <2>1 DEF Updated, Inv, OneCopy
  <2>2. CASE page_number[e0] # p
    <3>1. i = Entries
      BY <1>1, <1>2, <2>2 DEF StopsAt, Inv, UnusedLast
    <3>2. ASSUME NEW e \in Entry, e # e0  PROVE page_number[e] # p
      <4>1. PICK k \in 1 .. Entries : chain[k] = e  BY DEF Inv, ChainComplete
      <4>2. k \in 1 .. i - 1  BY <1>1, <3>1, <3>2, <4>1
      <4>. QED  BY <1>2, <4>1, <4>2 DEF StopsAt
    <3>. QED  BY <1>5, <3>2 DEF Inv, OneCopy
  <2>. QED  BY <2>1, <2>2
<1>11. ASSUME NEW q \in Nat, NEW e \in Entry, page_number[e] = q, Emptied(q, p, i) # 0
       PROVE  page_number'[e] = q
  <2>1. CASE e # e0  BY <1>5, <1>11, <2>1
  <2>2. CASE e = e0
    <3>1. q # 0  BY <1>11 DEF Emptied
    <3>2. ~Reused(p, i)  BY <1>11, <2>2 DEF Emptied
    <3>3. page_number[e0] = p
      BY <1>1, <1>2, <1>11, <2>2, <3>1, <3>2 DEF StopsAt, Reused
    <3>. QED  BY <1>5, <1>11, <2>2, <3>3
  <2>. QED  BY <2>1, <2>2
<1>. QED
  BY <1>3, <1>4, <1>5, <1>6, <1>7, <1>8, <1>9, <1>10, <1>11 DEF ChainComplete

\* The page of an address the program reads, and where its byte is.
LEMMA PagedAddress ==
    ASSUME NEW a \in Nat, PageSize <= a, a < FileSize
    PROVE  /\ PageOf(a) \in 1 .. FilePages - 1
           /\ OffsetOf(a) \in Offset
           /\ At(PageOf(a), OffsetOf(a)) = a
<1>1. FilePages \in Int
  BY PageCacheAssumption DEF FilePages
<1>. QED  BY <1>1, AddressParts, PageInFile

\* What load_cache leaves is coherent.
LEMMA InitInv == Init => Inv
<1>. SUFFICES ASSUME Init PROVE Inv
  OBVIOUS
<1>1. PICK d \in 0 .. DataPages - 1 :
        /\ chain = [i \in 1 .. Entries |-> Entries + 1 - i]
        /\ page_number = [e \in Entry |-> IF e = 1 THEN d ELSE DataPages + e - 2]
        /\ data = [e \in Entry |->
                     IF e = 1 /\ d = 0 THEN [o \in Offset |-> Junk]
                     ELSE read_page(page_number[e], [o \in Offset |-> Junk])]
        /\ current_data_page = d /\ current_data_cachep = 1
  BY DEF Init
<1>2. /\ Entries \in Nat \ {0} /\ DataPages \in Nat \ {0} /\ FilePages \in Int
      /\ Entries - 1 <= FilePages - DataPages
      /\ PageSize \in Nat \ {0} /\ FileSize \in Nat
  BY PageCacheAssumption DEF FilePages
<1>3. d <= FilePages - 1 /\ 0 <= FilePages - 1
  BY <1>2
<1>4. page_number \in [Entry -> 0 .. FilePages - 1]
  BY <1>1, <1>2, <1>3 DEF Entry
<1>5. chain \in [1 .. Entries -> Entry]
  BY <1>1, <1>2 DEF Entry
<1>6. \A e \in Entry : page_number[e] # 0 =>
        data[e] = read_page(page_number[e], [o \in Offset |-> Junk])
  BY <1>1 DEF Entry
<1>7. [o \in Offset |-> Junk] \in [Offset -> Byte \cup {Junk}]
  OBVIOUS
<1>8. data \in [Entry -> [Offset -> Byte \cup {Junk}]]
  <2>1. ASSUME NEW e \in Entry  PROVE data[e] \in [Offset -> Byte \cup {Junk}]
    <3>1. page_number[e] \in Nat  BY <1>2, <1>4
    <3>2. read_page(page_number[e], [o \in Offset |-> Junk])
            \in [Offset -> Byte \cup {Junk}]
      BY <1>7, <3>1, ReadPageReads
    <3>. QED  BY <1>1, <1>7, <3>2
  <2>2. data = [e \in Entry |-> data[e]]  BY <1>1
  <2>. QED  BY <2>1, <2>2
<1>9. EntryCoherent
  <2>. SUFFICES ASSUME NEW e \in Entry, NEW o \in Offset, page_number[e] # 0,
                       At(page_number[e], o) < FileSize
                PROVE  data[e][o] = StoryFile[At(page_number[e], o)]
    BY DEF EntryCoherent
  <2>1. page_number[e] \in Nat  BY <1>2, <1>4
  <2>. QED  BY <1>6, <1>7, <2>1, ReadPageReads
<1>10. TypeOK
  <2>1. pc \in PageSize .. FileSize /\ datap \in [0 .. DataSize - 1 -> Byte]
    BY <1>2, PageCacheAssumption DEF Init, DataSize
  <2>2. got \in Byte
    BY <1>2, PageCacheAssumption DEF Init
  <2>3. current_code_page = 0 /\ current_code_cachep = 1  BY DEF Init
  <2>4. /\ current_code_page \in 0 .. FilePages - 1
        /\ current_data_page \in 0 .. FilePages - 1
        /\ current_code_cachep \in Entry /\ current_data_cachep \in Entry
    BY <1>1, <1>2, <1>3, <2>3 DEF Entry
  <2>. QED  BY <1>4, <1>5, <1>8, <2>1, <2>2, <2>4 DEF TypeOK
<1>11. ChainComplete
  <2>. SUFFICES ASSUME NEW e \in Entry PROVE \E i \in 1 .. Entries : chain[i] = e
    BY DEF ChainComplete
  <2>1. Entries + 1 - e \in 1 .. Entries /\ chain[Entries + 1 - e] = e
    BY <1>1, <1>2 DEF Entry
  <2>. QED  BY <2>1
<1>12. UnusedLast
  BY <1>1, <1>2 DEF UnusedLast, Entry
<1>13. OneCopy
  BY <1>1, <1>2 DEF OneCopy, Entry
<1>14. BuffersCoherent
  BY <1>1, <1>2 DEF Init, BuffersCoherent, Entry
<1>. QED  BY <1>9, <1>10, <1>11, <1>12, <1>13, <1>14 DEF Inv

\* A read of code keeps the cache coherent and gives the byte of the file.
LEMMA ReadCodeStep ==
    ASSUME Inv, read_code_byte
    PROVE  Inv' /\ pc < FileSize /\ got' = StoryFile[pc]
<1>. DEFINE p == PageOf(pc)
            i == Search(p)
<1>1. pc \in Nat /\ PageSize <= pc /\ pc < FileSize
  BY PageCacheAssumption DEF Inv, TypeOK, read_code_byte
<1>2. /\ p \in 1 .. FilePages - 1
      /\ OffsetOf(pc) \in Offset
      /\ At(p, OffsetOf(pc)) = pc
  BY <1>1, PagedAddress
<1>. HIDE DEF p, i
<1>3. /\ chain' \in [1 .. Entries -> Entry]
      /\ page_number' \in [Entry -> 0 .. FilePages - 1]
      /\ data' \in [Entry -> [Offset -> Byte \cup {Junk}]]
      /\ ChainComplete' /\ UnusedLast' /\ OneCopy' /\ EntryCoherent'
      /\ current_code_cachep' \in Entry /\ current_data_cachep' \in Entry
      /\ current_code_page' = p /\ page_number'[current_code_cachep'] = p
      /\ current_data_page' \in 0 .. FilePages - 1
      /\ current_data_page' # 0 => page_number'[current_data_cachep'] = current_data_page'
  <2>1. CASE p # current_code_page
    <3>1. /\ Updated(p, i) /\ i = Search(p)
          /\ current_code_page' = p /\ current_code_cachep' = chain[i]
          /\ current_data_page' = Emptied(current_data_page, p, i)
          /\ current_data_cachep' = current_data_cachep
      BY <2>1 DEF read_code_byte, p, i
    <3>2. /\ chain' \in [1 .. Entries -> Entry]
          /\ page_number' \in [Entry -> 0 .. FilePages - 1]
          /\ data' \in [Entry -> [Offset -> Byte \cup {Junk}]]
          /\ ChainComplete' /\ UnusedLast' /\ OneCopy' /\ EntryCoherent'
          /\ chain[i] \in Entry /\ page_number'[chain[i]] = p
          /\ \A q \in Nat, e \in Entry :
               page_number[e] = q /\ Emptied(q, p, i) # 0 => page_number'[e] = q
      BY <1>2, <3>1, UpdateCacheCorrect
    <3>3. /\ current_data_cachep \in Entry /\ current_data_page \in 0 .. FilePages - 1
          /\ current_data_page \in Nat /\ FilePages \in Int
      BY PageCacheAssumption DEF Inv, TypeOK, FilePages
    <3>4. current_data_page' \in {0, current_data_page}
      BY <3>1 DEF Emptied
    <3>5. current_data_page' # 0 => page_number'[current_data_cachep'] = current_data_page'
      BY <3>1, <3>2, <3>3, <3>4 DEF Inv, BuffersCoherent
    <3>. QED  BY <1>2, <3>1, <3>2, <3>3, <3>4, <3>5
  <2>2. CASE p = current_code_page
    <3>1. UNCHANGED <<chain, page_number, data, current_code_page, current_code_cachep,
                      current_data_page, current_data_cachep>>
      BY <2>2 DEF read_code_byte, p, cache_vars, code_tlb
    <3>. QED
      BY <1>2, <2>2, <3>1 DEF Inv, TypeOK, ChainComplete, UnusedLast, OneCopy,
                              EntryCoherent, BuffersCoherent
  <2>. QED  BY <2>1, <2>2
<1>4. got' = StoryFile[pc]
  <2>1. got' = data'[current_code_cachep'][OffsetOf(pc)]
    BY DEF read_code_byte
  <2>2. p # 0  BY <1>2
  <2>. QED  BY <1>1, <1>2, <1>3, <2>1, <2>2 DEF EntryCoherent
<1>5. got' \in Byte
  BY <1>1, <1>4, PageCacheAssumption
<1>6. pc' \in PageSize .. FileSize /\ datap' \in [0 .. DataSize - 1 -> Byte]
  BY <1>1, PageCacheAssumption DEF read_code_byte, Inv, TypeOK
<1>7. TypeOK' /\ BuffersCoherent'
  <2>1. p \in 0 .. FilePages - 1  BY <1>2
  <2>. QED  BY <1>3, <1>5, <1>6, <2>1 DEF TypeOK, BuffersCoherent
<1>. QED  BY <1>1, <1>3, <1>4, <1>7 DEF Inv

\* A read of paged data keeps the cache coherent and gives the byte of the
\* file.
LEMMA ReadPagedStep ==
    ASSUME Inv, NEW addr \in Address, read_paged_byte(addr)
    PROVE  Inv' /\ got' = StoryFile[addr]
<1>. DEFINE p == PageOf(addr)
            i == Search(p)
<1>1. addr \in Nat /\ PageSize <= addr /\ addr < FileSize
  BY PageBehindData, PageCacheAssumption DEF Address, read_paged_byte
<1>2. /\ p \in 1 .. FilePages - 1
      /\ OffsetOf(addr) \in Offset
      /\ At(p, OffsetOf(addr)) = addr
  BY <1>1, PagedAddress
<1>. HIDE DEF p, i
<1>3. /\ chain' \in [1 .. Entries -> Entry]
      /\ page_number' \in [Entry -> 0 .. FilePages - 1]
      /\ data' \in [Entry -> [Offset -> Byte \cup {Junk}]]
      /\ ChainComplete' /\ UnusedLast' /\ OneCopy' /\ EntryCoherent'
      /\ current_code_cachep' \in Entry /\ current_data_cachep' \in Entry
      /\ current_data_page' = p /\ page_number'[current_data_cachep'] = p
      /\ current_code_page' \in 0 .. FilePages - 1
      /\ current_code_page' # 0 => page_number'[current_code_cachep'] = current_code_page'
  <2>1. CASE p # current_data_page
    <3>1. /\ Updated(p, i) /\ i = Search(p)
          /\ current_data_page' = p /\ current_data_cachep' = chain[i]
          /\ current_code_page' = Emptied(current_code_page, p, i)
          /\ current_code_cachep' = current_code_cachep
      BY <2>1 DEF read_paged_byte, p, i
    <3>2. /\ chain' \in [1 .. Entries -> Entry]
          /\ page_number' \in [Entry -> 0 .. FilePages - 1]
          /\ data' \in [Entry -> [Offset -> Byte \cup {Junk}]]
          /\ ChainComplete' /\ UnusedLast' /\ OneCopy' /\ EntryCoherent'
          /\ chain[i] \in Entry /\ page_number'[chain[i]] = p
          /\ \A q \in Nat, e \in Entry :
               page_number[e] = q /\ Emptied(q, p, i) # 0 => page_number'[e] = q
      BY <1>2, <3>1, UpdateCacheCorrect
    <3>3. /\ current_code_cachep \in Entry /\ current_code_page \in 0 .. FilePages - 1
          /\ current_code_page \in Nat /\ FilePages \in Int
      BY PageCacheAssumption DEF Inv, TypeOK, FilePages
    <3>4. current_code_page' \in {0, current_code_page}
      BY <3>1 DEF Emptied
    <3>5. current_code_page' # 0 => page_number'[current_code_cachep'] = current_code_page'
      BY <3>1, <3>2, <3>3, <3>4 DEF Inv, BuffersCoherent
    <3>. QED  BY <1>2, <3>1, <3>2, <3>3, <3>4, <3>5
  <2>2. CASE p = current_data_page
    <3>1. UNCHANGED <<chain, page_number, data, current_code_page, current_code_cachep,
                      current_data_page, current_data_cachep>>
      BY <2>2 DEF read_paged_byte, p, cache_vars, data_tlb
    <3>. QED
      BY <1>2, <2>2, <3>1 DEF Inv, TypeOK, ChainComplete, UnusedLast, OneCopy,
                              EntryCoherent, BuffersCoherent
  <2>. QED  BY <2>1, <2>2
<1>4. got' = StoryFile[addr]
  <2>1. got' = data'[current_data_cachep'][OffsetOf(addr)]
    BY DEF read_paged_byte
  <2>2. p # 0  BY <1>2
  <2>. QED  BY <1>1, <1>2, <1>3, <2>1, <2>2 DEF EntryCoherent
<1>5. got' \in Byte
  BY <1>1, <1>4, PageCacheAssumption
<1>6. pc' \in PageSize .. FileSize /\ datap' \in [0 .. DataSize - 1 -> Byte]
  BY DEF read_paged_byte, Inv, TypeOK
<1>7. TypeOK' /\ BuffersCoherent'
  <2>1. p \in 0 .. FilePages - 1  BY <1>2
  <2>. QED  BY <1>3, <1>5, <1>6, <2>1 DEF TypeOK, BuffersCoherent
<1>. QED  BY <1>3, <1>4, <1>7 DEF Inv

\* The steps that do not touch the cache.
LEMMA OtherSteps ==
    ASSUME Inv, TypeOK',
           UNCHANGED <<cache_vars, code_tlb, data_tlb>>
    PROVE  Inv'
BY DEF Inv, ChainComplete, UnusedLast, OneCopy, EntryCoherent, BuffersCoherent,
       cache_vars, code_tlb, data_tlb

\* Every step keeps the invariant.
LEMMA NextInv == Inv /\ [Next]_vars => Inv'
<1>. SUFFICES ASSUME Inv, [Next]_vars PROVE Inv'
  OBVIOUS
<1>. USE DEF cache_vars, code_tlb, data_tlb
<1>1. CASE read_code_byte
  BY <1>1, ReadCodeStep
<1>2. ASSUME NEW addr \in Address, read_resident_byte(addr)  PROVE Inv'
  <2>1. addr \in 0 .. DataSize - 1
    BY <1>2, PageCacheAssumption DEF read_resident_byte, Address, DataSize
  <2>. QED  BY <1>2, <2>1, OtherSteps DEF read_resident_byte, Inv, TypeOK
<1>3. ASSUME NEW addr \in Address, read_paged_byte(addr)  PROVE Inv'
  BY <1>3, ReadPagedStep
<1>4. ASSUME NEW addr \in PageSize .. FileSize - 1, set_pc(addr)  PROVE Inv'
  <2>1. addr \in PageSize .. FileSize  BY PageCacheAssumption
  <2>. QED  BY <1>4, <2>1, OtherSteps DEF set_pc, Inv, TypeOK
<1>5. ASSUME NEW addr \in 0 .. DataSize - 1, NEW b \in NewByte, set_byte(addr, b)
      PROVE  Inv'
  <2>1. b \in Byte  BY PageCacheAssumption
  <2>. QED  BY <1>5, <2>1, OtherSteps DEF set_byte, Inv, TypeOK
<1>6. CASE UNCHANGED vars
  BY <1>6, OtherSteps DEF vars, Inv, TypeOK
<1>. QED  BY <1>1, <1>2, <1>3, <1>4, <1>5, <1>6 DEF Next, read_data_byte

\* For every page size, story file and number of cache entries: the cache is
\* coherent in every state the program reaches.
THEOREM CacheCoherent == Spec => []Inv
BY InitInv, NextInv, PTL DEF Spec

\* The type invariant, as the runs check it.
THEOREM TypeCorrect == Spec => []TypeOK
<1>1. Inv => TypeOK  BY DEF Inv
<1>. QED  BY <1>1, CacheCoherent, PTL

\* When one buffer's miss reuses an entry, no buffer is left pointing to a
\* page that is gone.
THEOREM BuffersStayCoherent == Spec => []BuffersCoherent
<1>1. Inv => BuffersCoherent  BY DEF Inv
<1>. QED  BY <1>1, CacheCoherent, PTL

\* A search that stops at an unused entry has seen every page that is cached.
THEOREM SearchSeesEveryPage == Spec => []UnusedLast
<1>1. Inv => UnusedLast  BY DEF Inv
<1>. QED  BY <1>1, CacheCoherent, PTL

\* A page is never read into a second entry.
THEOREM PagesAreCachedOnce == Spec => []OneCopy
<1>1. Inv => OneCopy  BY DEF Inv
<1>. QED  BY <1>1, CacheCoherent, PTL

\* An entry in use holds the bytes of the page its number names.
THEOREM EntriesHoldTheirPages == Spec => []EntryCoherent
<1>1. Inv => EntryCoherent  BY DEF Inv
<1>. QED  BY <1>1, CacheCoherent, PTL

-----------------------------------------------------------------------------
(* Refinement *)

\* load_cache starts from the story file.
LEMMA InitRefines == Init => Memory!Init
BY DEF Init, Memory!Init

\* Every step of the paged memory is a step of the flat one.
LEMMA NextRefines == Inv /\ [Next]_vars => [Memory!Next]_(Memory!vars)
<1>. SUFFICES ASSUME Inv, [Next]_vars PROVE [Memory!Next]_(Memory!vars)
  OBVIOUS
<1>. USE DEF cache_vars, code_tlb, data_tlb
<1>1. CASE read_code_byte
  <2>1. pc < FileSize /\ got' = StoryFile[pc]  BY <1>1, ReadCodeStep
  <2>2. pc' = pc + 1 /\ UNCHANGED datap  BY <1>1 DEF read_code_byte
  <2>. QED  BY <2>1, <2>2 DEF Memory!Next, Memory!ReadCode
<1>2. ASSUME NEW addr \in Address, read_resident_byte(addr)
      PROVE  Memory!Next
  BY <1>2 DEF read_resident_byte, Memory!Next, Memory!ReadData, Address
<1>3. ASSUME NEW addr \in Address, read_paged_byte(addr)
      PROVE  Memory!Next
  <2>1. got' = StoryFile[addr]  BY <1>3, ReadPagedStep
  <2>2. ~(addr < DataSize) /\ UNCHANGED <<pc, datap>>
    BY <1>3, PageCacheAssumption DEF read_paged_byte, Address, DataSize
  <2>. QED  BY <2>1, <2>2 DEF Memory!Next, Memory!ReadData, Address
<1>4. ASSUME NEW addr \in PageSize .. FileSize - 1, set_pc(addr)
      PROVE  Memory!Next
  <2>1. addr \in 0 .. FileSize - 1  BY PageCacheAssumption
  <2>. QED  BY <1>4, <2>1 DEF set_pc, Memory!Next, Memory!Jump
<1>5. ASSUME NEW addr \in 0 .. DataSize - 1, NEW b \in NewByte, set_byte(addr, b)
      PROVE  Memory!Next
  BY <1>5 DEF set_byte, Memory!Next, Memory!Write
<1>6. CASE UNCHANGED vars
  BY <1>6 DEF vars, Memory!vars
<1>. QED  BY <1>1, <1>2, <1>3, <1>4, <1>5, <1>6 DEF Next, read_data_byte

\* A program that reads code and data through the cache sees the story file
\* and its own writes, whatever is cached and evicted on the way.
THEOREM CacheIsTransparent == Spec => ImplementsStoryMemory
<1>1. Spec => Memory!Init /\ [][Memory!Next]_(Memory!vars)
  BY CacheCoherent, InitRefines, NextRefines, PTL DEF Spec
<1>. QED  BY <1>1 DEF ImplementsStoryMemory, Memory!Spec
=============================================================================
