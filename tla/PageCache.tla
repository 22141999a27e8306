----------------------------- MODULE PageCache -----------------------------
(***************************************************************************)
(* The page cache of memory.c.  The writeable data area is resident; the   *)
(* rest of the story file is read page by page into cache entries, kept in *)
(* a chain.  A miss searches the chain, reuses the entry at its end when   *)
(* the page is nowhere in it, and moves the entry towards the front.  Two  *)
(* one-entry translation buffers, one for code and one for data, remember  *)
(* the page last used and its entry; page number 0 marks them as empty.    *)
(*                                                                         *)
(* The chain (cache and the flink fields) is a sequence of entries.  A     *)
(* story reads no code from page 0, where its header and tables are, and   *)
(* nothing behind the end of the file.                                     *)
(***************************************************************************)
EXTENDS Integers, Sequences

CONSTANTS
    PageSize,   \* PAGE_SIZE
    FileSize,   \* h_file_size * story_scaler
    DataPages,  \* data_pages: the pages kept in writeable memory
    Entries,    \* the cache entries load_cache could allocate
    StoryFile,  \* address -> byte
    Byte,
    NewByte,    \* the bytes a story writes into its data area
    Junk,       \* what malloc left in an entry
    StartPC

FilePages == (FileSize + PageSize - 1) \div PageSize
DataSize == DataPages * PageSize

ASSUME PageCacheAssumption ==
    /\ PageSize \in Nat \ {0}
    /\ FileSize \in Nat
    /\ DataPages \in Nat \ {0}
    /\ DataSize <= FileSize
    /\ Entries \in Nat \ {0}
    /\ Entries - 1 <= FilePages - DataPages
    /\ StoryFile \in [0 .. FileSize - 1 -> Byte]
    /\ NewByte \subseteq Byte
    /\ StartPC \in PageSize .. FileSize - 1

Offset == 0 .. PageSize - 1
Entry == 1 .. Entries
Address == 0 .. FileSize - 1

\* The address of offset o of page p.
At(p, o) == p * PageSize + o

\* Mutant: the page number rounded up.
PageOf_up(addr) == (addr + PageSize - 1) \div PageSize

PageOf(addr) == addr \div PageSize
OffsetOf(addr) == addr % PageSize

VARIABLES
    chain,               \* the entries, the one cache points to first
    page_number,         \* entry -> page_number, 0 when unused
    data,                \* entry -> its bytes
    current_code_page, current_code_cachep,
    current_data_page, current_data_cachep,
    pc,
    datap,
    got                  \* the last byte a read returned

cache_vars == <<chain, page_number, data>>
code_tlb == <<current_code_page, current_code_cachep>>
data_tlb == <<current_data_page, current_data_cachep>>
vars == <<cache_vars, code_tlb, data_tlb, pc, datap, got>>

-----------------------------------------------------------------------------
(* read_page: the bytes of a page that are in the file replace those of    *)
(* the buffer; behind the end of the file the buffer keeps what it had,    *)
(* since gzread reports a short read as success.                           *)

read_page(p, buffer) ==
    [o \in Offset |-> IF At(p, o) < FileSize THEN StoryFile[At(p, o)]
                                             ELSE buffer[o]]

-----------------------------------------------------------------------------
(* update_cache *)

\* The search stops at the end of the chain, at an unused entry or at the page.
StopsAt(p, i) == \/ i = Len(chain)
                 \/ page_number[chain[i]] = 0
                 \/ page_number[chain[i]] = p

Search(p) == CHOOSE i \in 1 .. Len(chain) :
                /\ StopsAt(p, i)
                /\ \A j \in 1 .. i - 1 : ~StopsAt(p, j)

\* Mutant: cache = cachep, without linking the old front behind it.
MoveToFront_lost(c, i) == [j \in 1 .. Len(c) |-> IF j = 1 THEN c[i] ELSE c[j]]

MoveToFront(c, i) ==
    [j \in 1 .. Len(c) |-> IF j = 1 THEN c[i]
                           ELSE IF j <= i THEN c[j - 1] ELSE c[j]]

\* An entry in use that is given another page: the buffers that point to it
\* are emptied.
Reused(p, i) == /\ page_number[chain[i]] # p
                /\ i = Len(chain)
                /\ page_number[chain[i]] # 0

\* Mutant: the buffers are not looked at when an entry is reused.
Emptied_never(current, p, i) == current

Emptied(current, p, i) ==
    IF Reused(p, i) /\ current = page_number[chain[i]] THEN 0 ELSE current

\* Mutant: the page is numbered but not read.
Updated_unread(p, i) ==
    /\ page_number' = [page_number EXCEPT ![chain[i]] = p]
    /\ chain' = IF i > 2 THEN MoveToFront(chain, i) ELSE chain
    /\ UNCHANGED data

\* The entries after update_cache(p), which stopped at position i.  lastp is
\* still the front entry when i is 1 or 2, and then nothing is moved.
Updated(p, i) ==
    LET e == chain[i] IN
    /\ IF page_number[e] # p
       THEN /\ page_number' = [page_number EXCEPT ![e] = p]
            /\ data' = [data EXCEPT ![e] = read_page(p, @)]
       ELSE UNCHANGED <<page_number, data>>
    /\ chain' = IF i > 2 THEN MoveToFront(chain, i) ELSE chain

-----------------------------------------------------------------------------
(* The actions *)

\* Mutant: load_cache puts every new entry at the end of the chain.
Init_appended ==
    \E d \in 0 .. DataPages - 1 :
    /\ chain = [i \in 1 .. Entries |-> i]
    /\ page_number = [e \in Entry |-> IF e = 1 THEN d ELSE DataPages + e - 2]
    /\ data = [e \in Entry |->
                 IF e = 1 /\ d = 0 THEN [o \in Offset |-> Junk]
                 ELSE read_page(page_number[e], [o \in Offset |-> Junk])]
    /\ current_code_page = 0 /\ current_code_cachep = 1
    /\ current_data_page = d /\ current_data_cachep = 1
    /\ pc = StartPC
    /\ datap = [a \in 0 .. DataSize - 1 |-> StoryFile[a]]
    /\ got = StoryFile[0]

\* load_cache: the first entry was allocated before the data pages were
\* counted; when calc_data_pages looked at the dictionary (page d) through
\* it, it holds that page and the data buffer points to it.  The entries
\* after it, each put at the front, hold the pages behind the data area.
Init ==
    \E d \in 0 .. DataPages - 1 :
    /\ chain = [i \in 1 .. Entries |-> Entries + 1 - i]
    /\ page_number = [e \in Entry |-> IF e = 1 THEN d ELSE DataPages + e - 2]
    /\ data = [e \in Entry |->
                 IF e = 1 /\ d = 0 THEN [o \in Offset |-> Junk]
                 ELSE read_page(page_number[e], [o \in Offset |-> Junk])]
    /\ current_code_page = 0 /\ current_code_cachep = 1
    /\ current_data_page = d /\ current_data_cachep = 1
    /\ pc = StartPC
    /\ datap = [a \in 0 .. DataSize - 1 |-> StoryFile[a]]
    /\ got = StoryFile[0]

\* Mutant: the offset is taken after pc was moved on.
read_code_byte_late ==
    LET p == PageOf(pc)
        i == Search(p)
    IN
    /\ pc < FileSize
    /\ IF p # current_code_page
       THEN /\ Updated(p, i)
            /\ current_code_page' = p
            /\ current_code_cachep' = chain[i]
            /\ current_data_page' = Emptied(current_data_page, p, i)
       ELSE UNCHANGED <<cache_vars, code_tlb, current_data_page>>
    /\ got' = data'[current_code_cachep'][OffsetOf(pc + 1)]
    /\ pc' = pc + 1
    /\ UNCHANGED <<current_data_cachep, datap>>

read_code_byte ==
    LET p == PageOf(pc)
        i == Search(p)
    IN
    /\ pc < FileSize
    /\ IF p # current_code_page
       THEN /\ Updated(p, i)
            /\ current_code_page' = p
            /\ current_code_cachep' = chain[i]
            /\ current_data_page' = Emptied(current_data_page, p, i)
       ELSE UNCHANGED <<cache_vars, code_tlb, current_data_page>>
    /\ got' = data'[current_code_cachep'][OffsetOf(pc)]
    /\ pc' = pc + 1
    /\ UNCHANGED <<current_data_cachep, datap>>

\* Below data_size the byte comes from the writeable area.
read_resident_byte(addr) ==
    /\ addr < DataSize
    /\ got' = datap[addr]
    /\ UNCHANGED <<cache_vars, code_tlb, data_tlb, pc, datap>>

read_paged_byte(addr) ==
    LET p == PageOf(addr)
        i == Search(p)
    IN
    /\ addr >= DataSize
    /\ IF p # current_data_page
       THEN /\ Updated(p, i)
            /\ current_data_page' = p
            /\ current_data_cachep' = chain[i]
            /\ current_code_page' = Emptied(current_code_page, p, i)
       ELSE UNCHANGED <<cache_vars, data_tlb, current_code_page>>
    /\ got' = data'[current_data_cachep'][OffsetOf(addr)]
    /\ UNCHANGED <<current_code_cachep, pc, datap>>

read_data_byte(addr) == read_resident_byte(addr) \/ read_paged_byte(addr)

\* set_byte and set_word, on the writeable area only.
set_byte(addr, b) ==
    /\ datap' = [datap EXCEPT ![addr] = b]
    /\ UNCHANGED <<cache_vars, code_tlb, data_tlb, pc, got>>

\* Calls, returns and jumps move the program counter.
set_pc(addr) ==
    /\ pc' = addr
    /\ UNCHANGED <<cache_vars, code_tlb, data_tlb, datap, got>>

Next ==
    \/ read_code_byte
    \/ \E addr \in Address : read_data_byte(addr)
    \/ \E addr \in PageSize .. FileSize - 1 : set_pc(addr)
    \/ \E addr \in 0 .. DataSize - 1, b \in NewByte : set_byte(addr, b)

Spec == Init /\ [][Next]_vars

-----------------------------------------------------------------------------
(* Properties *)

\* Every variable has its type.  The program counter may be one behind the
\* last byte of the file.
TypeOK ==
    /\ chain \in [1 .. Entries -> Entry]
    /\ page_number \in [Entry -> 0 .. FilePages - 1]
    /\ data \in [Entry -> [Offset -> Byte \cup {Junk}]]
    /\ current_code_page \in 0 .. FilePages - 1
    /\ current_data_page \in 0 .. FilePages - 1
    /\ current_code_cachep \in Entry
    /\ current_data_cachep \in Entry
    /\ pc \in PageSize .. FileSize
    /\ datap \in [0 .. DataSize - 1 -> Byte]
    /\ got \in Byte

\* No entry is lost from the chain and none is in it twice: the surgery on the
\* flink fields keeps every entry reachable.
ChainComplete == \A e \in Entry : \E i \in 1 .. Entries : chain[i] = e

\* Only the last entry of the chain can be unused, so a search that stops at
\* an unused entry has seen every page there is.
UnusedLast ==
    \A i \in 1 .. Entries : page_number[chain[i]] = 0 => i = Entries

\* A page is in one entry at most, so no read can see an older copy of it.
OneCopy ==
    \A e1, e2 \in Entry :
        page_number[e1] = page_number[e2] /\ page_number[e1] # 0 => e1 = e2

\* An entry in use holds the bytes of its page.
EntryCoherent ==
    \A e \in Entry, o \in Offset :
        page_number[e] # 0 /\ At(page_number[e], o) < FileSize
            => data[e][o] = StoryFile[At(page_number[e], o)]

\* A translation buffer that is not empty points to the entry of its page,
\* also when the other buffer's miss has just reused that entry.
BuffersCoherent ==
    /\ current_code_page # 0 =>
         page_number[current_code_cachep] = current_code_page
    /\ current_data_page # 0 =>
         page_number[current_data_cachep] = current_data_page

\* The inductive invariant: what a miss relies on to leave the cache coherent.
Inv ==
    /\ TypeOK
    /\ ChainComplete
    /\ UnusedLast
    /\ OneCopy
    /\ EntryCoherent
    /\ BuffersCoherent

\* Whatever is cached, evicted and pointed to, a program that reads code and
\* data sees only the story file and its own writes.
Memory == INSTANCE StoryMemory
ImplementsStoryMemory == Memory!Spec
=============================================================================
