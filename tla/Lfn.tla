-------------------------------- MODULE Lfn ----------------------------------
(***************************************************************************)
(* fat32_find_file_lfn of kernel/fat32.c: the walk over a directory that   *)
(* puts long file names together from the fragments in front of an entry.  *)
(* Characters are numbers; upper case is Lower below lower case, and a     *)
(* UCS-2 character's low byte is what it is modulo Wide.                   *)
(***************************************************************************)
EXTENDS Naturals, Sequences

CONSTANTS
  CHARS,       \* FAT32_LFN_ENTRY_CHARS
  MAX_CHARS,   \* FAT32_MAX_LFN_CHARS
  MAX_ORD,     \* 20 fragments
  NAME, EXT,   \* length of the two parts of a short name
  Lower, Wide,
  Dot, Space,  \* the characters '.' and ' '
  Pad,         \* 0xFFFF
  Dirs,        \* directories: sequences of raw entries
  Targets      \* names looked up

VARIABLES
  dir,      \* the entries, in the order of the directory's chain
  target,   \* the name searched for
  pos,      \* the entry at hand
  lfn,      \* fat32_lfn_state_t
  outcome    \* "none", "miss" or "hit" (the entry at pos)

vars == << dir, target, pos, lfn, outcome >>

to_upper(c) == IF c >= Lower THEN c - Lower ELSE c
low_byte(u) == u % Wide
Upper(s) == [i \in DOMAIN s |-> to_upper(s[i])]
Take(s, n) == SubSeq(s, 1, IF Len(s) < n THEN Len(s) ELSE n)

(* What is looked for: the name in upper case, as much as the buffer holds. *)
str_to_upper(s) == Take(Upper(s), MAX_CHARS)

(* build_name83: the first dot ends the name, blanks and further dots are  *)
(* dropped, both parts are cut.                                            *)
build_name83(s) ==
  LET dots == {i \in DOMAIN s : s[i] = Dot}
      first == IF dots = {} THEN Len(s) + 1
               ELSE CHOOSE i \in dots : \A j \in dots : i <= j
      letters(t) == SelectSeq(t, LAMBDA c : c \notin {Dot, Space})
  IN  << Take(Upper(letters(SubSeq(s, 1, first - 1))), NAME),
         Take(Upper(letters(SubSeq(s, first + 1, Len(s)))), EXT) >>
have_name83(s) == build_name83(s)[1] # << >>

-----------------------------------------------------------------------------
Blank == [p \in 0 .. MAX_CHARS |-> 0]
lfn_reset == [in_use |-> FALSE, seq_total |-> 0, name |-> [lfn.name EXCEPT ![0] = 0]]

(* What a fragment writes: its characters up to a terminator or padding,   *)
(* from the place its ordinal gives, as far as the name has room.          *)
has_room(p) == p < MAX_CHARS
index_base(ord) == (ord - 1) * CHARS
Contributed(name, ord, chars) ==
  LET base == index_base(ord)
      stops == {i \in DOMAIN chars : chars[i] \in {0, Pad}}
      n == IF stops = {} THEN Len(chars)
           ELSE (CHOOSE i \in stops : \A j \in stops : i <= j) - 1
  IN  [p \in DOMAIN name |->
         IF p \in base .. base + n - 1 /\ has_room(p)
         THEN to_upper(low_byte(chars[p - base + 1]))
         ELSE IF n < Len(chars) /\ chars[n + 1] = 0 /\ p = base + n /\ has_room(p)
         THEN 0 ELSE name[p]]

lfn_add_entry(e) ==
  IF e.ord = 0 \/ e.ord > MAX_ORD THEN [lfn EXCEPT !.in_use = FALSE]
  ELSE IF e.start
  THEN [in_use |-> TRUE, seq_total |-> e.ord, name |-> Contributed(Blank, e.ord, e.chars)]
  ELSE IF ~lfn.in_use THEN lfn
  ELSE [lfn EXCEPT !.name = Contributed(@, e.ord, e.chars)]

(* lfn_finalize ends the name where its last fragment does. *)
Cut(a, b) == IF a < b THEN a ELSE b
lfn_finalize(l) ==
  LET n == Cut(l.seq_total * CHARS, MAX_CHARS)
  IN  IF \E p \in 0 .. n - 1 : l.name[p] = 0 THEN l.name ELSE [l.name EXCEPT ![n] = 0]

(* str_equals_ci: up to and including the first NUL. *)
EqualNames(name, s) ==
  /\ Len(s) < MAX_CHARS + 1
  /\ \A p \in 0 .. Len(s) - 1 : name[p] = s[p + 1] /\ name[p] # 0
  /\ name[Len(s)] = 0

-----------------------------------------------------------------------------
Init ==
  /\ dir \in Dirs
  /\ target \in {str_to_upper(t) : t \in Targets}
  /\ pos = 1 /\ outcome = "none"
  /\ lfn = [in_use |-> FALSE, seq_total |-> 0, name |-> Blank]

At(k) == outcome = "none" /\ pos <= Len(dir) /\ dir[pos].kind = k
GoOn == pos' = pos + 1 /\ UNCHANGED << dir, target, outcome >>

no_reset_bug == lfn
lfn_dropped == lfn_reset

end_of_directory ==      \* a 0x00 entry, or the end of the chain
  /\ At("end") \/ (outcome = "none" /\ pos > Len(dir))
  /\ outcome' = "miss" /\ UNCHANGED << dir, target, pos, lfn >>
deleted == At("deleted") /\ lfn' = lfn_dropped /\ GoOn
volume_id == At("volume") /\ lfn' = lfn_dropped /\ GoOn
fragment == At("lfn") /\ lfn' = lfn_add_entry(dir[pos]) /\ GoOn

long_matches == lfn.in_use /\ EqualNames(lfn_finalize(lfn), target)
short_matches == have_name83(target) /\ dir[pos].name83 = build_name83(target)
short_name ==
  /\ At("file")
  /\ IF long_matches \/ short_matches
     THEN outcome' = "hit" /\ UNCHANGED << dir, target, pos, lfn >>
     ELSE lfn' = lfn_dropped /\ GoOn

read_error ==            \* fat32_read_cluster failed
  /\ outcome = "none"
  /\ outcome' = "miss" /\ UNCHANGED << dir, target, pos, lfn >>

Next == end_of_directory \/ deleted \/ volume_id \/ fragment \/ short_name
          \/ read_error

Spec == Init /\ [][Next]_vars

-----------------------------------------------------------------------------
(* Types; the assembled name always ends inside its buffer, so that        *)
(* str_equals_ci never reads past it, however many fragments came.         *)
NameEnds ==
  /\ lfn.in_use \in BOOLEAN /\ pos \in 1 .. Len(dir) + 1
  /\ \A p \in DOMAIN lfn.name : lfn.name[p] < Lower
  /\ lfn.name[MAX_CHARS] = 0

(* A hit is explained by the entry itself: by its short name, or by a run  *)
(* of fragments directly in front of it, the first of them marked, that    *)
(* spells the name.  No fragment of another entry takes part.              *)
HitIsExplained ==
  outcome = "hit" =>
    \/ short_matches
    \/ \E k \in 1 .. pos - 1 :
         /\ dir[k].start
         /\ \A j \in k .. pos - 1 : dir[j].kind = "lfn"
         /\ \A c \in DOMAIN target :
              \E j \in k .. pos - 1 :
                LET i == c - (dir[j].ord - 1) * CHARS
                IN  i \in 1 .. CHARS /\ to_upper(low_byte(dir[j].chars[i])) = target[c]

(* An entry whose fragments are all there, in the order VFAT stores them,  *)
(* is not passed over when its name is looked up.                          *)
Complete(i) ==
  \E n \in 1 .. MAX_ORD :
    /\ n < i
    /\ \A m \in 1 .. n : LET e == dir[i - m]
                         IN  e.kind = "lfn" /\ e.ord = m /\ (e.start <=> m = n)
Spelled(i) ==
  LET m == CHOOSE m \in 1 .. MAX_ORD : m < i /\ dir[i - m].start
                                       /\ \A l \in 1 .. m - 1 : ~dir[i - l].start
      all == [p \in 1 .. m * CHARS |->
                low_byte(dir[i - 1 - ((p - 1) \div CHARS)].chars[1 + ((p - 1) % CHARS)])]
      stops == {p \in DOMAIN all : all[p] = 0}
  IN  Upper(SubSeq(all, 1, IF stops = {} THEN Cut(m * CHARS, MAX_CHARS)
                           ELSE (CHOOSE p \in stops : \A q \in stops : p <= q) - 1))
FindsWhatIsThere ==
  \A i \in 1 .. pos - 1 :
    dir[i].kind = "file" /\ Complete(i) => Spelled(i) # target

(* A lookup finds the complete name it is given and nothing else. *)
NamesFound == NameEnds /\ HitIsExplained /\ FindsWhatIsThere
=============================================================================
