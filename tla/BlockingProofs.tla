--------------------------- MODULE BlockingProofs ---------------------------
(***************************************************************************)
(* Blocking, for every set of domains, versions and allowlists, any hash   *)
(* functions and any size of the filter.                                   *)
(***************************************************************************)
EXTENDS Blocking, TLAPS

(* Quotient and remainder are unique. *)
LEMMA Remainder ==
  ASSUME NEW W \in Nat \ {0}, NEW q \in Int, NEW r \in 0 .. W - 1, NEW y \in Int,
         y = W * q + r
  PROVE  y % W = r
  <1> DEFINE d == q - (y \div W)
  <1>1. y = W * (y \div W) + (y % W) /\ y % W \in 0 .. W - 1 /\ y \div W \in Int
    BY Z3
  <1>2. d \in Int /\ W * d = (y % W) - r
    BY <1>1, Z3
  <1>3. CASE d >= 1
    <2>1. W * d >= W
      BY <1>2, <1>3, Z3
    <2> QED BY <1>1, <1>2, <2>1, Z3
  <1>4. CASE d <= -1
    <2>1. W * d <= -W
      BY <1>2, <1>4, Z3
    <2> QED BY <1>1, <1>2, <2>1, Z3
  <1>5. CASE d = 0
    BY <1>1, <1>2, <1>5, Z3
  <1> QED BY <1>2, <1>3, <1>4, <1>5, Z3

(* Wrapping a term before it is added, as the builder does, changes nothing. *)
LEMMA WrapOnce ==
  ASSUME NEW W \in Nat \ {0}, NEW a \in Nat, NEW b \in Nat
  PROVE  (a + (b % W)) % W = (a + b) % W
  <1> DEFINE c == a + (b % W)
             r == c % W
  <1>1. b = W * (b \div W) + (b % W) /\ b % W \in Nat /\ b \div W \in Int
    BY Z3
  <1>2. c \in Nat
    BY <1>1
  <1> HIDE DEF c
  <1>3. c = W * (c \div W) + r /\ r \in 0 .. W - 1 /\ c \div W \in Int
    BY <1>2, Z3
  <1>4. a + b = c + W * (b \div W)
    BY <1>1, Z3 DEF c
  <1>5. a + b = W * ((c \div W) + (b \div W)) + r
    BY <1>1, <1>2, <1>3, <1>4, Z3
  <1>6. (c \div W) + (b \div W) \in Int /\ a + b \in Int
    BY <1>1, <1>3
  <1> HIDE DEF r
  <1>7. (a + b) % W = r
    BY <1>3, <1>5, <1>6, Remainder
  <1> QED BY <1>7 DEF r, c

(* The firmware computes the indices that the builder computed. *)
LEMMA SameIndex ==
  ASSUME NEW x \in Domains, NEW i \in Nat, NEW m \in Nat \ {0}
  PROVE  Index(x, i, m) = BitIndex(x, i, m)
  <1>1. Word \in Nat \ {0} /\ h1[x] \in Nat /\ h2[x] \in Nat
    BY BloomAssumption
  <1>2. i * h2[x] \in Nat
    BY <1>1
  <1>3. (h1[x] + ((i * h2[x]) % Word)) % Word = (h1[x] + (i * h2[x])) % Word
    BY <1>1, <1>2, WrapOnce
  <1> QED BY <1>3 DEF Index, BitIndex

(* "A bloom-filter miss is always trusted" (README.md:26): for any hash     *)
(* functions, size and number of hashes, what the builder puts into a       *)
(* filter is found there by the firmware (NoFalseNegative).                  *)
THEOREM MissIsTrusted ==
  ASSUME NEW sizes \in SUBSET (Nat \ {0}), NEW counts \in SUBSET Nat
  PROVE  NoFalseNegative(sizes, counts)
  <1> SUFFICES ASSUME NEW m \in sizes, NEW k \in counts, NEW S \in SUBSET Domains,
                      NEW x \in S, NEW i \in 0 .. k - 1
               PROVE  Index(x, i, m) \in {BitIndex(y, j, m) : y \in S, j \in 0 .. k - 1}
    BY DEF NoFalseNegative, Test, Build
  <1>1. Index(x, i, m) = BitIndex(x, i, m)
    BY SameIndex
  <1> QED BY <1>1

LEMMA ListedIsHit ==
  ASSUME TypeOK, qname \in Listed[s_bloom.version]
  PROVE  Hit(qname)
  <1>1. s_bloom.version \in Filters
    BY DEF TypeOK
  <1>2. Listed[s_bloom.version] \in SUBSET Domains
    BY <1>1, BlockingAssumption
  <1>3. NoFalseNegative({m_bits}, {k_hashes})
    BY BlockingAssumption, MissIsTrusted
  <1> QED BY <1>2, <1>3 DEF NoFalseNegative, Hit

(* A filter that bloom_filter_init accepts is read within its buffer, as    *)
(* long as the number of its bits is one the check can count (ReadsWithin). *)
THEOREM ReadsInBounds ==
  ASSUME NEW sizes \in SUBSET Nat, NEW counts \in SUBSET Nat, NEW lengths \in SUBSET Nat
  PROVE  ReadsWithin(sizes, counts, lengths)
  <1> SUFFICES ASSUME NEW m \in sizes, NEW k \in counts, NEW len \in lengths,
                      Accepts(len, m), Countable(m),
                      NEW x \in Domains, NEW i \in 0 .. k - 1
               PROVE  HeaderLen + Index(x, i, m) \div 8 < len
    BY DEF ReadsWithin
  <1>1. Word \in Nat \ {0} /\ Size \in Nat \ {0} /\ HeaderLen \in Nat
        /\ h1[x] \in Nat /\ h2[x] \in Nat /\ m \in Nat \ {0}
    BY BloomAssumption DEF Countable
  <1>2. BitArrayBytes(m) = (m + 7) \div 8
    <2>1. (m + 7) % Word = m + 7
      <3>1. m + 7 = Word * 0 + (m + 7) /\ m + 7 \in 0 .. Word - 1
        BY <1>1 DEF Countable
      <3> QED BY <1>1, <3>1, Remainder
    <2>2. ((m + 7) \div 8) % Size = (m + 7) \div 8
      <3>1. (m + 7) \div 8 \in Nat
        BY <1>1, Z3
      <3>2. (m + 7) \div 8 = Size * 0 + ((m + 7) \div 8) /\ (m + 7) \div 8 \in 0 .. Size - 1
        BY <1>1, <3>1 DEF Countable
      <3> QED BY <1>1, <3>1, <3>2, Remainder
    <2> QED BY <2>1, <2>2 DEF BitArrayBytes
  <1>3. Index(x, i, m) \in 0 .. m - 1
    <2>1. i * h2[x] \in Nat
      BY <1>1
    <2>2. (h1[x] + (i * h2[x])) % Word \in Nat
      BY <1>1, <2>1, Z3
    <2> DEFINE w == (h1[x] + (i * h2[x])) % Word
    <2> HIDE DEF w
    <2>3. w % m \in 0 .. m - 1
      BY <1>1, <2>2, Z3 DEF w
    <2> QED BY <2>3 DEF Index, w
  <1> DEFINE idx == Index(x, i, m)
  <1> HIDE DEF idx
  <1>4. idx \div 8 < (m + 7) \div 8
    BY <1>1, <1>3, Z3 DEF idx
  <1>5. HeaderLen + (m + 7) \div 8 <= len
    BY <1>1, <1>2 DEF Accepts
  <1>6. idx \div 8 \in Int /\ (m + 7) \div 8 \in Int /\ len \in Int
    BY <1>1, <1>3, Z3 DEF idx
  <1>7. HeaderLen + idx \div 8 < len
    BY <1>1, <1>4, <1>5, <1>6
  <1> QED BY <1>7 DEF idx

-----------------------------------------------------------------------------
(* The reloads: where each structure is while its reload is under way.  As   *)
(* long as no two update tasks were in one reload, one at most has unmapped  *)
(* the filter and one at most has freed the list.                             *)

FilterWhole == ~raced =>
  /\ \A u, w \in Updaters : upc[u] = "map" /\ upc[w] = "map" => u = w
  /\ s_bloom.version = Seed => s_bloom.live
  /\ ~s_bloom.live /\ s_bloom_ready => \E u \in Updaters : upc[u] = "map"
  /\ s_bloom_ready /\ Quiet({"unmap", "map"}) => s_bloom.version \in {bloom_part, Seed}

ListWhole == ~raced =>
  /\ \A u, w \in Updaters :
       upc[u] \in {"clear", "load"} /\ upc[w] \in {"clear", "load"} => u = w
  /\ s_domains.state = "freed" => \E u \in Updaters : upc[u] = "clear"
  /\ \A u \in Updaters : upc[u] = "clear" => s_domains.state # "loaded"
  /\ \A u \in Updaters : upc[u] = "load" => s_domains = Empty
  /\ Quiet({"free", "clear", "load"}) => s_domains \in Loadable(list_file)

AllowlistWhole ==
  /\ s_allowlist.state = "freed" => wpc = "clear"
  /\ s_allowlist.state = "empty" => s_allowlist = Empty
  /\ wpc = "clear" => s_allowlist.state # "loaded"
  /\ wpc = "load" => s_allowlist = Empty
  /\ wpc = "idle" => s_allowlist \in Allowable(allow_nvs)

(* app_main loads the list before any update task runs. *)
BootWhole ==
  /\ s_domains.state = "empty" => s_domains = Empty
  /\ booting => s_domains = Empty /\ \A u \in Updaters : upc[u] = "idle"

ReloadInv == TypeOK /\ FilterWhole /\ ListWhole /\ AllowlistWhole /\ BootWhole

(* A step that does not concern a structure leaves what is said of it. *)

LEMMA FilterKept ==
  ASSUME FilterWhole, UNCHANGED <<s_bloom, s_bloom_ready, bloom_part>>, raced => raced',
         \A u \in Updaters : upc'[u] = upc[u]
                                \/ {upc[u], upc'[u]} \cap {"unmap", "map"} = {}
  PROVE  FilterWhole'
  <1>1. \A u \in Updaters : (upc'[u] = "map") = (upc[u] = "map")
    OBVIOUS
  <1>2. Quiet({"unmap", "map"})' => Quiet({"unmap", "map"})
    BY DEF Quiet
  <1> QED BY <1>1, <1>2 DEF FilterWhole

LEMMA ListKept ==
  ASSUME ListWhole, UNCHANGED <<s_domains, list_file>>, raced => raced',
         \A u \in Updaters : upc'[u] = upc[u]
                                \/ {upc[u], upc'[u]} \cap {"free", "clear", "load"} = {}
  PROVE  ListWhole'
  <1>1. \A u \in Updaters : /\ (upc'[u] = "clear") = (upc[u] = "clear")
                             /\ (upc'[u] = "load") = (upc[u] = "load")
    OBVIOUS
  <1>2. Quiet({"free", "clear", "load"})' => Quiet({"free", "clear", "load"})
    BY DEF Quiet
  <1> QED BY <1>1, <1>2 DEF ListWhole

LEMMA AllowlistKept ==
  ASSUME AllowlistWhole, UNCHANGED <<s_allowlist, allow_nvs, wpc>>
  PROVE  AllowlistWhole'
  BY DEF AllowlistWhole

LEMMA BootKept ==
  ASSUME BootWhole, UNCHANGED s_domains, booting' => booting /\ UNCHANGED upc
  PROVE  BootWhole'
  BY DEF BootWhole

LEMMA Steps ==
  ASSUME TypeOK, NEW u \in Updaters, NEW from,
         NEW to \in {"idle", "unmap", "map", "free", "clear", "load"}, Step(u, from, to)
  PROVE  /\ upc' \in [Updaters -> {"idle", "unmap", "map", "free", "clear", "load"}]
         /\ upc[u] = from /\ upc'[u] = to
         /\ \A w \in Updaters \ {u} : upc'[w] = upc[w]
  BY DEF TypeOK, Step

(* A task at work means that app_main is through. *)
LEMMA WorkAfterBoot ==
  ASSUME BootWhole, NEW u \in Updaters, upc[u] # "idle"
  PROVE  ~booting
  BY DEF BootWhole

(* What is read and what is loaded is well typed. *)

LEMMA SeenTyped ==
  ASSUME TypeOK, Watch
  PROVE  seen' \subseteq Reasons /\ list_served' \in BOOLEAN
  <1>1. Facts' \subseteq Reasons /\ "off" \in Reasons
    BY DEF Facts, Verdict, Reasons
  <1>2. (seen \cup Facts') \cap Grounds' \subseteq Reasons
    BY <1>1 DEF TypeOK
  <1>3. seen' \subseteq Reasons
    BY <1>1, <1>2 DEF Watch
  <1>4. list_served' \in BOOLEAN
    BY DEF Watch
  <1> QED BY <1>3, <1>4

LEMMA StructureTyped ==
  /\ \A part \in Versions \cup {Blank} : \A bloom \in Booted(part) :
       /\ bloom \in [version : Filters, live : BOOLEAN]
       /\ bloom.live /\ bloom.version \in {part, Seed}
       /\ Ready(bloom) \in BOOLEAN
  /\ \A file \in Versions : \A list \in Loadable(file) :
       /\ list \in [state : {"loaded", "freed", "empty"}, names : SUBSET Domains]
       /\ list.state # "freed" /\ (list.state = "empty" => list = Empty)
  /\ \A names \in Allowlists : \A list \in Allowable(names) :
       /\ list \in [state : {"loaded", "freed", "empty"}, names : SUBSET Domains]
       /\ list.state # "freed" /\ (list.state = "empty" => list = Empty)
  /\ Empty \in [state : {"loaded", "freed", "empty"}, names : SUBSET Domains]
  /\ Freed \in [state : {"loaded", "freed", "empty"}, names : SUBSET Domains]
  /\ Empty.state = "empty" /\ Freed.state = "freed"
  /\ \A file : Empty \in Loadable(file)
  /\ \A names : Empty \in Allowable(names)
  <1>1. \A part \in Versions \cup {Blank} : \A bloom \in Booted(part) :
          /\ bloom \in [version : Filters, live : BOOLEAN]
          /\ bloom.live /\ bloom.version \in {part, Seed}
          /\ Ready(bloom) \in BOOLEAN
    <2> SUFFICES ASSUME NEW part \in Versions \cup {Blank}, NEW bloom \in Booted(part)
                 PROVE  /\ bloom \in [version : Filters, live : BOOLEAN]
                        /\ bloom.live /\ bloom.version \in {part, Seed}
                        /\ Ready(bloom) \in BOOLEAN
      OBVIOUS
    <2>1. PICK v \in Mappable(part) : bloom = [version |-> v, live |-> TRUE]
      BY DEF Booted
    <2>2. v \in Filters /\ v \in {part, Seed}
      BY DEF Mappable, Filters
    <2> QED BY <2>1, <2>2, BlockingAssumption DEF Ready
  <1>2. \A file \in Versions : \A list \in Loadable(file) :
          /\ list \in [state : {"loaded", "freed", "empty"}, names : SUBSET Domains]
          /\ list.state # "freed" /\ (list.state = "empty" => list = Empty)
    <2>1. \A file \in Versions : Listed[file] \subseteq Domains
      BY BlockingAssumption DEF Filters
    <2> QED BY <2>1 DEF Loadable, Loaded, Empty
  <1>3. \A names \in Allowlists : \A list \in Allowable(names) :
          /\ list \in [state : {"loaded", "freed", "empty"}, names : SUBSET Domains]
          /\ list.state # "freed" /\ (list.state = "empty" => list = Empty)
    BY BlockingAssumption DEF Allowable, Loaded, Empty
  <1>4. \A file : Empty \in Loadable(file) /\ Empty \in Allowable(file)
    BY DEF Loadable, Allowable
  <1> QED BY <1>1, <1>2, <1>3, <1>4 DEF Empty, Freed

LEMMA ReloadInit == Init => ReloadInv
  <1> SUFFICES ASSUME Init PROVE ReloadInv
    OBVIOUS
  <1> USE StructureTyped DEF Init
  <1>1. TypeOK
    BY DEF TypeOK
  <1>2. FilterWhole
    BY DEF FilterWhole
  <1>3. ListWhole
    BY DEF ListWhole
  <1>4. AllowlistWhole
    BY DEF AllowlistWhole
  <1>5. BootWhole
    BY DEF BootWhole
  <1> QED BY <1>1, <1>2, <1>3, <1>4, <1>5 DEF ReloadInv

LEMMA ReloadStep == ReloadInv /\ [Next]_vars => ReloadInv'
  <1> SUFFICES ASSUME ReloadInv, [Next]_vars PROVE ReloadInv'
    OBVIOUS
  <1> USE DEF ReloadInv
  <1>0. CASE UNCHANGED vars
    <2>1. UNCHANGED <<bloom_part, list_file, allow_nvs, s_bloom, s_bloom_ready, s_domains,
                      s_allowlist, booting, upc, wpc, raced, list_served, pc, qname,
                      misread, seen>>
      BY <1>0 DEF vars, storeVars, bloomVars, taskVars
    <2>2. TypeOK'
      BY <2>1 DEF TypeOK
    <2>3. FilterWhole' /\ ListWhole' /\ AllowlistWhole' /\ BootWhole'
      BY <2>1, FilterKept, ListKept, AllowlistKept, BootKept
    <2> QED BY <2>2, <2>3
  <1>s. CASE Next
    <2>0. Watch
      BY <1>s DEF Next
    <2>t. seen' \subseteq Reasons /\ list_served' \in BOOLEAN
      BY <2>0, SeenTyped
    <2>1. CASE BootList
      <3>1. TypeOK'
        BY <2>1, <2>t, StructureTyped DEF TypeOK, BootList, storeVars, bloomVars, queryVars, taskVars,
               ramVars, Disturb
      <3>2. FilterWhole'
        BY <2>1, FilterKept
           DEF BootList, storeVars, bloomVars, queryVars, taskVars, ramVars, Disturb
      <3>3. ListWhole'
        <4>1. s_domains' \in Loadable(list_file) /\ list_file' = list_file /\ upc' = upc
          BY <2>1 DEF BootList, storeVars
        <4>2. s_domains'.state # "freed"
          BY <4>1, StructureTyped DEF TypeOK
        <4>3. \A u \in Updaters : upc'[u] = "idle"
          BY <2>1, <4>1 DEF BootList, BootWhole
        <4> QED BY <4>1, <4>2, <4>3 DEF ListWhole
      <3>4. AllowlistWhole'
        BY <2>1, AllowlistKept
           DEF BootList, storeVars, bloomVars, queryVars, taskVars, ramVars, Disturb
      <3>5. BootWhole'
        BY <2>1, StructureTyped DEF BootList, BootWhole, TypeOK, storeVars
      <3> QED BY <3>1, <3>2, <3>3, <3>4, <3>5
    <2>2. ASSUME NEW u \in Updaters, NEW v \in Versions, PublishFilter(u, v) PROVE ReloadInv'
      <3>0. /\ upc' \in [Updaters -> {"idle", "unmap", "map", "free", "clear", "load"}]
            /\ upc[u] = "idle" /\ upc'[u] = "unmap"
            /\ \A w \in Updaters \ {u} : upc'[w] = upc[w]
        BY <2>2, Steps DEF PublishFilter
      <3>1. TypeOK'
        BY <2>2, <3>0, <2>t DEF TypeOK, PublishFilter, storeVars, bloomVars, queryVars, taskVars,
               ramVars, Disturb
      <3>2. FilterWhole'
        <4>1. /\ UNCHANGED <<s_bloom, s_bloom_ready, raced>>
              /\ \A w \in Updaters : (upc'[w] = "map") = (upc[w] = "map")
              /\ ~Quiet({"unmap", "map"})'
          BY <2>2, <3>0 DEF PublishFilter, bloomVars, Quiet
        <4> QED BY <4>1 DEF FilterWhole
      <3>3. ListWhole'
        BY <2>2, <3>0, ListKept
           DEF PublishFilter, storeVars, bloomVars, queryVars, taskVars, ramVars, Disturb
      <3>4. AllowlistWhole'
        BY <2>2, <3>0, AllowlistKept
           DEF PublishFilter, storeVars, bloomVars, queryVars, taskVars, ramVars, Disturb
      <3>5. BootWhole'
        BY <2>2, <3>0, BootKept
           DEF PublishFilter, storeVars, bloomVars, queryVars, taskVars, ramVars, Disturb
      <3> QED BY <3>1, <3>2, <3>3, <3>4, <3>5
    <2>3. ASSUME NEW u \in Updaters, NEW v \in Versions, PublishList(u, v) PROVE ReloadInv'
      <3>0. /\ upc' \in [Updaters -> {"idle", "unmap", "map", "free", "clear", "load"}]
            /\ upc[u] = "idle" /\ upc'[u] = "free"
            /\ \A w \in Updaters \ {u} : upc'[w] = upc[w]
        BY <2>3, Steps DEF PublishList
      <3>1. TypeOK'
        BY <2>3, <3>0, <2>t DEF TypeOK, PublishList, storeVars, bloomVars, queryVars, taskVars,
               ramVars, Disturb
      <3>2. FilterWhole'
        BY <2>3, <3>0, FilterKept
           DEF PublishList, storeVars, bloomVars, queryVars, taskVars, ramVars, Disturb
      <3>3. ListWhole'
        <4>1. /\ UNCHANGED <<s_domains, raced>>
              /\ \A w \in Updaters : /\ (upc'[w] = "clear") = (upc[w] = "clear")
                                     /\ (upc'[w] = "load") = (upc[w] = "load")
              /\ ~Quiet({"free", "clear", "load"})'
          BY <2>3, <3>0 DEF PublishList, Quiet
        <4> QED BY <4>1 DEF ListWhole
      <3>4. AllowlistWhole'
        BY <2>3, <3>0, AllowlistKept
           DEF PublishList, storeVars, bloomVars, queryVars, taskVars, ramVars, Disturb
      <3>5. BootWhole'
        BY <2>3, <3>0, BootKept
           DEF PublishList, storeVars, bloomVars, queryVars, taskVars, ramVars, Disturb
      <3> QED BY <3>1, <3>2, <3>3, <3>4, <3>5
    <2>4. ASSUME NEW u \in Updaters, Unmap(u) PROVE ReloadInv'
      <3>0. /\ upc' \in [Updaters -> {"idle", "unmap", "map", "free", "clear", "load"}]
            /\ upc[u] = "unmap" /\ upc'[u] = "map"
            /\ \A w \in Updaters \ {u} : upc'[w] = upc[w]
        BY <2>4, Steps DEF Unmap
      <3>1. TypeOK'
        BY <2>4, <3>0, <2>t DEF TypeOK, Unmap, storeVars, bloomVars, queryVars, taskVars,
               ramVars, Disturb
      <3>2. FilterWhole'
        <4> SUFFICES ASSUME ~raced' PROVE FilterWhole'
          BY DEF FilterWhole
        <4>1. ~raced /\ \A w \in Updaters \ {u} : upc[w] # "map"
          BY <2>4 DEF Unmap, Others
        <4>2. s_bloom'.version = s_bloom.version /\ (s_bloom'.version = Seed => s_bloom' = s_bloom)
          BY <2>4 DEF Unmap, TypeOK
        <4>3. ~Quiet({"unmap", "map"})'
          BY <3>0 DEF Quiet
        <4>4. \A w, z \in Updaters : upc'[w] = "map" /\ upc'[z] = "map" => w = z
          BY <3>0, <4>1
        <4>5. s_bloom'.version = Seed => s_bloom'.live
          BY <4>1, <4>2 DEF FilterWhole
        <4> QED BY <3>0, <4>3, <4>4, <4>5 DEF FilterWhole
      <3>3. ListWhole'
        BY <2>4, <3>0, ListKept
           DEF Unmap, storeVars, bloomVars, queryVars, taskVars, ramVars, Disturb
      <3>4. AllowlistWhole'
        BY <2>4, <3>0, AllowlistKept
           DEF Unmap, storeVars, bloomVars, queryVars, taskVars, ramVars, Disturb
      <3>5. BootWhole'
        BY <2>4, <3>0, BootKept, WorkAfterBoot
           DEF Unmap, storeVars, bloomVars, queryVars, taskVars, ramVars, Disturb
      <3> QED BY <3>1, <3>2, <3>3, <3>4, <3>5
    <2>5. ASSUME NEW u \in Updaters, Map(u) PROVE ReloadInv'
      <3>0. /\ upc' \in [Updaters -> {"idle", "unmap", "map", "free", "clear", "load"}]
            /\ upc[u] = "map" /\ upc'[u] = "idle"
            /\ \A w \in Updaters \ {u} : upc'[w] = upc[w]
        BY <2>5, Steps DEF Map
      <3>1. TypeOK'
        <4>1. PICK part \in Active(u, bloom_part, "unmap") : \E bloom \in Booted(part) :
                /\ s_bloom' \in {IF Ready(bloom) THEN bloom ELSE s_bloom}
                                  \cup {b \in {[bloom EXCEPT !.live = FALSE]} : raced}
                /\ s_bloom_ready' = Ready(bloom)
          BY <2>5 DEF Map
        <4>2. part \in Versions \cup {Blank}
          BY <4>1 DEF Active, TypeOK
        <4>3. PICK bloom \in Booted(part) :
                /\ s_bloom' \in {s_bloom, bloom, [bloom EXCEPT !.live = FALSE]}
                /\ s_bloom_ready' = Ready(bloom)
          BY <4>1
        <4>4. bloom \in [version : Filters, live : BOOLEAN] /\ Ready(bloom) \in BOOLEAN
          BY <4>2, StructureTyped
        <4>5. [bloom EXCEPT !.live = FALSE] \in [version : Filters, live : BOOLEAN]
          BY <4>4
        <4>6. s_bloom' \in [version : Filters, live : BOOLEAN] /\ s_bloom_ready' \in BOOLEAN
          BY <4>3, <4>4, <4>5 DEF TypeOK
        <4> QED BY <2>5, <2>t, <3>0, <4>6 DEF TypeOK, Map, storeVars, queryVars, Disturb
      <3>2. FilterWhole'
        <4> SUFFICES ASSUME ~raced' PROVE FilterWhole'
          BY DEF FilterWhole
        <4>1. ~raced /\ bloom_part' = bloom_part
          BY <2>5 DEF Map, storeVars
        <4>2. PICK part \in Active(u, bloom_part, "unmap") : \E bloom \in Booted(part) :
                /\ s_bloom' = IF Ready(bloom) THEN bloom ELSE s_bloom
                /\ s_bloom_ready' = Ready(bloom)
          BY <2>5, <4>1 DEF Map
        <4>3. part \in Versions \cup {Blank}
          BY <4>2 DEF Active, TypeOK
        <4>4. PICK bloom \in Booted(part) : /\ s_bloom' = IF Ready(bloom) THEN bloom ELSE s_bloom
                                           /\ s_bloom_ready' = Ready(bloom)
          BY <4>2
        <4>5. bloom.live /\ bloom.version \in {part, Seed}
          BY <4>3, StructureTyped
        <4>6. \A w, z \in Updaters : upc'[w] = "map" /\ upc'[z] = "map" => w = z
          BY <3>0, <4>1 DEF FilterWhole
        <4>7. s_bloom_ready' => s_bloom' = bloom
          BY <4>4
        <4>8. s_bloom'.version = Seed => s_bloom'.live
          BY <4>1, <4>4, <4>5 DEF FilterWhole
        <4>9. Quiet({"unmap", "map"})' => part = bloom_part
          BY <3>0, <4>2 DEF Active, Others, Quiet
        <4> QED BY <4>1, <4>5, <4>6, <4>7, <4>8, <4>9 DEF FilterWhole
      <3>3. ListWhole'
        BY <2>5, <3>0, ListKept
           DEF Map, storeVars, bloomVars, queryVars, taskVars, ramVars, Disturb
      <3>4. AllowlistWhole'
        BY <2>5, <3>0, AllowlistKept
           DEF Map, storeVars, bloomVars, queryVars, taskVars, ramVars, Disturb
      <3>5. BootWhole'
        BY <2>5, <3>0, BootKept, WorkAfterBoot
           DEF Map, storeVars, bloomVars, queryVars, taskVars, ramVars, Disturb
      <3> QED BY <3>1, <3>2, <3>3, <3>4, <3>5
    <2>6. ASSUME NEW u \in Updaters, FreeList(u) PROVE ReloadInv'
      <3>0. /\ upc' \in [Updaters -> {"idle", "unmap", "map", "free", "clear", "load"}]
            /\ upc[u] = "free" /\ upc'[u] = "clear"
            /\ \A w \in Updaters \ {u} : upc'[w] = upc[w]
        BY <2>6, Steps DEF FreeList
      <3>1. TypeOK'
        BY <2>6, <3>0, <2>t, StructureTyped DEF TypeOK, FreeList, storeVars, bloomVars, queryVars, taskVars,
               ramVars, Disturb
      <3>2. FilterWhole'
        BY <2>6, <3>0, FilterKept
           DEF FreeList, storeVars, bloomVars, queryVars, taskVars, ramVars, Disturb
      <3>3. ListWhole'
        <4> SUFFICES ASSUME ~raced' PROVE ListWhole'
          BY DEF ListWhole
        <4>1. ~raced /\ \A w \in Updaters \ {u} : upc[w] \notin {"clear", "load"}
          BY <2>6 DEF FreeList, Others
        <4>2. s_domains' \in {Empty, Freed}
          BY <2>6 DEF FreeList
        <4>3. s_domains'.state # "loaded"
          BY <4>2, StructureTyped
        <4>4. ~Quiet({"free", "clear", "load"})'
          BY <3>0 DEF Quiet
        <4> QED BY <3>0, <4>1, <4>3, <4>4 DEF ListWhole
      <3>4. AllowlistWhole'
        BY <2>6, <3>0, AllowlistKept
           DEF FreeList, storeVars, bloomVars, queryVars, taskVars, ramVars, Disturb
      <3>5. BootWhole'
        BY <2>6, <3>0, WorkAfterBoot, StructureTyped DEF FreeList, BootWhole
      <3> QED BY <3>1, <3>2, <3>3, <3>4, <3>5
    <2>7. ASSUME NEW u \in Updaters, ClearList(u) PROVE ReloadInv'
      <3>0. /\ upc' \in [Updaters -> {"idle", "unmap", "map", "free", "clear", "load"}]
            /\ upc[u] = "clear" /\ upc'[u] = "load"
            /\ \A w \in Updaters \ {u} : upc'[w] = upc[w]
        BY <2>7, Steps DEF ClearList
      <3>1. TypeOK'
        BY <2>7, <3>0, <2>t, StructureTyped DEF TypeOK, ClearList, storeVars, bloomVars, queryVars, taskVars,
               ramVars, Disturb
      <3>2. FilterWhole'
        BY <2>7, <3>0, FilterKept
           DEF ClearList, storeVars, bloomVars, queryVars, taskVars, ramVars, Disturb
      <3>3. ListWhole'
        <4> SUFFICES ASSUME ~raced' PROVE ListWhole'
          BY DEF ListWhole
        <4>1. ~raced /\ s_domains' = Empty
          BY <2>7 DEF ClearList
        <4>2. \A w \in Updaters \ {u} : upc[w] \notin {"clear", "load"}
          BY <3>0, <4>1 DEF ListWhole
        <4>3. ~Quiet({"free", "clear", "load"})'
          BY <3>0 DEF Quiet
        <4> QED BY <3>0, <4>1, <4>2, <4>3, StructureTyped DEF ListWhole
      <3>4. AllowlistWhole'
        BY <2>7, <3>0, AllowlistKept
           DEF ClearList, storeVars, bloomVars, queryVars, taskVars, ramVars, Disturb
      <3>5. BootWhole'
        BY <2>7, <3>0, WorkAfterBoot, StructureTyped DEF ClearList, BootWhole
      <3> QED BY <3>1, <3>2, <3>3, <3>4, <3>5
    <2>8. ASSUME NEW u \in Updaters, LoadList(u) PROVE ReloadInv'
      <3>0. /\ upc' \in [Updaters -> {"idle", "unmap", "map", "free", "clear", "load"}]
            /\ upc[u] = "load" /\ upc'[u] = "idle"
            /\ \A w \in Updaters \ {u} : upc'[w] = upc[w]
        BY <2>8, Steps DEF LoadList
      <3>1. TypeOK'
        <4>1. PICK file \in Active(u, list_file, "free") :
                s_domains' \in {s_domains, Freed} \cup Loadable(file)
          BY <2>8 DEF LoadList
        <4>2. file \in Versions
          BY <4>1 DEF Active, TypeOK
        <4>3. s_domains' \in [state : {"loaded", "freed", "empty"}, names : SUBSET Domains]
          BY <4>1, <4>2, StructureTyped DEF TypeOK
        <4> QED BY <2>8, <2>t, <3>0, <4>3 DEF TypeOK, LoadList, storeVars, bloomVars, queryVars,
                     Disturb
      <3>2. FilterWhole'
        BY <2>8, <3>0, FilterKept
           DEF LoadList, storeVars, bloomVars, queryVars, taskVars, ramVars, Disturb
      <3>3. ListWhole'
        <4> SUFFICES ASSUME ~raced' PROVE ListWhole'
          BY DEF ListWhole
        <4>1. ~raced /\ list_file' = list_file /\ s_domains = Empty
          BY <2>8, <3>0 DEF LoadList, storeVars, ListWhole
        <4>2. PICK file \in Active(u, list_file, "free") :
                s_domains' \in {Empty} \cup Loadable(file)
          BY <2>8, <4>1 DEF LoadList
        <4>3. file \in Versions
          BY <4>2 DEF Active, TypeOK
        <4>4. s_domains' \in Loadable(file)
          BY <4>2, StructureTyped
        <4>5. s_domains'.state # "freed"
          BY <4>3, <4>4, StructureTyped
        <4>6. \A w \in Updaters : upc'[w] \notin {"clear", "load"}
          BY <3>0, <4>1 DEF ListWhole
        <4>7. Quiet({"free", "clear", "load"})' => file = list_file
          BY <3>0, <4>2 DEF Active, Others, Quiet
        <4> QED BY <4>1, <4>4, <4>5, <4>6, <4>7 DEF ListWhole
      <3>4. AllowlistWhole'
        BY <2>8, <3>0, AllowlistKept
           DEF LoadList, storeVars, bloomVars, queryVars, taskVars, ramVars, Disturb
      <3>5. BootWhole'
        <4>1. ~booting'
          BY <2>8, <3>0, WorkAfterBoot DEF LoadList
        <4>2. s_domains'.state = "empty" => s_domains' = Empty
          <5>1. PICK file \in Active(u, list_file, "free") :
                  s_domains' \in {s_domains, Freed} \cup Loadable(file)
            BY <2>8 DEF LoadList
          <5>2. file \in Versions
            BY <5>1 DEF Active, TypeOK
          <5> QED BY <5>1, <5>2, StructureTyped DEF BootWhole
        <4> QED BY <4>1, <4>2 DEF BootWhole
      <3> QED BY <3>1, <3>2, <3>3, <3>4, <3>5
    <2>9. ASSUME NEW names \in Allowlists, SaveAllowlist(names) PROVE ReloadInv'
      <3>1. TypeOK'
        BY <2>9, <2>t DEF TypeOK, SaveAllowlist, storeVars, bloomVars, queryVars, taskVars,
               ramVars, Disturb
      <3>2. FilterWhole'
        BY <2>9, FilterKept
           DEF SaveAllowlist, storeVars, bloomVars, queryVars, taskVars, ramVars, Disturb
      <3>3. ListWhole'
        BY <2>9, ListKept
           DEF SaveAllowlist, storeVars, bloomVars, queryVars, taskVars, ramVars, Disturb
      <3>4. AllowlistWhole'
        BY <2>9 DEF AllowlistWhole, SaveAllowlist
      <3>5. BootWhole'
        BY <2>9, BootKept
           DEF SaveAllowlist, storeVars, bloomVars, queryVars, taskVars, ramVars, Disturb
      <3> QED BY <3>1, <3>2, <3>3, <3>4, <3>5
    <2>10. CASE FreeAllowlist
      <3>1. TypeOK'
        BY <2>10, <2>t, StructureTyped DEF TypeOK, FreeAllowlist, storeVars, bloomVars, queryVars, taskVars,
               ramVars, Disturb
      <3>2. FilterWhole'
        BY <2>10, FilterKept
           DEF FreeAllowlist, storeVars, bloomVars, queryVars, taskVars, ramVars, Disturb
      <3>3. ListWhole'
        BY <2>10, ListKept
           DEF FreeAllowlist, storeVars, bloomVars, queryVars, taskVars, ramVars, Disturb
      <3>4. AllowlistWhole'
        <4>1. s_allowlist' \in {Empty, Freed} /\ wpc' = "clear"
          BY <2>10 DEF FreeAllowlist
        <4> QED BY <4>1, StructureTyped DEF AllowlistWhole
      <3>5. BootWhole'
        BY <2>10, BootKept
           DEF FreeAllowlist, storeVars, bloomVars, queryVars, taskVars, ramVars, Disturb
      <3> QED BY <3>1, <3>2, <3>3, <3>4, <3>5
    <2>11. CASE ClearAllowlist
      <3>1. TypeOK'
        BY <2>11, <2>t, StructureTyped DEF TypeOK, ClearAllowlist, storeVars, bloomVars, queryVars, taskVars,
               ramVars, Disturb
      <3>2. FilterWhole'
        BY <2>11, FilterKept
           DEF ClearAllowlist, storeVars, bloomVars, queryVars, taskVars, ramVars, Disturb
      <3>3. ListWhole'
        BY <2>11, ListKept
           DEF ClearAllowlist, storeVars, bloomVars, queryVars, taskVars, ramVars, Disturb
      <3>4. AllowlistWhole'
        BY <2>11, StructureTyped DEF AllowlistWhole, ClearAllowlist
      <3>5. BootWhole'
        BY <2>11, BootKept
           DEF ClearAllowlist, storeVars, bloomVars, queryVars, taskVars, ramVars, Disturb
      <3> QED BY <3>1, <3>2, <3>3, <3>4, <3>5
    <2>12. CASE LoadAllowlist
      <3>1. TypeOK'
        BY <2>12, <2>t, StructureTyped DEF TypeOK, LoadAllowlist, storeVars, bloomVars, queryVars, taskVars,
               ramVars, Disturb
      <3>2. FilterWhole'
        BY <2>12, FilterKept
           DEF LoadAllowlist, storeVars, bloomVars, queryVars, taskVars, ramVars, Disturb
      <3>3. ListWhole'
        BY <2>12, ListKept
           DEF LoadAllowlist, storeVars, bloomVars, queryVars, taskVars, ramVars, Disturb
      <3>4. AllowlistWhole'
        <4>1. s_allowlist' \in Allowable(allow_nvs) /\ allow_nvs' = allow_nvs /\ wpc' = "idle"
          BY <2>12, StructureTyped DEF AllowlistWhole, LoadAllowlist, storeVars
        <4>2. s_allowlist'.state # "freed" /\ (s_allowlist'.state = "empty" => s_allowlist' = Empty)
          BY <4>1, StructureTyped DEF TypeOK
        <4> QED BY <4>1, <4>2 DEF AllowlistWhole
      <3>5. BootWhole'
        BY <2>12, BootKept
           DEF LoadAllowlist, storeVars, bloomVars, queryVars, taskVars, ramVars, Disturb
      <3> QED BY <3>1, <3>2, <3>3, <3>4, <3>5
    <2>13. CASE Restart
      <3>1. TypeOK'
        BY <2>13, <2>t, StructureTyped DEF TypeOK, Restart, storeVars
      <3>2. FilterWhole'
        <4>1. s_bloom'.live /\ s_bloom'.version \in {bloom_part, Seed} /\ bloom_part' = bloom_part
          BY <2>13, StructureTyped DEF Restart, storeVars, TypeOK
        <4> QED BY <2>13, <4>1 DEF FilterWhole, Restart
      <3>3. ListWhole'
        BY <2>13, StructureTyped DEF ListWhole, Restart, storeVars, TypeOK
      <3>4. AllowlistWhole'
        BY <2>13, StructureTyped DEF AllowlistWhole, Restart, storeVars, TypeOK
      <3>5. BootWhole'
        BY <2>13 DEF BootWhole, Restart
      <3> QED BY <3>1, <3>2, <3>3, <3>4, <3>5
    <2>14. ASSUME NEW name \in Domains, NEW on \in BOOLEAN, Receive(name, on) PROVE ReloadInv'
      <3>1. TypeOK'
        BY <2>14, <2>t DEF TypeOK, Receive, ramVars, taskVars, storeVars, bloomVars
      <3>2. FilterWhole' /\ ListWhole' /\ AllowlistWhole' /\ BootWhole'
        BY <2>14, FilterKept, ListKept, AllowlistKept, BootKept
           DEF Receive, ramVars, taskVars, storeVars, bloomVars
      <3> QED BY <3>1, <3>2
    <2>15. CASE TestFilter
      <3>1. TypeOK'
        BY <2>15, <2>t DEF TypeOK, TestFilter, ramVars, taskVars, storeVars, bloomVars
      <3>2. FilterWhole' /\ ListWhole' /\ AllowlistWhole' /\ BootWhole'
        BY <2>15, FilterKept, ListKept, AllowlistKept, BootKept
           DEF TestFilter, ramVars, taskVars, storeVars, bloomVars
      <3> QED BY <3>1, <3>2
    <2>16. CASE OpenAllowlist
      <3>1. TypeOK'
        BY <2>16, <2>t DEF TypeOK, OpenAllowlist, ramVars, taskVars, storeVars, bloomVars
      <3>2. FilterWhole' /\ ListWhole' /\ AllowlistWhole' /\ BootWhole'
        BY <2>16, FilterKept, ListKept, AllowlistKept, BootKept
           DEF OpenAllowlist, ramVars, taskVars, storeVars, bloomVars
      <3> QED BY <3>1, <3>2
    <2>17. CASE ScanAllowlist
      <3>1. TypeOK'
        BY <2>17, <2>t DEF TypeOK, ScanAllowlist, ramVars, taskVars, storeVars, bloomVars
      <3>2. FilterWhole' /\ ListWhole' /\ AllowlistWhole' /\ BootWhole'
        BY <2>17, FilterKept, ListKept, AllowlistKept, BootKept
           DEF ScanAllowlist, ramVars, taskVars, storeVars, bloomVars
      <3> QED BY <3>1, <3>2
    <2>18. CASE OpenList
      <3>1. TypeOK'
        BY <2>18, <2>t DEF TypeOK, OpenList, ramVars, taskVars, storeVars, bloomVars
      <3>2. FilterWhole' /\ ListWhole' /\ AllowlistWhole' /\ BootWhole'
        BY <2>18, FilterKept, ListKept, AllowlistKept, BootKept
           DEF OpenList, ramVars, taskVars, storeVars, bloomVars
      <3> QED BY <3>1, <3>2
    <2>19. CASE SearchList
      <3>1. TypeOK'
        BY <2>19, <2>t DEF TypeOK, SearchList, ramVars, taskVars, storeVars, bloomVars
      <3>2. FilterWhole' /\ ListWhole' /\ AllowlistWhole' /\ BootWhole'
        BY <2>19, FilterKept, ListKept, AllowlistKept, BootKept
           DEF SearchList, ramVars, taskVars, storeVars, bloomVars
      <3> QED BY <3>1, <3>2
    <2>20. CASE Finish
      <3>1. TypeOK'
        BY <2>20, <2>t DEF TypeOK, Finish, ramVars, taskVars, storeVars, bloomVars
      <3>2. FilterWhole' /\ ListWhole' /\ AllowlistWhole' /\ BootWhole'
        BY <2>20, FilterKept, ListKept, AllowlistKept, BootKept
           DEF Finish, ramVars, taskVars, storeVars, bloomVars
      <3> QED BY <3>1, <3>2
    <2> QED
      BY <1>s, <2>1, <2>2, <2>3, <2>4, <2>5, <2>6, <2>7, <2>8, <2>9, <2>10, <2>11, <2>12,
         <2>13, <2>14, <2>15, <2>16, <2>17, <2>18, <2>19, <2>20
         DEF Next, Update, Reload, Web, Decide
  <1> QED BY <1>0, <1>s

(* The invariant of the reloads, for any number of update tasks. *)
THEOREM ReloadInvariance == Spec => []ReloadInv
  BY ReloadInit, ReloadStep, PTL DEF Spec

(* The state of the blocking decision is well typed (TypeOK). *)
THEOREM TypeCorrect == Spec => []TypeOK
  <1>1. ReloadInv => TypeOK
    BY DEF ReloadInv
  <1> QED BY <1>1, ReloadInvariance, PTL

(* When the reloads of a structure are over it is not freed, and what was   *)
(* activated last or its fallback, the list as far as it could be read      *)
(* (Restored), for any number of update tasks no two of which were in one   *)
(* reload at the same time.                                                   *)
THEOREM ReloadsRestore == Spec => []Restored
  <1>1. ReloadInv => Restored
    <2> SUFFICES ASSUME ReloadInv PROVE Restored
      OBVIOUS
    <2> USE DEF ReloadInv
    <2>1. ASSUME ~raced, s_bloom_ready, Quiet({"unmap", "map"})
          PROVE  s_bloom.live /\ s_bloom.version \in {bloom_part, Seed}
      BY <2>1 DEF FilterWhole, Quiet, TypeOK
    <2>2. ~raced /\ Quiet({"free", "clear", "load"}) => s_domains \in Loadable(list_file)
      BY DEF ListWhole
    <2>3. wpc = "idle" => s_allowlist \in Allowable(allow_nvs)
      BY DEF AllowlistWhole
    <2> QED BY <2>1, <2>2, <2>3 DEF Restored
  <1> QED BY <1>1, ReloadInvariance, PTL

(* Nothing is misread when no reload is under way (MisreadNeedsReload), for *)
(* any number of update tasks no two of which were in one reload.            *)
THEOREM MisreadOnlyInReload == Spec => MisreadNeedsReload
  <1> DEFINE Guarded ==
        /\ ~raced /\ "filter" \in misread' \ misread => ~Quiet({"unmap", "map"})
        /\ ~raced /\ "list" \in misread' \ misread => ~Quiet({"free", "clear"})
        /\ "allowlist" \in misread' \ misread => wpc \in {"free", "clear"}
  <1>1. ReloadInv /\ [Next]_vars => [Guarded]_vars
    <2> SUFFICES ASSUME ReloadInv, Next PROVE Guarded
      OBVIOUS
    <2>1. ASSUME UNCHANGED misread \/ misread' = {} PROVE Guarded
      BY <2>1
    <2>2. ASSUME NEW u \in Updaters, Reload(u) PROVE Guarded
      <3>1. CASE \E v \in Versions : PublishFilter(u, v) \/ PublishList(u, v)
        BY <2>1, <3>1 DEF PublishFilter, PublishList
      <3>2. CASE Unmap(u)
        BY <3>2 DEF Unmap, Disturb, Step, Quiet
      <3>3. CASE Map(u)
        BY <3>3 DEF Map, Disturb, Step, Quiet
      <3>4. CASE FreeList(u)
        BY <3>4 DEF FreeList, Disturb, Step, Quiet
      <3>5. CASE ClearList(u)
        BY <3>5 DEF ClearList, Disturb
      <3>6. CASE LoadList(u)
        BY <3>6 DEF LoadList, Disturb
      <3> QED BY <2>2, <3>1, <3>2, <3>3, <3>4, <3>5, <3>6 DEF Reload
    <2>3. CASE FreeAllowlist
      BY <2>3 DEF FreeAllowlist, Disturb
    <2>4. ASSUME NEW name \in Domains, NEW on \in BOOLEAN, Receive(name, on) PROVE Guarded
      <3>1. "filter" \in misread' => ~s_bloom.live /\ s_bloom_ready
        BY <2>4 DEF Receive
      <3>2. "list" \notin misread' /\ "allowlist" \notin misread'
        BY <2>4 DEF Receive
      <3>3. ~raced /\ ~s_bloom.live /\ s_bloom_ready => ~Quiet({"unmap", "map"})
        BY DEF ReloadInv, FilterWhole, Quiet
      <3> QED BY <3>1, <3>2, <3>3
    <2>5. CASE OpenAllowlist
      BY <2>5 DEF OpenAllowlist, ReloadInv, AllowlistWhole
    <2>6. CASE OpenList
      <3>1. misread' \subseteq misread \cup {"list"}
            /\ ("list" \in misread' \ misread => s_domains.state = "freed")
        BY <2>6 DEF OpenList
      <3>2. ~raced /\ s_domains.state = "freed" => ~Quiet({"free", "clear"})
        BY DEF ReloadInv, ListWhole, Quiet
      <3> QED BY <3>1, <3>2
    <2>7. CASE BootList \/ ClearAllowlist \/ LoadAllowlist \/ TestFilter \/ ScanAllowlist
               \/ SearchList \/ Finish \/ Restart
               \/ \E names \in Allowlists : SaveAllowlist(names)
      BY <2>1, <2>7 DEF BootList, ClearAllowlist, LoadAllowlist, SaveAllowlist, TestFilter,
                        ScanAllowlist, SearchList, Finish, Restart
    <2> QED BY <2>2, <2>3, <2>4, <2>5, <2>6, <2>7 DEF Next, Update, Web, Decide
  <1> QED BY <1>1, ReloadInvariance, PTL DEF Spec, MisreadNeedsReload

-----------------------------------------------------------------------------
(* The decision: what holds at each of its stages, as long as nothing was   *)
(* misread.                                                                  *)

FactsSeen == pc # "idle" /\ misread = {} => Facts \subseteq seen

ListOpen == pc = "list" /\ misread = {} => s_domains.state = "loaded"

AllowlistOpen == pc = "allowlist" /\ misread = {} => s_allowlist.state = "loaded"

HitSeen ==
  pc \in {"hit", "allowlist", "confirm", "list", "blocked"} /\ misread = {} => "hit" \in seen

NotAllowedSeen ==
  pc \in {"confirm", "list", "blocked"} /\ misread = {} => "not allowed" \in seen

ListSeen ==
  pc = "blocked" /\ misread = {} => {"in list", "no list", "list gone"} \cap seen # {}

Seen == HitSeen /\ NotAllowedSeen /\ ListSeen /\ PassedHasReason

DecisionInv == FactsSeen /\ ListOpen /\ AllowlistOpen /\ Seen

(* What speaks for a stage: the facts that a structure can state, and what  *)
(* the stages before have established.                                        *)
LEMMA FactsAreGrounds == Facts \subseteq Grounds
  <1>1. CASE pc = "filter"
    BY <1>1 DEF Facts, Grounds, Reasons
  <1>2. CASE pc \in {"hit", "allowlist"}
    BY <1>2 DEF Facts, Grounds, Verdict
  <1>3. CASE pc \in {"confirm", "list"}
    BY <1>3 DEF Facts, Grounds, Verdict, Reasons
  <1>4. CASE pc \notin {"filter", "hit", "allowlist", "confirm", "list"}
    BY <1>4 DEF Facts
  <1> QED BY <1>1, <1>2, <1>3, <1>4

Kept ==
  /\ "hit" \in Grounds
  /\ pc \notin {"hit", "allowlist"} => "not allowed" \in Grounds
  /\ pc \in {"passed", "blocked"} => Grounds = Reasons

LEMMA GroundsKept == Kept
  <1>1. CASE pc \in {"hit", "allowlist"}
    BY <1>1 DEF Kept, Grounds
  <1>2. CASE pc \in {"confirm", "list"}
    BY <1>2 DEF Kept, Grounds, Reasons
  <1>3. CASE pc \notin {"hit", "allowlist", "confirm", "list"}
    BY <1>3 DEF Kept, Grounds, Reasons
  <1> QED BY <1>1, <1>2, <1>3

(* During a decision in which nothing is misread, what is seen is noted. *)
LEMMA Noted ==
  ASSUME TypeOK, Watch, pc # "idle", pc' # "idle", misread' = {}
  PROVE  /\ seen' = (seen \cup Facts') \cap Grounds'
         /\ Facts' \subseteq seen'
         /\ "hit" \in seen => "hit" \in seen'
         /\ pc' \notin {"hit", "allowlist"} /\ "not allowed" \in seen => "not allowed" \in seen'
         /\ pc' \in {"passed", "blocked"} => seen \subseteq seen'
  <1>1. seen' = (seen \cup Facts') \cap Grounds'
    BY DEF Watch
  <1>2. (Facts \subseteq Grounds)'
    BY FactsAreGrounds, PTL
  <1>3. Kept'
    BY GroundsKept, PTL
  <1>4. seen \subseteq Reasons
    BY DEF TypeOK
  <1> DEFINE F == Facts'  G == Grounds'
  <1>5. seen' = (seen \cup F) \cap G /\ F \subseteq G
    BY <1>1, <1>2
  <1>6. /\ "hit" \in G
        /\ pc' \notin {"hit", "allowlist"} => "not allowed" \in G
        /\ pc' \in {"passed", "blocked"} => G = Reasons
    BY <1>3 DEF Kept
  <1> HIDE DEF F, G
  <1>7. F \subseteq seen'
    BY <1>5
  <1>8. "hit" \in seen => "hit" \in seen'
    BY <1>5, <1>6
  <1>9. pc' \notin {"hit", "allowlist"} /\ "not allowed" \in seen => "not allowed" \in seen'
    BY <1>5, <1>6
  <1>10. pc' \in {"passed", "blocked"} => seen \subseteq seen'
    BY <1>4, <1>5, <1>6
  <1>11. Facts' \subseteq seen'
    BY <1>7 DEF F
  <1> QED BY <1>1, <1>8, <1>9, <1>10, <1>11

(* A step of another task: what was seen stays seen. *)
LEMMA OthersKeepReasons ==
  ASSUME TypeOK, DecisionInv, Watch, pc' = pc, misread \subseteq misread',
         ListOpen', AllowlistOpen'
  PROVE  DecisionInv'
  <1>1. CASE pc = "idle" \/ misread' # {}
    BY <1>1 DEF DecisionInv, FactsSeen, Seen, HitSeen, NotAllowedSeen, ListSeen, PassedHasReason
  <1>2. CASE pc # "idle" /\ misread' = {}
    <2>1. misread = {}
      BY <1>2
    <2>2. /\ Facts' \subseteq seen'
          /\ "hit" \in seen => "hit" \in seen'
          /\ pc \notin {"hit", "allowlist"} /\ "not allowed" \in seen => "not allowed" \in seen'
          /\ pc \in {"passed", "blocked"} => seen \subseteq seen'
      BY <1>2, Noted
    <2>3. FactsSeen'
      BY <2>2 DEF FactsSeen
    <2>4. HitSeen' /\ NotAllowedSeen'
      BY <2>1, <2>2 DEF DecisionInv, Seen, HitSeen, NotAllowedSeen
    <2>5. ListSeen'
      BY <2>1, <2>2 DEF DecisionInv, Seen, ListSeen
    <2>6. PassedHasReason'
      BY <2>1, <2>2 DEF DecisionInv, Seen, PassedHasReason
    <2> QED BY <2>3, <2>4, <2>5, <2>6 DEF DecisionInv, Seen
  <1> QED BY <1>1, <1>2

LEMMA IdleNeedsNoReason ==
  ASSUME pc' = "idle"
  PROVE  DecisionInv'
  BY DEF DecisionInv, FactsSeen, ListOpen, AllowlistOpen, Seen, HitSeen, NotAllowedSeen,
         ListSeen, PassedHasReason

(* Each reload of a list that could disturb a search of it does. *)
LEMMA ListStaysOpen ==
  ASSUME ReloadInv, DecisionInv, Update \/ Web
  PROVE  pc' = pc /\ misread \subseteq misread' /\ ListOpen' /\ AllowlistOpen'
  <1> USE DEF ReloadInv, DecisionInv
  <1>1. ASSUME pc' = pc, UNCHANGED s_domains, misread \subseteq misread'
        PROVE  ListOpen'
    BY <1>1 DEF ListOpen
  <1>2. ASSUME pc' = pc, UNCHANGED s_allowlist, misread \subseteq misread'
        PROVE  AllowlistOpen'
    BY <1>2 DEF AllowlistOpen
  <1>3. CASE BootList
    <2>1. /\ pc' = pc /\ misread' = misread /\ UNCHANGED s_allowlist
          /\ s_domains.state # "loaded"
      BY <1>3, StructureTyped DEF BootList, BootWhole, queryVars
    <2> QED BY <1>2, <2>1 DEF ListOpen
  <1>4. ASSUME NEW u \in Updaters, Reload(u)
        PROVE  pc' = pc /\ misread \subseteq misread' /\ ListOpen' /\ AllowlistOpen'
    <2>1. UNCHANGED s_allowlist /\ pc' = pc
      BY <1>4 DEF Reload, PublishFilter, PublishList, Unmap, Map, FreeList, ClearList,
                  LoadList, queryVars
    <2>2. misread' \in {misread, misread \cup ({"filter"} \cap {pc}),
                        misread \cup ({"list"} \cap {pc})}
      BY <1>4 DEF Reload, PublishFilter, PublishList, Unmap, Map, FreeList, ClearList,
                  LoadList, Disturb
    <2>3. CASE (\E v \in Versions : PublishFilter(u, v) \/ PublishList(u, v))
                 \/ Unmap(u) \/ Map(u)
      <3>1. UNCHANGED s_domains
        BY <2>3 DEF PublishFilter, PublishList, Unmap, Map
      <3> QED BY <1>1, <1>2, <2>1, <2>2, <3>1
    <2>4. CASE FreeList(u)
      <3>1. CASE s_domains = Empty
        BY <1>1, <1>2, <2>1, <2>2, <2>4, <3>1 DEF FreeList
      <3>2. CASE s_domains # Empty
        <4>1. pc' = "list" => misread' # {}
          BY <2>1, <2>4, <3>2 DEF FreeList, Disturb
        <4> QED BY <1>2, <2>1, <2>2, <4>1 DEF ListOpen
      <3> QED BY <3>1, <3>2
    <2>5. CASE ClearList(u) \/ LoadList(u)
      <3>1. CASE raced
        <4>1. pc' = "list" => misread' # {}
          BY <2>1, <2>5, <3>1 DEF ClearList, LoadList, Disturb
        <4> QED BY <1>2, <2>1, <2>2, <4>1 DEF ListOpen
      <3>2. CASE ~raced
        <4>1. misread' = misread
          BY <2>5, <3>2 DEF ClearList, LoadList
        <4>2. s_domains.state # "loaded"
          BY <2>5, <3>2, StructureTyped DEF ClearList, LoadList, Step, ListWhole
        <4> QED BY <1>2, <2>1, <4>1, <4>2 DEF ListOpen
      <3> QED BY <3>1, <3>2
    <2> QED BY <1>4, <2>3, <2>4, <2>5 DEF Reload
  <1>5. CASE Web
    <2>1. UNCHANGED s_domains /\ pc' = pc /\ misread \subseteq misread'
      BY <1>5 DEF Web, SaveAllowlist, FreeAllowlist, ClearAllowlist, LoadAllowlist, Disturb,
                  queryVars
    <2>2. AllowlistOpen'
      <3>1. CASE \E names \in Allowlists : SaveAllowlist(names)
        BY <1>2, <2>1, <3>1 DEF SaveAllowlist
      <3>2. CASE FreeAllowlist
        <4>1. s_allowlist # Empty /\ pc' = "allowlist" => misread' # {}
          BY <2>1, <3>2 DEF FreeAllowlist, Disturb
        <4>2. s_allowlist = Empty => UNCHANGED s_allowlist
          BY <3>2 DEF FreeAllowlist
        <4> QED BY <1>2, <2>1, <4>1, <4>2 DEF AllowlistOpen
      <3>3. CASE ClearAllowlist \/ LoadAllowlist
        <4>1. s_allowlist.state # "loaded" /\ misread' = misread
          BY <3>3, StructureTyped DEF ClearAllowlist, LoadAllowlist, AllowlistWhole
        <4> QED BY <2>1, <4>1 DEF AllowlistOpen
      <3> QED BY <1>5, <3>1, <3>2, <3>3 DEF Web
    <2> QED BY <1>1, <2>1, <2>2
  <1> QED BY <1>3, <1>4, <1>5 DEF Update

(* A step of the decision: what its structure says has been seen. *)
LEMMA StagesHaveReasons ==
  ASSUME ReloadInv, DecisionInv, Watch,
         TestFilter \/ OpenAllowlist \/ ScanAllowlist \/ OpenList \/ SearchList
  PROVE  DecisionInv'
  <1> USE DEF ReloadInv, DecisionInv, Seen
  <1>1. pc # "idle" /\ pc' # "idle" /\ misread \subseteq misread'
        /\ UNCHANGED <<s_bloom, s_domains, s_allowlist, qname>>
    BY DEF TestFilter, OpenAllowlist, ScanAllowlist, OpenList, SearchList, ramVars, bloomVars
  <1>2. CASE misread' # {}
    BY <1>2 DEF FactsSeen, ListOpen, AllowlistOpen, HitSeen, NotAllowedSeen, ListSeen,
                PassedHasReason
  <1>3. CASE misread' = {}
    <2>1. misread = {} /\ Facts \subseteq seen
      BY <1>1, <1>3 DEF FactsSeen
    <2>2. /\ Facts' \subseteq seen'
          /\ "hit" \in seen => "hit" \in seen'
          /\ pc' \notin {"hit", "allowlist"} /\ "not allowed" \in seen => "not allowed" \in seen'
          /\ pc' \in {"passed", "blocked"} => seen \subseteq seen'
      BY <1>1, <1>3, Noted
    <2>3. FactsSeen'
      BY <2>2 DEF FactsSeen
    <2>4. CASE TestFilter
      <3>1. pc = "filter" /\ pc' = IF Hit(qname) THEN "hit" ELSE "passed"
        BY <2>1, <2>4 DEF TestFilter, Outcomes
      <3>2. Hit(qname) => "hit" \in seen
        BY <2>1, <3>1 DEF Facts
      <3>3. ~Hit(qname) => "not in filter" \in seen
        <4>1. ~Hit(qname) => qname \notin Listed[s_bloom.version]
          BY ListedIsHit
        <4> QED BY <2>1, <3>1, <4>1 DEF Facts
      <3>4. \/ pc' = "hit" /\ "hit" \in seen
            \/ pc' = "passed" /\ "not in filter" \in seen
        BY <3>1, <3>2, <3>3
      <3> QED BY <2>2, <2>3, <3>4 DEF ListOpen, AllowlistOpen, HitSeen, NotAllowedSeen,
                                      ListSeen, PassedHasReason
    <2>5. CASE OpenAllowlist
      <3>1. /\ pc = "hit" /\ pc' = IF s_allowlist = Empty THEN "confirm" ELSE "allowlist"
            /\ s_allowlist.state # "freed"
        BY <1>3, <2>5 DEF OpenAllowlist
      <3>2. "hit" \in seen
        BY <2>1, <3>1 DEF HitSeen
      <3>3. CASE s_allowlist = Empty
        <4>1. "not allowed" \in seen
          BY <2>1, <3>1, <3>3 DEF Facts
        <4> QED BY <2>2, <2>3, <3>1, <3>2, <3>3, <4>1
                DEF ListOpen, AllowlistOpen, HitSeen, NotAllowedSeen, ListSeen, PassedHasReason
      <3>4. CASE s_allowlist # Empty
        <4>1. s_allowlist'.state = "loaded"
          BY <1>1, <3>1, <3>4 DEF AllowlistWhole, TypeOK
        <4> QED BY <2>2, <2>3, <3>1, <3>2, <3>4, <4>1
                DEF ListOpen, AllowlistOpen, HitSeen, NotAllowedSeen, ListSeen, PassedHasReason
      <3> QED BY <3>3, <3>4
    <2>6. CASE ScanAllowlist
      <3>1. pc = "allowlist" /\ pc' = IF qname \in s_allowlist.names THEN "passed" ELSE "confirm"
        BY <2>1, <2>6 DEF ScanAllowlist, Outcomes
      <3>2. s_allowlist.state = "loaded" /\ s_allowlist # Empty
        BY <2>1, <3>1 DEF AllowlistOpen, Empty
      <3>3. "hit" \in seen
        BY <2>1, <3>1 DEF HitSeen
      <3>4. IF qname \in s_allowlist.names THEN "allowed" \in seen ELSE "not allowed" \in seen
        BY <2>1, <3>1, <3>2 DEF Facts, Verdict
      <3> QED BY <2>2, <2>3, <3>1, <3>3, <3>4
              DEF ListOpen, AllowlistOpen, HitSeen, NotAllowedSeen, ListSeen, PassedHasReason
    <2>7. CASE OpenList
      <3>1. /\ pc = "confirm" /\ pc' = IF s_domains = Empty THEN "blocked" ELSE "list"
            /\ s_domains.state # "freed"
        BY <1>3, <2>7 DEF OpenList
      <3>2. "hit" \in seen /\ "not allowed" \in seen
        BY <2>1, <3>1 DEF HitSeen, NotAllowedSeen
      <3>3. CASE s_domains = Empty
        <4>1. {"no list", "list gone"} \cap seen # {}
          BY <2>1, <3>1, <3>3 DEF Facts
        <4> QED BY <2>2, <2>3, <3>1, <3>2, <3>3, <4>1
                DEF ListOpen, AllowlistOpen, HitSeen, NotAllowedSeen, ListSeen, PassedHasReason
      <3>4. CASE s_domains # Empty
        <4>1. s_domains'.state = "loaded"
          BY <1>1, <3>1, <3>4 DEF BootWhole, TypeOK
        <4> QED BY <2>2, <2>3, <3>1, <3>2, <3>4, <4>1
                DEF ListOpen, AllowlistOpen, HitSeen, NotAllowedSeen, ListSeen, PassedHasReason
      <3> QED BY <3>3, <3>4
    <2>8. CASE SearchList
      <3>1. pc = "list" /\ pc' = IF qname \in s_domains.names THEN "blocked" ELSE "passed"
        <4>1. pc = "list" /\ "list" \notin misread
          BY <2>1, <2>8 DEF SearchList
        <4>2. PICK found \in Outcomes("list", qname \in s_domains.names) :
                pc' = IF found THEN "blocked" ELSE "passed"
          BY <2>8 DEF SearchList
        <4>3. found = (qname \in s_domains.names)
          BY <4>1, <4>2 DEF Outcomes
        <4> QED BY <4>1, <4>2, <4>3
      <3>2. s_domains.state = "loaded" /\ s_domains # Empty
        BY <2>1, <3>1 DEF ListOpen, Empty
      <3>3. "hit" \in seen /\ "not allowed" \in seen
        BY <2>1, <3>1 DEF HitSeen, NotAllowedSeen
      <3>4. IF qname \in s_domains.names THEN "in list" \in seen ELSE "not in list" \in seen
        BY <2>1, <3>1, <3>2 DEF Facts, Verdict
      <3> QED BY <2>2, <2>3, <3>1, <3>3, <3>4
              DEF ListOpen, AllowlistOpen, HitSeen, NotAllowedSeen, ListSeen, PassedHasReason
    <2> QED BY <2>4, <2>5, <2>6, <2>7, <2>8
  <1> QED BY <1>2, <1>3

LEMMA DecisionStep == ReloadInv /\ DecisionInv /\ [Next]_vars => DecisionInv'
  <1> SUFFICES ASSUME ReloadInv, DecisionInv, [Next]_vars PROVE DecisionInv'
    OBVIOUS
  <1>1. CASE UNCHANGED vars
    <2>1. UNCHANGED <<s_bloom, s_domains, s_allowlist, list_served, pc, qname, misread, seen>>
      BY <1>1 DEF vars, bloomVars
    <2>2. Hit(qname)' = Hit(qname)
      BY <2>1 DEF Hit
    <2>3. Facts' = Facts
      BY <2>1, <2>2 DEF Facts, Verdict
    <2>4. FactsSeen' /\ ListOpen' /\ AllowlistOpen'
      BY <2>1, <2>3 DEF DecisionInv, FactsSeen, ListOpen, AllowlistOpen
    <2>5. Seen'
      BY <2>1 DEF DecisionInv, Seen, HitSeen, NotAllowedSeen, ListSeen, PassedHasReason
    <2> QED BY <2>4, <2>5 DEF DecisionInv
  <1>2. CASE (Update \/ Web) /\ Watch
    BY <1>2, ListStaysOpen, OthersKeepReasons DEF ReloadInv
  <1>3. CASE Restart
    BY <1>3, IdleNeedsNoReason DEF Restart
  <1>4. CASE Decide /\ Watch
    <2>1. ASSUME NEW name \in Domains, NEW on \in BOOLEAN, Receive(name, on)
          PROVE  DecisionInv'
      <3>1. CASE pc' = "passed"
        <4>1. misread' = {} => seen' = {"off"}
          BY <1>4, <2>1, <3>1 DEF Receive, Watch
        <4>2. Facts' = {}
          BY <3>1 DEF Facts
        <4> QED BY <3>1, <4>1, <4>2 DEF DecisionInv, FactsSeen, ListOpen, AllowlistOpen, Seen,
                                  HitSeen, NotAllowedSeen, ListSeen, PassedHasReason
      <3>2. CASE pc' = "filter"
        <4>1. misread' = {} => seen' = (seen \cup Facts') \cap Grounds'
          BY <1>4, <3>2 DEF Watch
        <4>2. (Facts \subseteq Grounds)'
          BY FactsAreGrounds, PTL
        <4>3. FactsSeen'
          BY <4>1, <4>2 DEF FactsSeen
        <4> QED BY <3>2, <4>3 DEF DecisionInv, ListOpen, AllowlistOpen, Seen, HitSeen,
                                  NotAllowedSeen, ListSeen, PassedHasReason
      <3> QED BY <2>1, <3>1, <3>2 DEF Receive
    <2>2. CASE Finish
      BY <2>2, IdleNeedsNoReason DEF Finish
    <2> QED BY <1>4, <2>1, <2>2, StagesHaveReasons DEF Decide
  <1> QED BY <1>1, <1>2, <1>3, <1>4 DEF Next

THEOREM DecisionInvariance == Spec => [](ReloadInv /\ DecisionInv)
  <1>1. Init => DecisionInv
    BY DEF Init, DecisionInv, FactsSeen, ListOpen, AllowlistOpen, Seen, HitSeen,
           NotAllowedSeen, ListSeen, PassedHasReason
  <1> QED BY <1>1, ReloadInit, ReloadStep, DecisionStep, PTL DEF Spec

(* Nothing is blocked without a hit of the filter, an allowlist that does   *)
(* not have the domain and an entry of the exact list, unless there is none, *)
(* all true of what was in memory during the decision (BlockedHasReason).    *)
THEOREM BlockedReasoned == Spec => []BlockedHasReason
  <1>1. DecisionInv => BlockedHasReason
    BY DEF DecisionInv, Seen, HitSeen, NotAllowedSeen, ListSeen, BlockedHasReason
  <1> QED BY <1>1, DecisionInvariance, PTL

(* Nothing passes without a reason (PassedHasReason); that the filter never *)
(* misses what it was built with, for any hash functions, is MissIsTrusted. *)
THEOREM PassedReasoned == Spec => []PassedHasReason
  <1>1. DecisionInv => PassedHasReason
    BY DEF DecisionInv, Seen
  <1> QED BY <1>1, DecisionInvariance, PTL
=============================================================================
