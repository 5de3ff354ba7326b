--------------------------- MODULE DictionaryProofs ---------------------------
(***************************************************************************)
(* Proofs about Dictionary: for any dictionaries, items and number of      *)
(* requests, a page gets for a code what the latest reload of the cache    *)
(* has read, unless two reloads crossed or two codes are one in capitals;  *)
(* and twins, and items without a dictionary or not at the end, are left   *)
(* only by transactions that overlapped.                                   *)
(***************************************************************************)
EXTENDS Dictionary, FiniteSetTheorems, WellFoundedInduction, TLAPS

IsDic(d) ==
    /\ d = [cod |-> d.cod, nam |-> d.nam, base |-> d.base, by |-> d.by]
    /\ d.cod \in DicCods
IsDtl(x) ==
    /\ x = [dic |-> x.dic, cod |-> x.cod, nam |-> x.nam, seq |-> x.seq, by |-> x.by]
    /\ x.dic \in DicCods

\* Only a reload of the cache is about no dictionary.
IsReq(r) ==
    /\ r = [nr |-> r.nr, f |-> r.f, at |-> r.at, was |-> r.was, dels |-> r.dels]
    /\ r.at \notin {"read", "set"} => r.f.cod \in DicCods

Shapes ==
    /\ page = [nr |-> page.nr, open |-> page.open, mates |-> page.mates, reads |-> page.reads,
               read |-> page.read, crossed |-> page.crossed, dropped |-> page.dropped,
               early |-> page.early]
    /\ data = [dics |-> data.dics, dtls |-> data.dtls, cache |-> data.cache]
    /\ \A d \in data.dics : IsDic(d)
    /\ \A x \in data.dtls : IsDtl(x)
    /\ \A r \in page.open : IsReq(r)

\* What the one reload that is under way has read is the latest, and the cache is
\* what the latest that has ended has read.
CacheInv ==
    /\ page.reads \in Nat /\ page.read.nr \in 0 .. page.reads
    /\ \A x \in page.read.dtls : x.dic \in DicCods
    /\ ~page.crossed =>
        /\ data.cache \in Loads(page.read.dtls)
        /\ \A r \in page.open : r.at = "set" =>
            \E was : /\ r.was = {was} /\ was.nr = page.reads /\ page.read.nr < page.reads
                     /\ \A x \in was.dtls : x.dic \in DicCods
        /\ \A r, o \in page.open : r.at = "set" /\ o.at = "set" => r = o
    /\ \A r \in page.open : r.at = "set" =>
        \A was \in r.was : was.nr \in 1 .. page.reads /\ \A x \in was.dtls : x.dic \in DicCods

Inv == Shapes /\ CacheInv

-----------------------------------------------------------------------------
(* Steps other than those of a reload.                                       *)

\* What they leave alone, and how the request goes on if it does.
Goes(r) ==
    /\ page' = [nr |-> page.nr, open |-> page'.open, mates |-> page'.mates, reads |-> page.reads,
                read |-> page.read, crossed |-> page.crossed, dropped |-> page'.dropped,
                early |-> page'.early]
    /\ \/ page'.open = Others(r)
       \/ \E n : /\ page'.open = Others(r) \cup {n} /\ IsReq(n)
                 /\ n.at \notin {"read", "set"}

\* r with other contents of its own.
Same(n, r) == n = [nr |-> r.nr, f |-> r.f, at |-> r.at, was |-> n.was, dels |-> n.dels]

LEMMA MetFacts ==
    ASSUME Shapes, NEW r
    PROVE  Met(r) = [nr |-> page.nr, open |-> Others(r), mates |-> Met(r).mates, reads |-> page.reads,
                     read |-> page.read, crossed |-> page.crossed, dropped |-> page.dropped,
                     early |-> page.early]
<1> DEFINE k == [page EXCEPT !.open = Others(r)]
           f == [n \in DOMAIN page.mates |->
                    CASE n = r.nr       -> page.mates[n] \cup Begun(r)
                      [] n \in Begun(r) -> page.mates[n] \cup {r.nr}
                      [] OTHER          -> page.mates[n]]
<1>1. Met(r) = [k EXCEPT !.mates = f]
    BY Zenon DEF Met, Shapes
<1> HIDE DEF f
<1>2. k = [nr |-> page.nr, open |-> Others(r), mates |-> page.mates, reads |-> page.reads,
           read |-> page.read, crossed |-> page.crossed, dropped |-> page.dropped,
           early |-> page.early]
    BY DEF Shapes
<1> HIDE DEF k
<1>3. [k EXCEPT !.mates = f] = [nr |-> page.nr, open |-> Others(r), mates |-> f, reads |-> page.reads,
           read |-> page.read, crossed |-> page.crossed, dropped |-> page.dropped,
           early |-> page.early]
    BY <1>2
<1> QED BY <1>1, <1>3

LEMMA SameFacts ==
    ASSUME NEW r, NEW n, Same(n, r)
    PROVE  n.nr = r.nr /\ n.f = r.f /\ n.at = r.at /\ Others(n) = Others(r) /\ Met(n) = Met(r)
<1>1. n.nr = r.nr /\ n.f = r.f /\ n.at = r.at
    BY DEF Same
<1> QED BY <1>1 DEF Others, Met, Begun

LEMMA FailGoes ==
    ASSUME Shapes, NEW r, page' = Met(r)
    PROVE  Goes(r)
BY MetFacts DEF Goes

LEMMA GotoGoes ==
    ASSUME Shapes, NEW r \in page.open, r.at \notin {"read", "set"},
           NEW n, Same(n, r), NEW ok, NEW next, next \notin {"read", "set"}, GoOrFail(n, ok, next)
    PROVE  Goes(r) /\ data' = data
<1>1. data' = data /\ Met(n) = Met(r) /\ n.nr = r.nr /\ n.f = r.f
    BY SameFacts DEF GoOrFail
<1>2. CASE ~ok
    BY <1>1, <1>2, FailGoes DEF GoOrFail, Fail
<1>3. CASE ok
    <2> DEFINE m == Met(r)
               g == [n EXCEPT !.at = next]
    <2>1. page' = [m EXCEPT !.open = @ \cup {g}]
        BY <1>1, <1>3 DEF GoOrFail, Goto
    <2>2. g = [nr |-> n.nr, f |-> n.f, at |-> next, was |-> n.was, dels |-> n.dels]
        BY DEF Same
    <2>3. m = [nr |-> page.nr, open |-> Others(r), mates |-> m.mates, reads |-> page.reads,
               read |-> page.read, crossed |-> page.crossed, dropped |-> page.dropped,
               early |-> page.early]
        BY MetFacts
    <2> HIDE DEF g, m
    <2>4. page' = [nr |-> page.nr, open |-> Others(r) \cup {g}, mates |-> m.mates, reads |-> page.reads,
               read |-> page.read, crossed |-> page.crossed, dropped |-> page.dropped,
               early |-> page.early]
        BY <2>1, <2>3
    <2>5. IsReq(g) /\ g.at \notin {"read", "set"}
        <3>1. r.f.cod \in DicCods
            BY DEF Shapes, IsReq
        <3> QED BY <1>1, <2>2, <3>1 DEF IsReq
    <2> QED BY <1>1, <2>4, <2>5 DEF Goes
<1> QED BY <1>2, <1>3

LEMMA CommitGoes ==
    ASSUME Shapes, NEW r, NEW n, Same(n, r), NEW dics, NEW dtls, Commit(n, dics, dtls)
    PROVE  Goes(r) /\ data' = [dics |-> dics, dtls |-> dtls, cache |-> data.cache]
<1> DEFINE m == Met(r)
<1>1. Met(n) = Met(r)
    BY SameFacts
<1>2. m = [nr |-> page.nr, open |-> Others(r), mates |-> m.mates, reads |-> page.reads,
           read |-> page.read, crossed |-> page.crossed, dropped |-> page.dropped,
           early |-> page.early]
    BY MetFacts
<1>3. PICK d, e : page' = [m EXCEPT !.dropped = d, !.early = e]
    BY <1>1, Zenon DEF Commit
<1> DEFINE k == [m EXCEPT !.dropped = d]
<1>4. page' = [k EXCEPT !.early = e]
    BY <1>3, Zenon
<1> HIDE DEF m
<1>5. k = [nr |-> page.nr, open |-> Others(r), mates |-> m.mates, reads |-> page.reads,
           read |-> page.read, crossed |-> page.crossed, dropped |-> d, early |-> page.early]
    BY <1>2
<1> HIDE DEF k
<1>6. page' = [nr |-> page.nr, open |-> Others(r), mates |-> m.mates, reads |-> page.reads,
               read |-> page.read, crossed |-> page.crossed, dropped |-> d, early |-> e]
    BY <1>4, <1>5
<1>7. data' = [dics |-> dics, dtls |-> dtls, cache |-> data.cache]
    <2>1. data = [dics |-> data.dics, dtls |-> data.dtls, cache |-> data.cache]
        BY DEF Shapes
    <2> DEFINE j == [data EXCEPT !.dics = dics]
    <2>2. j = [dics |-> dics, dtls |-> data.dtls, cache |-> data.cache]
        BY <2>1
    <2>3. data' = [j EXCEPT !.dtls = dtls]
        BY Zenon DEF Commit
    <2> HIDE DEF j
    <2> QED BY <2>2, <2>3
<1> QED BY <1>6, <1>7 DEF Goes

LEMMA GoesKeeps ==
    ASSUME Inv, NEW r \in page.open, Goes(r),
           NEW dics, NEW dtls, data' = [dics |-> dics, dtls |-> dtls, cache |-> data.cache],
           \A d \in dics : IsDic(d), \A x \in dtls : IsDtl(x)
    PROVE  Inv'
<1> USE DEF Inv
<1>1. /\ page'.reads = page.reads /\ page'.read = page.read /\ page'.crossed = page.crossed
      /\ page' = [nr |-> page'.nr, open |-> page'.open, mates |-> page'.mates, reads |-> page'.reads,
                  read |-> page'.read, crossed |-> page'.crossed, dropped |-> page'.dropped,
                  early |-> page'.early]
    BY DEF Goes
<1>2. /\ data'.cache = data.cache /\ data'.dics = dics /\ data'.dtls = dtls
      /\ data' = [dics |-> data'.dics, dtls |-> data'.dtls, cache |-> data'.cache]
    OBVIOUS
<1>3. ASSUME NEW o \in page'.open
      PROVE  IsReq(o) /\ (o.at = "set" => o \in page.open)
    <2>1. CASE o \in Others(r)
        BY <2>1 DEF Others, Shapes
    <2>2. CASE o \notin Others(r)
        BY <2>2 DEF Goes
    <2> QED BY <2>1, <2>2
<1>4. Shapes'
    <2>1. \A o \in page'.open : IsReq(o)
        BY <1>3
    <2> QED BY <1>1, <1>2, <2>1 DEF Shapes, IsReq, IsDic, IsDtl
<1>5. CacheInv'
    BY <1>1, <1>2, <1>3 DEF CacheInv
<1> QED BY <1>4, <1>5

LEMMA GotoKeeps ==
    ASSUME Inv, NEW r \in page.open, r.at \notin {"read", "set"},
           NEW n, Same(n, r), NEW ok, NEW next, next \notin {"read", "set"}, GoOrFail(n, ok, next)
    PROVE  Inv'
<1>1. Goes(r) /\ data' = data
    BY GotoGoes DEF Inv
<1>2. data = [dics |-> data.dics, dtls |-> data.dtls, cache |-> data.cache]
    BY DEF Inv, Shapes
<1>3. (\A d \in data.dics : IsDic(d)) /\ \A x \in data.dtls : IsDtl(x)
    BY DEF Inv, Shapes
<1> QED BY <1>1, <1>2, <1>3, GoesKeeps

LEMMA FailKeeps ==
    ASSUME Inv, NEW r \in page.open, Fail(r), data' = data
    PROVE  Inv'
<1>1. Goes(r)
    BY FailGoes DEF Inv, Fail
<1>2. data = [dics |-> data.dics, dtls |-> data.dtls, cache |-> data.cache]
    BY DEF Inv, Shapes
<1>3. (\A d \in data.dics : IsDic(d)) /\ \A x \in data.dtls : IsDtl(x)
    BY DEF Inv, Shapes
<1> QED BY <1>1, <1>2, <1>3, GoesKeeps

LEMMA CommitKeeps ==
    ASSUME Inv, NEW r \in page.open, NEW n, Same(n, r), NEW dics, NEW dtls, Commit(n, dics, dtls),
           \A d \in dics : IsDic(d), \A x \in dtls : IsDtl(x)
    PROVE  Inv'
BY CommitGoes, GoesKeeps DEF Inv

LEMMA SameOfReq ==
    ASSUME NEW r, IsReq(r)
    PROVE  /\ Same(r, r)
           /\ \A v : Same([r EXCEPT !.was = v], r)
           /\ \A v : Same([r EXCEPT !.dels = v], r)
BY DEF Same, IsReq

LEMMA FindKeeps ==
    ASSUME Inv, NEW r \in page.open,
           GetDic(r) \/ FindCod(r) \/ FindNam(r) \/ FindDtlCod(r) \/ FindDtlNam(r) \/ FindSeq(r)
              \/ DropDic(r)
    PROVE  Inv'
<1>1. IsReq(r)
    BY DEF Inv, Shapes
<1>s. /\ Same(r, r)
      /\ \A v : Same([r EXCEPT !.was = v], r)
      /\ \A v : Same([r EXCEPT !.dels = v], r)
    BY <1>1, SameOfReq
<1>2. CASE GetDic(r)
    <2>1. PICK v, ok : GoOrFail([r EXCEPT !.was = v], ok, AfterGet(r.f))
        BY <1>2, Zenon DEF GetDic
    <2>2. AfterGet(r.f) \notin {"read", "set"} /\ r.at = "get"
        BY <1>2 DEF AfterGet, GetDic, At
    <2> DEFINE n == [r EXCEPT !.was = v]
               next == AfterGet(r.f)
    <2>3. Same(n, r) /\ GoOrFail(n, ok, next) /\ next \notin {"read", "set"}
        BY <1>s, <2>1, <2>2
    <2> HIDE DEF n, next
    <2> QED BY <2>2, <2>3, GotoKeeps
<1>3. CASE FindCod(r)
    <2> DEFINE ok == DicWith(r, r.f.cod) = {}
               next == IF r.f.op = "addDic" THEN "nam" ELSE "drop"
    <2>1. r.at = "cod" /\ GoOrFail(r, ok, next) /\ next \notin {"read", "set"}
        BY <1>3 DEF FindCod, At
    <2> HIDE DEF ok, next
    <2> QED BY <1>s, <2>1, GotoKeeps
<1>4. CASE FindNam(r)
    <2>1. r.at = "nam" /\ ((\E ok : GoOrFail(r, ok, "save")) \/ (Fail(r) /\ data' = data))
        BY <1>4, Zenon DEF FindNam, At
    <2> QED BY <1>s, <2>1, GotoKeeps, FailKeeps
<1>5. CASE FindDtlCod(r)
    <2>1. PICK v, ok : \/ GoOrFail(r, ok, "dtlNam")
                       \/ GoOrFail([r EXCEPT !.was = v], ok, "save")
        <3>1. PICK found : found = DtlWith(r, r.f.cod, r.f.dtl)
            OBVIOUS
        <3>2. r.f.op = "addDicDtl" => GoOrFail(r, found = {}, "dtlNam")
            BY <1>5, <3>1, Zenon DEF FindDtlCod
        <3>3. r.f.op # "addDicDtl" =>
                GoOrFail([r EXCEPT !.was = IF r.was = {} THEN found ELSE r.was], found # {}, "save")
            BY <1>5, <3>1, Zenon DEF FindDtlCod
        <3> QED BY <3>2, <3>3, Zenon
    <2> DEFINE n == [r EXCEPT !.was = v]
    <2>2. r.at = "dtlCod" /\ Same(n, r)
        BY <1>5, <1>s DEF FindDtlCod, At
    <2>3. GoOrFail(r, ok, "dtlNam") \/ GoOrFail(n, ok, "save")
        BY <2>1
    <2> HIDE DEF n
    <2> QED BY <1>s, <2>2, <2>3, GotoKeeps
<1>6. CASE FindDtlNam(r)
    <2>1. PICK v, ok, next :
            /\ next \in {"seq", "save", "dtlCod"}
            /\ \/ GoOrFail(r, ok, next)
               \/ GoOrFail([r EXCEPT !.was = v], ok, next)
               \/ Fail(r) /\ data' = data
        <3>1. PICK found, own : found = {x \in Items(Dtls(r), r.f.cod) : x.nam = r.f.nam}
                                  /\ own = {x \in found : x.cod = r.f.dtl}
            OBVIOUS
        <3>2. r.f.op = "addDicDtl" =>
                GoOrFail(r, found = {}, IF r.f.seq = NoNumber THEN "seq" ELSE "save")
            BY <1>6, <3>1, Zenon DEF FindDtlNam
        <3>3. r.f.op # "addDicDtl" =>
                \/ GoOrFail([r EXCEPT !.was = own], TRUE, "dtlCod")
                \/ Fail(r) /\ data' = data
            BY <1>6, <3>1, Zenon DEF FindDtlNam
        <3>4. (IF r.f.seq = NoNumber THEN "seq" ELSE "save") \in {"seq", "save", "dtlCod"}
            OBVIOUS
        <3>5. "dtlCod" \in {"seq", "save", "dtlCod"}
            OBVIOUS
        <3> QED BY <3>2, <3>3, <3>4, <3>5, Zenon
    <2> DEFINE n == [r EXCEPT !.was = v]
    <2>2. r.at = "dtlNam" /\ Same(n, r)
        BY <1>6, <1>s DEF FindDtlNam, At
    <2>3. GoOrFail(r, ok, next) \/ GoOrFail(n, ok, next) \/ (Fail(r) /\ data' = data)
        BY <2>1
    <2> HIDE DEF n
    <2> QED BY <1>s, <2>1, <2>2, <2>3, GotoKeeps, FailKeeps
<1>7. CASE FindSeq(r)
    <2>1. PICK v : GoOrFail([r EXCEPT !.was = v], TRUE, "save")
        BY <1>7, Zenon DEF FindSeq
    <2> DEFINE n == [r EXCEPT !.was = v]
    <2>2. r.at = "seq" /\ Same(n, r) /\ GoOrFail(n, TRUE, "save")
        BY <1>7, <1>s, <2>1 DEF FindSeq, At
    <2> HIDE DEF n
    <2> QED BY <2>2, GotoKeeps
<1>8. CASE DropDic(r)
    <2>1. PICK v : GoOrFail([r EXCEPT !.dels = v], TRUE, "dropDtls")
        BY <1>8, Zenon DEF DropDic
    <2> DEFINE n == [r EXCEPT !.dels = v]
    <2>2. r.at = "drop" /\ Same(n, r) /\ GoOrFail(n, TRUE, "dropDtls")
        BY <1>8, <1>s, <2>1 DEF DropDic, At
    <2> HIDE DEF n
    <2> QED BY <2>2, GotoKeeps
<1> QED BY <1>2, <1>3, <1>4, <1>5, <1>6, <1>7, <1>8

LEMMA DropKeeps ==
    ASSUME Inv, NEW r \in page.open, DropDtls(r) \/ DropDtl(r)
    PROVE  Inv'
<1>1. IsReq(r) /\ (\A d \in data.dics : IsDic(d)) /\ (\A x \in data.dtls : IsDtl(x))
    BY DEF Inv, Shapes
<1>2. CASE DropDtls(r)
    <2>1. PICK s : /\ s = DropDtlsOf(r)
                   /\ IF r.f.op = "editDic" THEN GoOrFail(s, TRUE, "nam")
                      ELSE Commit(s, Dics(s), Dtls(s))
        BY <1>2 DEF DropDtls
    <2>2. Same(s, r) /\ r.at = "dropDtls"
        BY <1>1, <1>2, <2>1 DEF DropDtlsOf, Same, IsReq, DropDtls, At
    <2>3. CASE r.f.op = "editDic"
        BY <2>1, <2>2, <2>3, GotoKeeps
    <2>4. CASE r.f.op # "editDic"
        <3>1. (\A d \in Dics(s) : IsDic(d)) /\ (\A x \in Dtls(s) : IsDtl(x))
            BY <1>1 DEF Dics, Dtls
        <3>2. Commit(s, Dics(s), Dtls(s))
            BY <2>1, <2>4
        <3> QED BY <2>2, <3>1, <3>2, CommitKeeps
    <2> QED BY <2>3, <2>4
<1>3. CASE DropDtl(r)
    <2>1. Commit(r, data.dics, data.dtls \ DtlWith(r, r.f.cod, r.f.dtl))
        BY <1>3 DEF DropDtl
    <2>2. \A x \in data.dtls \ DtlWith(r, r.f.cod, r.f.dtl) : IsDtl(x)
        BY <1>1
    <2>3. Same(r, r)
        BY <1>1, SameOfReq
    <2> QED BY <1>1, <2>1, <2>2, <2>3, CommitKeeps
<1> QED BY <1>2, <1>3

LEMMA SaveDicKeeps ==
    ASSUME Inv, NEW r \in page.open, At(r, "save"), SaveDic(r)
    PROVE  Inv'
<1>1. IsReq(r) /\ (\A d \in data.dics : IsDic(d)) /\ (\A x \in data.dtls : IsDtl(x))
    BY DEF Inv, Shapes
<1>2. Same(r, r) /\ r.f.cod \in DicCods
    BY <1>1, SameOfReq DEF IsReq, At
<1>3. PICK there, new : /\ there = DicWith(r, r.f.cod)
                        /\ new = [cod |-> r.f.cod, nam |-> r.f.nam, base |-> FALSE, by |-> r.nr]
    OBVIOUS
<1>4. \/ Commit(r, Dics(r) \cup {new}, Dtls(r))
      \/ Fail(r) /\ data' = data
      \/ Commit(r, data.dics, data.dtls)
      \/ Commit(r, (data.dics \ there) \cup {Named(d, r) : d \in there}, data.dtls)
    BY <1>3 DEF SaveDic
<1>5. IsDic(new) /\ there \subseteq data.dics
    BY <1>2, <1>3 DEF IsDic, DicWith, Dics
<1>6. ASSUME NEW d \in there PROVE IsDic(Named(d, r))
    <2>1. d.cod \in DicCods /\ d = [cod |-> d.cod, nam |-> d.nam, base |-> d.base, by |-> d.by]
        BY <1>1, <1>5 DEF IsDic
    <2> DEFINE n == IF d.nam = r.f.nam THEN d.by ELSE r.nr
               k == [d EXCEPT !.nam = r.f.nam]
    <2>2. k = [cod |-> d.cod, nam |-> r.f.nam, base |-> d.base, by |-> d.by]
        BY <2>1
    <2>3. Named(d, r) = [k EXCEPT !.by = n]
        BY Zenon DEF Named
    <2> HIDE DEF k, n
    <2>4. Named(d, r) = [cod |-> d.cod, nam |-> r.f.nam, base |-> d.base, by |-> n]
        BY <2>2, <2>3
    <2> QED BY <2>1, <2>4 DEF IsDic
<1>7. /\ \A d \in Dics(r) \cup {new} : IsDic(d)
      /\ \A x \in Dtls(r) : IsDtl(x)
      /\ \A d \in (data.dics \ there) \cup {Named(d, r) : d \in there} : IsDic(d)
    BY <1>1, <1>5, <1>6 DEF Dics, Dtls
<1> QED BY <1>1, <1>2, <1>4, <1>7, CommitKeeps, FailKeeps

LEMMA SaveDtlKeeps ==
    ASSUME Inv, NEW r \in page.open, At(r, "save"), SaveDtl(r)
    PROVE  Inv'
<1>1. IsReq(r) /\ (\A d \in data.dics : IsDic(d)) /\ (\A x \in data.dtls : IsDtl(x))
    BY DEF Inv, Shapes
<1>2. Same(r, r) /\ r.f.cod \in DicCods
    BY <1>1, SameOfReq DEF IsReq, At
<1>3. PICK there, new, seq :
        /\ there = DtlWith(r, r.f.cod, r.f.dtl)
        /\ new = [dic |-> r.f.cod, cod |-> r.f.dtl, nam |-> r.f.nam, seq |-> seq, by |-> r.nr]
        /\ seq = IF r.f.seq = NoNumber THEN Max(r.was) ELSE r.f.seq
    OBVIOUS
<1> DEFINE Edited(x) == [Named(x, r) EXCEPT !.seq = r.f.seq]
<1>4. \/ Commit(r, data.dics, data.dtls \cup {new})
      \/ Fail(r) /\ data' = data
      \/ Commit(r, data.dics, data.dtls)
      \/ Commit(r, data.dics, (data.dtls \ there) \cup {Edited(x) : x \in there})
    BY <1>3, Zenon DEF SaveDtl
<1>5. IsDtl(new) /\ there \subseteq data.dtls
    BY <1>2, <1>3 DEF IsDtl, DtlWith, Dtls, Items
<1>6. ASSUME NEW x \in there PROVE IsDtl(Edited(x))
    <2>1. x.dic \in DicCods /\ x = [dic |-> x.dic, cod |-> x.cod, nam |-> x.nam, seq |-> x.seq, by |-> x.by]
        BY <1>1, <1>5 DEF IsDtl
    <2> DEFINE n == IF x.nam = r.f.nam THEN x.by ELSE r.nr
               k == [x EXCEPT !.nam = r.f.nam]
               j == [k EXCEPT !.by = n]
    <2>2. k = [dic |-> x.dic, cod |-> x.cod, nam |-> r.f.nam, seq |-> x.seq, by |-> x.by]
        BY <2>1
    <2>3. Edited(x) = [j EXCEPT !.seq = r.f.seq]
        BY Zenon DEF Named
    <2> HIDE DEF k, n
    <2>4. j = [dic |-> x.dic, cod |-> x.cod, nam |-> r.f.nam, seq |-> x.seq, by |-> n]
        BY <2>2
    <2> HIDE DEF j, Edited
    <2>5. Edited(x) = [dic |-> x.dic, cod |-> x.cod, nam |-> r.f.nam, seq |-> r.f.seq, by |-> n]
        BY <2>3, <2>4
    <2> QED BY <2>1, <2>5 DEF IsDtl
<1> HIDE DEF Edited
<1>7. /\ \A x \in data.dtls \cup {new} : IsDtl(x)
      /\ \A x \in (data.dtls \ there) \cup {Edited(x) : x \in there} : IsDtl(x)
    BY <1>1, <1>5, <1>6
<1> QED BY <1>1, <1>2, <1>4, <1>7, CommitKeeps, FailKeeps

-----------------------------------------------------------------------------
(* Reloads and new requests.                                                 *)

LEMMA ReadGoes ==
    ASSUME Inv, NEW r \in page.open, Read(r)
    PROVE  \E was, n, crossed :
        /\ r.at = "read" /\ IsReq(r) /\ data' = data
        /\ was = [nr |-> page.reads + 1, dtls |-> data.dtls]
        /\ n = [nr |-> r.nr, f |-> r.f, at |-> "set", was |-> {was}, dels |-> r.dels]
        /\ crossed = (page.crossed \/ \E o \in Others(r) : o.at = "set")
        /\ page' = [nr |-> page.nr, open |-> Others(r) \cup {n}, mates |-> Met(r).mates, reads |-> page.reads + 1,
                    read |-> page.read, crossed |-> crossed, dropped |-> page.dropped, early |-> page.early]
<1> USE DEF Inv
<1>1. IsReq(r) /\ r.at = "read" /\ data' = data
    BY DEF Shapes, Read, At
<1>2. PICK was : was = [nr |-> page.reads + 1, dtls |-> data.dtls]
    OBVIOUS
<1>3. PICK n : n = [nr |-> r.nr, f |-> r.f, at |-> "set", was |-> {was}, dels |-> r.dels]
    OBVIOUS
<1>4. PICK crossed : crossed = (page.crossed \/ \E o \in Others(r) : o.at = "set")
    OBVIOUS
<1>5. page' = [nr |-> page.nr, open |-> Others(r) \cup {n}, mates |-> Met(r).mates, reads |-> page.reads + 1,
               read |-> page.read, crossed |-> crossed, dropped |-> page.dropped, early |-> page.early]
    <2> DEFINE m == Met(r)
               g == [r EXCEPT !.at = "set", !.was = {[nr |-> page.reads + 1, dtls |-> data.dtls]}]
    <2>1. m = [nr |-> page.nr, open |-> Others(r), mates |-> m.mates, reads |-> page.reads,
               read |-> page.read, crossed |-> page.crossed, dropped |-> page.dropped,
               early |-> page.early]
        BY MetFacts
    <2>2. page' = [m EXCEPT !.reads = @ + 1, !.crossed = @ \/ \E o \in Others(r) : o.at = "set",
                            !.open = @ \cup {g}]
        BY Zenon DEF Read
    <2>3. g = n
        <3> DEFINE h == [r EXCEPT !.at = "set"]
        <3>1. g = [h EXCEPT !.was = {was}]
            BY <1>2, Zenon
        <3>2. h = [nr |-> r.nr, f |-> r.f, at |-> "set", was |-> r.was, dels |-> r.dels]
            BY <1>1 DEF IsReq
        <3> HIDE DEF g, h
        <3> QED BY <1>3, <3>1, <3>2
    <2> HIDE DEF g, m
    <2> DEFINE k == [m EXCEPT !.reads = page.reads + 1]
               j == [k EXCEPT !.crossed = crossed]
    <2>4. m.reads = page.reads /\ m.crossed = page.crossed /\ m.open = Others(r)
        BY <2>1
    <2>5. page' = [m EXCEPT !.reads = page.reads + 1, !.crossed = crossed, !.open = Others(r) \cup {n}]
        BY <1>4, <2>2, <2>3, <2>4
    <2>6. page' = [j EXCEPT !.open = Others(r) \cup {n}]
        BY <2>5, Zenon
    <2>7. k = [nr |-> page.nr, open |-> Others(r), mates |-> m.mates, reads |-> page.reads + 1,
               read |-> page.read, crossed |-> page.crossed, dropped |-> page.dropped,
               early |-> page.early]
        BY <2>1
    <2> HIDE DEF k
    <2>8. j = [nr |-> page.nr, open |-> Others(r), mates |-> m.mates, reads |-> page.reads + 1,
               read |-> page.read, crossed |-> crossed, dropped |-> page.dropped,
               early |-> page.early]
        BY <2>7
    <2> HIDE DEF j
    <2>9. page' = [nr |-> page.nr, open |-> Others(r) \cup {n}, mates |-> m.mates, reads |-> page.reads + 1,
               read |-> page.read, crossed |-> crossed, dropped |-> page.dropped, early |-> page.early]
        BY <2>6, <2>8
    <2> QED BY <2>9 DEF m
<1> QED BY <1>1, <1>2, <1>3, <1>4, <1>5

LEMMA ReadKeeps ==
    ASSUME Inv, NEW r \in page.open, Read(r)
    PROVE  Inv'
<1> USE DEF Inv
<1>2. PICK was, n, crossed :
        /\ r.at = "read" /\ IsReq(r) /\ data' = data
        /\ was = [nr |-> page.reads + 1, dtls |-> data.dtls]
        /\ n = [nr |-> r.nr, f |-> r.f, at |-> "set", was |-> {was}, dels |-> r.dels]
        /\ crossed = (page.crossed \/ \E o \in Others(r) : o.at = "set")
        /\ page' = [nr |-> page.nr, open |-> Others(r) \cup {n}, mates |-> Met(r).mates, reads |-> page.reads + 1,
                    read |-> page.read, crossed |-> crossed, dropped |-> page.dropped, early |-> page.early]
    BY ReadGoes
<1>1. IsReq(r) /\ r.at = "read" /\ data' = data
    BY <1>2
<1>3. n = [nr |-> r.nr, f |-> r.f, at |-> "set", was |-> {was}, dels |-> r.dels]
    BY <1>2
<1>4. crossed = (page.crossed \/ \E o \in Others(r) : o.at = "set")
    BY <1>2
<1>5. page' = [nr |-> page.nr, open |-> Others(r) \cup {n}, mates |-> Met(r).mates, reads |-> page.reads + 1,
               read |-> page.read, crossed |-> crossed, dropped |-> page.dropped, early |-> page.early]
    BY <1>2
<1>6. /\ page'.reads = page.reads + 1 /\ page'.read = page.read /\ page'.crossed = crossed
      /\ page'.open = Others(r) \cup {n}
      /\ page' = [nr |-> page'.nr, open |-> page'.open, mates |-> page'.mates, reads |-> page'.reads,
                  read |-> page'.read, crossed |-> page'.crossed, dropped |-> page'.dropped,
                  early |-> page'.early]
    BY <1>5
<1>7. n.at = "set" /\ n.was = {was} /\ was.nr = page.reads + 1 /\ was.dtls = data.dtls /\ IsReq(n)
    BY <1>2, <1>3 DEF IsReq
<1>8. \A x \in was.dtls : x.dic \in DicCods
    BY <1>7 DEF Shapes, IsDtl
<1>9. Others(r) \subseteq page.open
    BY DEF Others
<1>10. Shapes'
    <2>1. \A o \in page'.open : IsReq(o)
        BY <1>6, <1>7, <1>9 DEF Shapes
    <2> QED BY <1>1, <1>6, <2>1 DEF Shapes, IsReq, IsDic, IsDtl
<1>11. CacheInv'
    <2>1. page.reads \in Nat /\ page.read.nr \in 0 .. page.reads
        BY DEF CacheInv
    <2>2. ASSUME ~crossed
          PROVE  /\ data'.cache \in Loads(page'.read.dtls)
                 /\ \A o \in page'.open : o.at = "set" => o = n
        BY <1>1, <1>4, <1>6, <2>2 DEF CacheInv
    <2>3. ASSUME NEW o \in page'.open, o.at = "set"
          PROVE  \A w \in o.was : w.nr \in 1 .. page'.reads /\ \A x \in w.dtls : x.dic \in DicCods
        <3>1. CASE o = n
            BY <1>6, <1>7, <1>8, <2>1, <3>1
        <3>2. CASE o # n
            <4>1. o \in page.open
                BY <1>6, <1>9, <3>2
            <4>2. \A w \in o.was : w.nr \in 1 .. page.reads /\ \A x \in w.dtls : x.dic \in DicCods
                BY <2>3, <4>1 DEF CacheInv
            <4> QED BY <1>6, <2>1, <4>2
        <3> QED BY <3>1, <3>2
    <2>4. /\ page'.reads \in Nat /\ page'.read.nr \in 0 .. page'.reads /\ page'.read.nr < page'.reads
          /\ was.nr = page'.reads
        BY <1>6, <1>7, <2>1
    <2>5. \A x \in page'.read.dtls : x.dic \in DicCods
        BY <1>6 DEF CacheInv
    <2> QED BY <1>6, <1>7, <1>8, <2>2, <2>3, <2>4, <2>5 DEF CacheInv
<1> QED BY <1>10, <1>11

LEMMA SetGoes ==
    ASSUME Inv, NEW r \in page.open, Set(r)
    PROVE  \E was, new, read :
        /\ r.at = "set" /\ was \in r.was /\ new \in Loads(was.dtls)
        /\ data'.dics = data.dics /\ data'.dtls = data.dtls /\ data'.cache = new
        /\ data' = [dics |-> data'.dics, dtls |-> data'.dtls, cache |-> data'.cache]
        /\ read = IF was.nr > page.read.nr THEN was ELSE page.read
        /\ page' = [nr |-> page.nr, open |-> Others(r), mates |-> Met(r).mates, reads |-> page.reads,
                    read |-> read, crossed |-> page.crossed, dropped |-> page.dropped, early |-> page.early]
<1> USE DEF Inv
<1>1. PICK was \in r.was :
        /\ \E new \in Loads(was.dtls) : data' = [data EXCEPT !.cache = Loaded(@, new)]
        /\ page' = [Met(r) EXCEPT !.read = IF was.nr > @.nr THEN was ELSE @]
    BY DEF Set
<1>2. PICK new \in Loads(was.dtls) : data' = [data EXCEPT !.cache = new]
    BY <1>1 DEF Loaded
<1>3. /\ data'.dics = data.dics /\ data'.dtls = data.dtls /\ data'.cache = new
      /\ data' = [dics |-> data'.dics, dtls |-> data'.dtls, cache |-> data'.cache]
    <2>1. data = [dics |-> data.dics, dtls |-> data.dtls, cache |-> data.cache]
        BY DEF Shapes
    <2> QED BY <1>2, <2>1
<1>4. PICK read : read = IF was.nr > page.read.nr THEN was ELSE page.read
    OBVIOUS
<1>5. page' = [nr |-> page.nr, open |-> Others(r), mates |-> Met(r).mates, reads |-> page.reads,
               read |-> read, crossed |-> page.crossed, dropped |-> page.dropped, early |-> page.early]
    <2> DEFINE m == Met(r)
    <2>1. m = [nr |-> page.nr, open |-> Others(r), mates |-> m.mates, reads |-> page.reads,
               read |-> page.read, crossed |-> page.crossed, dropped |-> page.dropped,
               early |-> page.early]
        BY MetFacts
    <2>2. page' = [m EXCEPT !.read = IF was.nr > m.read.nr THEN was ELSE m.read]
        BY <1>1
    <2> HIDE DEF m
    <2>3. page' = [m EXCEPT !.read = read]
        BY <1>4, <2>1, <2>2
    <2>4. page' = [nr |-> page.nr, open |-> Others(r), mates |-> m.mates, reads |-> page.reads,
               read |-> read, crossed |-> page.crossed, dropped |-> page.dropped, early |-> page.early]
        BY <2>1, <2>3
    <2> QED BY <2>4 DEF m
<1>6. r.at = "set"
    BY DEF Set, At
<1> QED BY <1>2, <1>3, <1>4, <1>5, <1>6

LEMMA SetKeeps ==
    ASSUME Inv, NEW r \in page.open, Set(r)
    PROVE  Inv'
<1> USE DEF Inv
<1>1. PICK was, new, read :
        /\ r.at = "set" /\ was \in r.was /\ new \in Loads(was.dtls)
        /\ data'.dics = data.dics /\ data'.dtls = data.dtls /\ data'.cache = new
        /\ data' = [dics |-> data'.dics, dtls |-> data'.dtls, cache |-> data'.cache]
        /\ read = IF was.nr > page.read.nr THEN was ELSE page.read
        /\ page' = [nr |-> page.nr, open |-> Others(r), mates |-> Met(r).mates, reads |-> page.reads,
                    read |-> read, crossed |-> page.crossed, dropped |-> page.dropped, early |-> page.early]
    BY SetGoes
<1>2. was \in r.was /\ new \in Loads(was.dtls)
    BY <1>1
<1>3. /\ data'.dics = data.dics /\ data'.dtls = data.dtls /\ data'.cache = new
      /\ data' = [dics |-> data'.dics, dtls |-> data'.dtls, cache |-> data'.cache]
    BY <1>1
<1>4. read = IF was.nr > page.read.nr THEN was ELSE page.read
    BY <1>1
<1>5. page' = [nr |-> page.nr, open |-> Others(r), mates |-> Met(r).mates, reads |-> page.reads,
               read |-> read, crossed |-> page.crossed, dropped |-> page.dropped, early |-> page.early]
    BY <1>1
<1>6. /\ page'.reads = page.reads /\ page'.read = read /\ page'.crossed = page.crossed
      /\ page'.open = Others(r)
      /\ page' = [nr |-> page'.nr, open |-> page'.open, mates |-> page'.mates, reads |-> page'.reads,
                  read |-> page'.read, crossed |-> page'.crossed, dropped |-> page'.dropped,
                  early |-> page'.early]
    BY <1>5
<1>7. r.at = "set" /\ \A o \in Others(r) : o \in page.open /\ o # r
    BY DEF Set, At, Others
<1>8. Shapes'
    <2>1. \A o \in page'.open : IsReq(o)
        BY <1>6, <1>7 DEF Shapes
    <2> QED BY <1>3, <1>6, <2>1 DEF Shapes, IsReq, IsDic, IsDtl
<1>9. CacheInv'
    <2>1. was.nr \in 1 .. page.reads /\ \A x \in was.dtls : x.dic \in DicCods
        BY <1>2, <1>7 DEF CacheInv
    <2>2. read.nr \in 0 .. page.reads /\ \A x \in read.dtls : x.dic \in DicCods
        BY <1>4, <2>1 DEF CacheInv
    <2>3. ASSUME ~page.crossed
          PROVE  new \in Loads(read.dtls) /\ \A o \in page'.open : o.at # "set"
        <3>1. was.nr = page.reads /\ page.read.nr < page.reads /\ read = was
            BY <1>2, <1>4, <1>7, <2>3 DEF CacheInv
        <3>2. \A o \in page'.open : o.at # "set"
            BY <1>6, <1>7, <2>3 DEF CacheInv
        <3> QED BY <1>2, <3>1, <3>2
    <2>4. \A o \in page'.open : o.at = "set" =>
            \A w \in o.was : w.nr \in 1 .. page'.reads /\ \A x \in w.dtls : x.dic \in DicCods
        BY <1>6, <1>7 DEF CacheInv
    <2>5. page.reads \in Nat
        BY DEF CacheInv
    <2> QED BY <1>3, <1>6, <2>2, <2>3, <2>4, <2>5 DEF CacheInv
<1> QED BY <1>8, <1>9

LEMMA AskGoes ==
    ASSUME Inv, Ask
    PROVE  \E f, new :
        /\ f \in Forms
        /\ new = [nr |-> page.nr + 1, f |-> f, at |-> First(f), was |-> {}, dels |-> {}]
        /\ page' = [nr |-> page.nr + 1, open |-> page.open \cup {new}, mates |-> page.mates, reads |-> page.reads,
                    read |-> page.read, crossed |-> page.crossed, dropped |-> page.dropped,
                    early |-> page.early]
        /\ data' = data
<1> USE DEF Inv
<1>1. PICK f \in Forms :
        page' = [page EXCEPT !.nr = @ + 1,
                    !.open = @ \cup {[nr |-> page.nr + 1, f |-> f, at |-> First(f), was |-> {}, dels |-> {}]}]
    BY DEF Ask
<1>2. PICK new : new = [nr |-> page.nr + 1, f |-> f, at |-> First(f), was |-> {}, dels |-> {}]
    OBVIOUS
<1>3. /\ page' = [nr |-> page.nr + 1, open |-> page.open \cup {new}, mates |-> page.mates, reads |-> page.reads,
                  read |-> page.read, crossed |-> page.crossed, dropped |-> page.dropped,
                  early |-> page.early]
      /\ data' = data
    <2> DEFINE k == [page EXCEPT !.nr = @ + 1]
    <2>1. page = [nr |-> page.nr, open |-> page.open, mates |-> page.mates, reads |-> page.reads,
                  read |-> page.read, crossed |-> page.crossed, dropped |-> page.dropped,
                  early |-> page.early]
        BY DEF Shapes
    <2>2. k = [nr |-> page.nr + 1, open |-> page.open, mates |-> page.mates, reads |-> page.reads,
                  read |-> page.read, crossed |-> page.crossed, dropped |-> page.dropped,
                  early |-> page.early]
        BY <2>1
    <2>3. page' = [k EXCEPT !.open = page.open \cup {new}]
        BY <1>1, <1>2, Zenon
    <2> HIDE DEF k
    <2> QED BY <2>2, <2>3 DEF Ask
<1> QED BY <1>1, <1>2, <1>3

\* What a form has in its fields.
IsAsked(f) ==
    /\ f.op \in {"addDic", "editDic", "delDic", "addDicDtl", "editDicDtl", "delDicDtl", "getDicCache"}
    /\ f.op = "addDic" => f.old = None
    /\ f.op \in {"addDic", "editDic"} => f.cod \in DicCods /\ f.nam \in DicNams
    /\ f.op \in {"editDic", "delDic"} => f.old \in Offered
    /\ f.op \in {"addDicDtl", "editDicDtl", "delDicDtl"} => f.cod \in Offered
    /\ f.op \in {"addDicDtl", "editDicDtl"} =>
        f.nam \in DtlNams /\ f.dtl \in DtlCods \cup DtlsOf(f.old) /\ f.seq \in SeqNOs \cup {NoNumber}
    /\ f.op \in {"addDicDtl", "editDicDtl", "delDicDtl", "delDic"} => f.old = f.cod

LEMMA FormsAsked ==
    ASSUME NEW f \in Forms
    PROVE  IsAsked(f)
<1> DEFINE A == {Form("addDic", None, c, n, None, NoNumber) : c \in DicCods, n \in DicNams}
           B == {Form("editDic", o, c, n, None, NoNumber) : o \in Offered, c \in DicCods, n \in DicNams}
           C == {Form("delDic", o, o, None, None, NoNumber) : o \in Offered}
           D == {Form("addDicDtl", o, o, n, i, s) : o \in Offered, n \in DtlNams, i \in DtlCods, s \in SeqNOs \cup {NoNumber}}
           E(o) == {Form("editDicDtl", o, o, n, i, s) : n \in DtlNams, i \in DtlsOf(o), s \in SeqNOs \cup {NoNumber}}
           F(o) == {Form("delDicDtl", o, o, None, i, NoNumber) : i \in DtlsOf(o)}
<1>1. \A x \in A : IsAsked(x)
    BY DEF IsAsked, Form
<1>2. \A x \in B : IsAsked(x)
    BY DEF IsAsked, Form
<1>3. \A x \in C : IsAsked(x)
    BY DEF IsAsked, Form
<1>4. \A x \in D : IsAsked(x)
    BY DEF IsAsked, Form
<1>5. \A o \in Offered : \A x \in E(o) : IsAsked(x)
    BY DEF IsAsked, Form
<1>6. \A o \in Offered : \A x \in F(o) : IsAsked(x)
    BY DEF IsAsked, Form
<1> DEFINE U == UNION {E(o) : o \in Offered}
           V == UNION {F(o) : o \in Offered}
           G == {Form("getDicCache", None, None, None, None, NoNumber)}
<1>7. Forms = A \cup B \cup C \cup D \cup U \cup V \cup G
    BY DEF Forms
<1>8. (\A x \in U : IsAsked(x)) /\ (\A x \in V : IsAsked(x))
    <2> HIDE DEF E, F
    <2> QED BY <1>5, <1>6
<1>9. \A x \in G : IsAsked(x)
    BY DEF IsAsked, Form
<1> HIDE DEF A, B, C, D, U, V, G
<1> QED BY <1>1, <1>2, <1>3, <1>4, <1>7, <1>8, <1>9

LEMMA AskKeeps ==
    ASSUME Inv, Ask
    PROVE  Inv'
<1> USE DEF Inv
<1>1. PICK f, new :
        /\ f \in Forms
        /\ new = [nr |-> page.nr + 1, f |-> f, at |-> First(f), was |-> {}, dels |-> {}]
        /\ page' = [nr |-> page.nr + 1, open |-> page.open \cup {new}, mates |-> page.mates, reads |-> page.reads,
                    read |-> page.read, crossed |-> page.crossed, dropped |-> page.dropped,
                    early |-> page.early]
        /\ data' = data
    BY AskGoes
<1>2. new = [nr |-> page.nr + 1, f |-> f, at |-> First(f), was |-> {}, dels |-> {}]
    BY <1>1
<1>3. /\ page' = [nr |-> page.nr + 1, open |-> page.open \cup {new}, mates |-> page.mates, reads |-> page.reads,
                  read |-> page.read, crossed |-> page.crossed, dropped |-> page.dropped,
                  early |-> page.early]
      /\ data' = data
    BY <1>1
<1>4. /\ page'.reads = page.reads /\ page'.read = page.read /\ page'.crossed = page.crossed
      /\ page'.open = page.open \cup {new}
      /\ page' = [nr |-> page'.nr, open |-> page'.open, mates |-> page'.mates, reads |-> page'.reads,
                  read |-> page'.read, crossed |-> page'.crossed, dropped |-> page'.dropped,
                  early |-> page'.early]
    BY <1>3
<1>5. f.op = "getDicCache" \/ f.cod \in DicCods
    <2>1. Offered \subseteq DicCods
        BY DEF Offered, Shapes, IsDic
    <2>2. IsAsked(f)
        BY <1>1, FormsAsked
    <2> QED BY <2>1, <2>2 DEF IsAsked
<1>6. new.at # "set" /\ IsReq(new)
    <2>1. First(f) # "set" /\ (First(f) # "read" => f.op # "getDicCache")
        BY DEF First
    <2>2. new.at = First(f) /\ new.f = f /\ new = [nr |-> new.nr, f |-> new.f, at |-> new.at, was |-> new.was, dels |-> new.dels]
        BY <1>2
    <2> QED BY <1>5, <2>1, <2>2 DEF IsReq
<1>7. Shapes'
    <2>1. \A o \in page'.open : IsReq(o)
        BY <1>4, <1>6 DEF Shapes
    <2> QED BY <1>3, <1>4, <2>1 DEF Shapes, IsReq, IsDic, IsDtl
<1>8. CacheInv'
    BY <1>3, <1>4, <1>6 DEF CacheInv
<1> QED BY <1>7, <1>8

-----------------------------------------------------------------------------
(* The start, and what the cache serves.                                     *)

LEMMA InitHolds ==
    ASSUME DicAssumption, Init
    PROVE  Inv
<1>1. PICK cache \in Loads(SeededDtls) :
        data = [dics |-> SeededDics, dtls |-> SeededDtls, cache |-> cache]
    BY DEF Init
<1>2. page = [nr |-> 0, open |-> {}, mates |-> [m \in 0 .. MaxAsked |-> {}],
              reads |-> 0, read |-> [nr |-> 0, dtls |-> SeededDtls], crossed |-> FALSE,
              dropped |-> [c \in DicCods |-> 0], early |-> {}]
    BY DEF Init
<1>3. Base \in DicCods /\ Plain \in DicCods
    BY DEF DicAssumption
<1>4. /\ \A d \in SeededDics : IsDic(d)
      /\ \A x \in SeededDtls : IsDtl(x)
    BY <1>3 DEF SeededDics, SeededDtls, IsDic, IsDtl
<1>5. Shapes
    <2>1. /\ data = [dics |-> data.dics, dtls |-> data.dtls, cache |-> data.cache]
          /\ data.dics = SeededDics /\ data.dtls = SeededDtls
        BY <1>1
    <2>2. page.open = {}
        BY <1>2
    <2>3. page = [nr |-> page.nr, open |-> page.open, mates |-> page.mates, reads |-> page.reads,
               read |-> page.read, crossed |-> page.crossed, dropped |-> page.dropped,
               early |-> page.early]
        BY <1>2
    <2> QED BY <1>4, <2>1, <2>2, <2>3 DEF Shapes
<1>6. CacheInv
    <2>1. data.cache \in Loads(SeededDtls)
        BY <1>1
    <2>2. page.open = {} /\ page.reads = 0 /\ page.read.nr = 0 /\ page.read.dtls = SeededDtls
        BY <1>2
    <2>3. \A x \in SeededDtls : x.dic \in DicCods
        BY <1>4 DEF IsDtl
    <2> QED BY <2>1, <2>2, <2>3 DEF CacheInv
<1> QED BY <1>5, <1>6 DEF Inv

LEMMA StepKeeps ==
    ASSUME Inv, [Next]_vars
    PROVE  Inv'
<1>1. ASSUME NEW r \in page.open, Save(r)
      PROVE  Inv'
    BY <1>1, SaveDicKeeps, SaveDtlKeeps DEF Save
<1>2. ASSUME NEW r \in page.open, Run(r)
      PROVE  Inv'
    BY <1>1, <1>2, FindKeeps, DropKeeps, ReadKeeps, SetKeeps DEF Run
<1>3. CASE UNCHANGED vars
    BY <1>3 DEF vars, Inv, Shapes, IsReq, IsDic, IsDtl, CacheInv
<1> QED BY <1>2, <1>3, AskKeeps DEF Next

LEMMA InvHolds == DicAssumption => (Spec => []Inv)
<1>1. DicAssumption /\ Init => Inv
    BY InitHolds
<1>2. Inv /\ [Next]_vars => Inv'
    BY StepKeeps
<1> QED BY <1>1, <1>2, PTL DEF Spec

\* What is in the cache for a code: its items, if no code like it has any.
LEMMA CacheOf ==
    ASSUME DicAssumption, NEW c \in DicCods, NEW dtls, \A x \in dtls : x.dic \in DicCods,
           NEW cache \in Loads(dtls),
           \A e \in DicCods \ {c} : UpperOf[e] = UpperOf[c] => Items(dtls, e) = {}
    PROVE  /\ Key(c) \in DOMAIN cache <=> Items(dtls, c) # {}
           /\ Key(c) \in DOMAIN cache => cache[Key(c)] = Items(dtls, c)
<1> DEFINE cods == {x.dic : x \in dtls}
           keys == {Key(e) : e \in cods}
<1>1. PICK of \in [keys -> cods] : (\A k \in keys : Key(of[k]) = k)
                                /\ cache = [k \in keys |-> Items(dtls, of[k])]
    BY DEF Loads
<1>2. \A e \in cods : e \in DicCods /\ Items(dtls, e) # {}
    BY DEF Items
<1>3. \A e \in cods : Key(e) = Key(c) => e = c
    BY <1>2 DEF Key
<1>4. Items(dtls, c) # {} => c \in cods
    BY DEF Items
<1> HIDE DEF cods
<1>5. DOMAIN cache = keys /\ \A k \in keys : cache[k] = Items(dtls, of[k])
    BY <1>1
<1>6. Key(c) \in keys => of[Key(c)] = c /\ c \in cods
    BY <1>1, <1>3
<1>7. c \in cods => Key(c) \in keys
    OBVIOUS
<1> QED BY <1>2, <1>4, <1>5, <1>6, <1>7

\* What the cache serves, by the invariant.
LEMMA Serves ==
    ASSUME DicAssumption, Inv
    PROVE  ItemsServed
<1> SUFFICES ASSUME ~page.crossed, NEW c \in DicCods,
                    \A e \in DicCods \ {c} : UpperOf[e] = UpperOf[c] =>
                        Items(page.read.dtls, e) \cup Items(data.dtls, e) = {}
             PROVE  IF Items(page.read.dtls, c) # {} THEN Served(c) = Items(page.read.dtls, c)
                    ELSE Served(c) \in {{}, Items(data.dtls, c)}
    BY DEF ItemsServed
<1> DEFINE read == Items(page.read.dtls, c)
           key  == UpperOf[c]
<1>1. /\ data.cache \in Loads(page.read.dtls)
      /\ \A x \in page.read.dtls : x.dic \in DicCods
    BY DEF Inv, CacheInv
<1>2. \A e \in DicCods \ {c} : UpperOf[e] = UpperOf[c] =>
          Items(page.read.dtls, e) = {} /\ Items(data.dtls, e) = {}
    OBVIOUS
<1>3. /\ key \in DOMAIN data.cache <=> read # {}
      /\ key \in DOMAIN data.cache => data.cache[key] = read
    BY <1>1, <1>2, CacheOf DEF Key
<1>4. CASE read # {}
    BY <1>3, <1>4 DEF Served
<1>5. CASE read = {}
    <2>1. Served(c) = Items(data.dtls, key)
        BY <1>3, <1>5 DEF Served
    <2>2. key \in DicCods /\ UpperOf[key] = UpperOf[c]
        BY DEF DicAssumption
    <2>3. key = c \/ Items(data.dtls, key) = {}
        BY <1>2, <2>2
    <2> QED BY <1>5, <2>1, <2>3
<1> QED BY <1>4, <1>5

-----------------------------------------------------------------------------
(* What the tables tell: who named the rows, and what the requests that are  *)
(* open know of them.                                                        *)

Nrs == 0 .. MaxAsked
DtlOps == {"addDicDtl", "editDicDtl"}

IsForm(f) ==
    /\ f.op \in {"addDic", "editDic", "delDic", "addDicDtl", "editDicDtl", "delDicDtl", "getDicCache"}
    /\ f.op = "addDic" => f.old = None
    /\ f.op \in {"addDic", "editDic"} => f.cod \in DicCods /\ f.nam \in DicNams
    /\ f.op \in {"editDic", "delDic"} => f.old \in DicCods \ {Base}
    /\ f.op \in DtlOps \cup {"delDicDtl"} => f.cod \in DicCods \ {Base}
    /\ f.op \in DtlOps => f.dtl \in DtlCods /\ f.nam \in DtlNams /\ f.seq \in Nat \cup {NoNumber}
    /\ f.op \in DtlOps \cup {"delDicDtl", "delDic"} => f.old = f.cod

\* The statements of a method, and what those that delete leave to the end.
IsAt(r) ==
    /\ r.f.op = "addDic" => r.at \in {"cod", "nam", "save"}
    /\ r.f.op = "editDic" =>
        r.at \in {"get", "nam", "save"} \/ (r.f.old # r.f.cod /\ r.at \in {"cod", "drop", "dropDtls"})
    /\ r.f.op = "delDic" => r.at \in {"get", "drop", "dropDtls"}
    /\ r.f.op = "addDicDtl" => r.at \in {"get", "dtlCod", "dtlNam", "save"} \/ (r.at = "seq" /\ r.f.seq = NoNumber)
    /\ r.f.op = "editDicDtl" => r.at \in {"get", "dtlNam", "dtlCod", "save"}
    /\ r.f.op = "delDicDtl" => r.at \in {"get", "dropDtl"}
    /\ r.f.op = "getDicCache" => r.at \in {"read", "set"}
    /\ \A k \in r.dels : k = <<r.f.old>> \/ \E i : k = <<r.f.old, i>>
    /\ r.dels # {} => /\ r.f.op \in {"editDic", "delDic"} /\ r.at \in {"dropDtls", "nam", "save"}
                      /\ r.f.op = "editDic" => r.f.old # r.f.cod

PageInv ==
    /\ MaxAsked \in Nat /\ NoNumber \notin Nat /\ None \notin DicCods
    /\ page.nr \in Nrs
    /\ page.mates \in [Nrs -> SUBSET Int]
    /\ page.dropped \in [DicCods -> Int]
    /\ page.early \subseteq Nrs
    /\ IsFiniteSet(page.open) /\ Cardinality(page.open) <= 2
    /\ \A r \in page.open : r.nr \in 1 .. page.nr /\ IsForm(r.f) /\ IsAt(r)
    /\ \A r, o \in page.open : r.nr = o.nr => r = o

RowsInv ==
    /\ data.dics \subseteq DicRow /\ data.dtls \subseteq DtlRow /\ IsFiniteSet(data.dtls)
    /\ \A d, e \in data.dics : d.cod = e.cod => d = e
    /\ \A x, y \in data.dtls : x.dic = y.dic /\ x.cod = y.cod => x = y
    /\ \A d \in data.dics : d.base <=> d.cod = Base
    /\ \E d \in data.dics : d.cod = Base /\ d.by = 0
    /\ Items(data.dtls, Base) = Items(SeededDtls, Base)

\* A request that is to give a name: whatever has it by now came from one that
\* was not alone, and so is this one, unless its own row has the name too.
KnowsNam(r) ==
    OfDic(r.f) /\ r.at = "save" =>
        \A e \in Dics(r) : e.nam = r.f.nam /\ e.cod # r.f.cod =>
            /\ ~Alone(e.by)
            /\ \/ ~Alone(r.nr)
               \/ r.f.old = r.f.cod /\ \E d \in Dics(r) : d.cod = r.f.cod /\ d.nam = r.f.nam
FreeDtlNam(r) ==
    \A y \in Items(data.dtls, r.f.cod) : y.nam = r.f.nam /\ y.cod # r.f.dtl =>
        /\ ~Alone(y.by)
        /\ \/ ~Alone(r.nr)
           \/ r.f.op = "editDicDtl" /\ \E x \in Items(data.dtls, r.f.cod) : x.cod = r.f.dtl /\ x.nam = r.f.nam
KnowsDtlNam(r) ==
    \/ r.f.op = "addDicDtl" /\ r.at \in {"seq", "save"}
    \/ r.f.op = "editDicDtl" /\ r.at \in {"dtlCod", "save"}
    => FreeDtlNam(r)

\* The dictionary that was found may have been dropped since; what was not there
\* when the items were dropped came since.
Found(r) == (\E d \in data.dics : d.cod = r.f.cod) \/ Overlapped(page.dropped[r.f.cod], r.nr)
KnowsDic(r) == r.f.op \in DtlOps /\ r.at # "get" => Found(r)

Cleared(r) ==
    \A x \in data.dtls : x.dic = r.f.old => <<x.dic, x.cod>> \in r.dels \/ Overlapped(r.nr, x.by)
KnowsLeft(r) == r.f.op = "editDic" /\ r.f.old # r.f.cod /\ r.at \in {"nam", "save"} => Cleared(r)

\* The number that was read is that of the items as they are, if r is alone.
KnowsSeq(r) ==
    r.f.op = "addDicDtl" /\ r.f.seq = NoNumber /\ r.at = "save" =>
        \E k \in Nat : r.was = {k} /\ (~Alone(r.nr) \/ k = Number(Items(data.dtls, r.f.cod)))

Knows(r) == KnowsNam(r) /\ KnowsDtlNam(r) /\ KnowsDic(r) /\ KnowsLeft(r) /\ KnowsSeq(r)

Told ==
    /\ PageInv /\ RowsInv
    /\ TwinsOnlyFromOverlap /\ OrphanOnlyFromOverlap /\ NumberedLast
    /\ \A r \in page.open : Knows(r)

-----------------------------------------------------------------------------
(* What a step of a request does to the others.                              *)

\* r has met the others that have begun.
Meets(r) ==
    /\ page'.nr = page.nr
    /\ page'.mates \in [Nrs -> SUBSET Int]
    /\ \A n \in Nrs : page.mates[n] \subseteq page'.mates[n]
    /\ \A o \in Others(r) : o.at # First(o.f) =>
        o.nr \in page'.mates[r.nr] /\ r.nr \in page'.mates[o.nr]

\* Rows have their names from r or had them before, and a dictionary is there as
\* long as r does not drop it.
Brings(r) ==
    /\ \A d \in data'.dics : d.by = r.nr \/ \E e \in data.dics : e.cod = d.cod /\ e.nam = d.nam /\ e.by = d.by
    /\ \A x \in data'.dtls : x.by = r.nr \/ \E y \in data.dtls : y.dic = x.dic /\ y.cod = x.cod /\ y.nam = x.nam /\ y.by = x.by
    /\ \A c \in DicCods :
        \/ page'.dropped[c] = r.nr
        \/ /\ page'.dropped[c] = page.dropped[c]
           /\ (\E d \in data.dics : d.cod = c) => \E d \in data'.dics : d.cod = c

LEMMA MetMeets ==
    ASSUME Inv, PageInv, NEW r \in page.open, page'.nr = page.nr, page'.mates = Met(r).mates
    PROVE  Meets(r)
<1> DEFINE f == [n \in DOMAIN page.mates |->
                    CASE n = r.nr       -> page.mates[n] \cup Begun(r)
                      [] n \in Begun(r) -> page.mates[n] \cup {r.nr}
                      [] OTHER          -> page.mates[n]]
           k == [page EXCEPT !.open = Others(r)]
<1>1. Met(r) = [k EXCEPT !.mates = f]
    BY Zenon DEF Met, Inv, Shapes
<1>2. /\ r.nr \in Nrs /\ Begun(r) \subseteq Nrs /\ r.nr \notin Begun(r) /\ DOMAIN page.mates = Nrs
      /\ \A o \in Others(r) : o.nr \in Nrs
    BY DEF PageInv, Begun, Others, Nrs
<1>3. /\ f \in [Nrs -> SUBSET Int]
      /\ \A n \in Nrs : page.mates[n] \subseteq f[n]
      /\ Begun(r) \subseteq f[r.nr]
      /\ \A n \in Begun(r) : r.nr \in f[n]
    BY <1>2 DEF PageInv, Nrs
<1> HIDE DEF f
<1>4. k = [nr |-> page.nr, open |-> Others(r), mates |-> page.mates, reads |-> page.reads,
           read |-> page.read, crossed |-> page.crossed, dropped |-> page.dropped,
           early |-> page.early]
    BY DEF Inv, Shapes
<1> HIDE DEF k
<1>5. [k EXCEPT !.mates = f].mates = f
    BY <1>4
<1>6. page'.mates = f
    BY <1>1, <1>5
<1>7. \A o \in Others(r) : o.at # First(o.f) => o.nr \in Begun(r)
    BY DEF Begun
<1> QED BY <1>3, <1>6, <1>7 DEF Meets

LEMMA GoTells ==
    ASSUME Inv, PageInv, NEW r \in page.open, NEW n, Same(n, r), NEW ok, NEW next, GoOrFail(n, ok, next)
    PROVE  /\ data' = data /\ Meets(r) /\ page'.dropped = page.dropped /\ page'.early = page.early
           /\ \/ page'.open = Others(r)
              \/ \E g : /\ ok /\ page'.open = Others(r) \cup {g}
                        /\ g = [nr |-> r.nr, f |-> r.f, at |-> next, was |-> n.was, dels |-> n.dels]
<1> DEFINE m == Met(r)
           g == [n EXCEPT !.at = next]
<1>1. Met(n) = Met(r) /\ n.nr = r.nr /\ n.f = r.f
    BY SameFacts
<1>2. page' = (IF ok THEN [m EXCEPT !.open = @ \cup {g}] ELSE m) /\ data' = data
    BY <1>1 DEF GoOrFail, Goto, Fail
<1>3. g = [nr |-> r.nr, f |-> r.f, at |-> next, was |-> n.was, dels |-> n.dels]
    BY <1>1 DEF Same
<1>4. m = [nr |-> page.nr, open |-> Others(r), mates |-> m.mates, reads |-> page.reads,
           read |-> page.read, crossed |-> page.crossed, dropped |-> page.dropped, early |-> page.early]
    BY MetFacts DEF Inv
<1> HIDE DEF m, g
<1>5. /\ page'.nr = page.nr /\ page'.mates = m.mates /\ page'.dropped = page.dropped /\ page'.early = page.early
      /\ page'.open = IF ok THEN Others(r) \cup {g} ELSE Others(r)
    BY <1>2, <1>4
<1>6. Meets(r)
    BY <1>5, MetMeets DEF m
<1> QED BY <1>2, <1>3, <1>5, <1>6

LEMMA FailTells ==
    ASSUME Inv, PageInv, NEW r \in page.open, Fail(r)
    PROVE  Meets(r) /\ page'.dropped = page.dropped /\ page'.early = page.early /\ page'.open = Others(r)
<1> DEFINE m == Met(r)
<1>1. m = [nr |-> page.nr, open |-> Others(r), mates |-> m.mates, reads |-> page.reads,
           read |-> page.read, crossed |-> page.crossed, dropped |-> page.dropped, early |-> page.early]
    BY MetFacts DEF Inv
<1>2. page' = m
    BY DEF Fail
<1> HIDE DEF m
<1>3. /\ page'.nr = page.nr /\ page'.mates = m.mates /\ page'.dropped = page.dropped /\ page'.early = page.early
      /\ page'.open = Others(r)
    BY <1>1, <1>2
<1> QED BY <1>3, MetMeets DEF m

LEMMA CommitTells ==
    ASSUME Inv, PageInv, NEW r \in page.open, NEW n, Same(n, r), NEW dics, NEW dtls, Commit(n, dics, dtls)
    PROVE  /\ data'.dics = dics /\ data'.dtls = dtls /\ Meets(r) /\ page'.open = Others(r)
           /\ page'.dropped = [c \in DicCods |-> IF <<c>> \in n.dels THEN r.nr ELSE page.dropped[c]]
           /\ page'.early = IF Early(n, dtls) THEN page.early \cup {r.nr} ELSE page.early
<1> DEFINE m == Met(r)
           d == [c \in DicCods |-> IF <<c>> \in n.dels THEN r.nr ELSE page.dropped[c]]
           e == IF Early(n, dtls) THEN page.early \cup {r.nr} ELSE page.early
<1>1. Met(n) = Met(r) /\ n.nr = r.nr
    BY SameFacts
<1>2. m = [nr |-> page.nr, open |-> Others(r), mates |-> m.mates, reads |-> page.reads,
           read |-> page.read, crossed |-> page.crossed, dropped |-> page.dropped, early |-> page.early]
    BY MetFacts DEF Inv
<1> HIDE DEF m
<1>0. m.dropped = page.dropped /\ m.early = page.early
    BY <1>2
<1>3. page' = [m EXCEPT !.dropped = [c \in DicCods |-> IF <<c>> \in n.dels THEN r.nr ELSE m.dropped[c]],
                        !.early = IF Early(n, dtls) THEN m.early \cup {r.nr} ELSE m.early]
    BY <1>1, Zenon DEF Commit, m
<1> DEFINE k == [m EXCEPT !.dropped = d]
<1>4. page' = [k EXCEPT !.early = e]
    BY <1>0, <1>3, Zenon
<1> HIDE DEF d, e
<1>5. k = [nr |-> page.nr, open |-> Others(r), mates |-> m.mates, reads |-> page.reads,
           read |-> page.read, crossed |-> page.crossed, dropped |-> d, early |-> page.early]
    BY <1>2
<1> HIDE DEF k
<1>6. /\ page'.nr = page.nr /\ page'.open = Others(r) /\ page'.mates = m.mates
      /\ page'.dropped = d /\ page'.early = e
    BY <1>4, <1>5
<1>7. Meets(r)
    BY <1>6, MetMeets DEF m
<1>8. data'.dics = dics /\ data'.dtls = dtls
    BY CommitGoes DEF Inv
<1> QED BY <1>6, <1>7, <1>8 DEF d, e

\* What the others know they know after the step.
LEMMA OthersKnow ==
    ASSUME PageInv, RowsInv, NEW r \in page.open, Meets(r), Brings(r), NEW o \in Others(r), Knows(o)
    PROVE  Knows(o)'
<1>1. /\ o \in page.open /\ IsForm(o.f) /\ IsAt(o) /\ o.nr \in Nrs /\ r.nr \in Nrs
      /\ DicCods = DicCods
    BY DEF Others, PageInv, Nrs
<1>2. ASSUME o.at # First(o.f)
      PROVE  /\ ~Alone(o.nr)' /\ ~Alone(r.nr)' /\ Overlapped(r.nr, o.nr)' /\ Overlapped(o.nr, r.nr)'
    BY <1>2 DEF Meets, Alone, Overlapped
<1>3. \A n \in Nrs : ~Alone(n) => ~Alone(n)'
    BY DEF Meets, Alone
<1>4. \A m : \A n \in Nrs : Overlapped(m, n) => Overlapped(m, n)'
    BY DEF Meets, Overlapped
<1>5. /\ \A d \in data.dics : d.by \in Nrs
      /\ \A x \in data.dtls : x.by \in Nrs
    BY DEF RowsInv, DicRow, DtlRow, Nrs
<1>6. KnowsNam(o)'
    <2> SUFFICES ASSUME OfDic(o.f), o.at = "save", NEW e \in Dics(o)', e.nam = o.f.nam, e.cod # o.f.cod
                 PROVE  ~Alone(e.by)' /\ ~Alone(o.nr)'
        BY DEF KnowsNam
    <2>1. o.at # First(o.f)
        BY DEF First
    <2>2. CASE e.by = r.nr
        BY <1>2, <2>1, <2>2
    <2>3. CASE e.by # r.nr
        <3>1. PICK d \in data.dics : d.cod = e.cod /\ d.nam = e.nam /\ d.by = e.by
            BY <2>3 DEF Brings, Dics
        <3>2. d \in Dics(o)
            BY <3>1 DEF Dics
        <3> QED BY <1>2, <1>3, <1>5, <2>1, <3>1, <3>2 DEF Knows, KnowsNam
    <2> QED BY <2>2, <2>3
<1>7. KnowsDtlNam(o)'
    <2> SUFFICES ASSUME \/ o.f.op = "addDicDtl" /\ o.at \in {"seq", "save"}
                        \/ o.f.op = "editDicDtl" /\ o.at \in {"dtlCod", "save"},
                        NEW y \in Items(data'.dtls, o.f.cod), y.nam = o.f.nam, y.cod # o.f.dtl
                 PROVE  ~Alone(y.by)' /\ ~Alone(o.nr)'
        BY DEF KnowsDtlNam, FreeDtlNam, Items
    <2>1. o.at # First(o.f)
        BY DEF First
    <2>2. CASE y.by = r.nr
        BY <1>2, <2>1, <2>2
    <2>3. CASE y.by # r.nr
        <3>1. PICK x \in data.dtls : x.dic = y.dic /\ x.cod = y.cod /\ x.nam = y.nam /\ x.by = y.by
            BY <2>3 DEF Brings, Items
        <3>2. x \in Items(data.dtls, o.f.cod)
            BY <3>1 DEF Items
        <3> QED BY <1>2, <1>3, <1>5, <2>1, <3>1, <3>2 DEF Knows, KnowsDtlNam, FreeDtlNam
    <2> QED BY <2>2, <2>3
<1>8. KnowsDic(o)'
    <2> SUFFICES ASSUME o.f.op \in DtlOps, o.at # "get"
                 PROVE  (\E d \in data'.dics : d.cod = o.f.cod) \/ Overlapped(page.dropped[o.f.cod], o.nr)'
        BY DEF KnowsDic, Found
    <2>1. o.at # First(o.f) /\ o.f.cod \in DicCods
        BY <1>1 DEF First, DtlOps, IsForm
    <2>2. CASE page'.dropped[o.f.cod] = r.nr
        BY <1>2, <2>1, <2>2 DEF Overlapped
    <2>3. CASE page'.dropped[o.f.cod] # r.nr
        BY <1>1, <1>4, <2>1, <2>3 DEF Brings, Knows, KnowsDic, Found, Overlapped
    <2> QED BY <2>2, <2>3
<1>9. KnowsLeft(o)'
    <2> SUFFICES ASSUME o.f.op = "editDic", o.f.old # o.f.cod, o.at \in {"nam", "save"},
                        NEW x \in data'.dtls, x.dic = o.f.old, <<x.dic, x.cod>> \notin o.dels
                 PROVE  Overlapped(o.nr, x.by)'
        BY DEF KnowsLeft, Cleared
    <2>1. o.at # First(o.f)
        BY DEF First
    <2>2. CASE x.by = r.nr
        BY <1>2, <2>1, <2>2
    <2>3. CASE x.by # r.nr
        <3>1. PICK y \in data.dtls : y.dic = x.dic /\ y.cod = x.cod /\ y.nam = x.nam /\ y.by = x.by
            BY <2>3 DEF Brings
        <3> QED BY <1>4, <1>5, <3>1 DEF Knows, KnowsLeft, Cleared
    <2> QED BY <2>2, <2>3
<1>10. KnowsSeq(o)'
    <2> SUFFICES ASSUME o.f.op = "addDicDtl", o.f.seq = NoNumber, o.at = "save"
                 PROVE  \E k \in Nat : o.was = {k} /\ ~Alone(o.nr)'
        BY DEF KnowsSeq
    <2>1. o.at # First(o.f)
        BY DEF First
    <2> QED BY <1>2, <2>1 DEF Knows, KnowsSeq
<1> QED BY <1>6, <1>7, <1>8, <1>9, <1>10 DEF Knows

\* There are no more requests when one of them goes on, or ends.
LEMMA NoMore ==
    ASSUME PageInv, NEW r \in page.open
    PROVE  /\ IsFiniteSet(Others(r)) /\ Cardinality(Others(r)) <= 2
           /\ \A g : IsFiniteSet(Others(r) \cup {g}) /\ Cardinality(Others(r) \cup {g}) <= 2
<1> DEFINE S == page.open
           T == S \ {r}
           U == Others(r)
<1>1. IsFiniteSet(S) /\ Cardinality(S) <= 2 /\ r \in S /\ Cardinality(S) \in Nat
    BY FS_CardinalityType DEF PageInv
<1>2. IsFiniteSet(T) /\ Cardinality(T) = Cardinality(S) - 1
    <2> HIDE DEF S
    <2> QED BY <1>1, FS_RemoveElement
<1>3. U \in SUBSET T
    BY DEF Others
<1> HIDE DEF S, T, U
<1>4. IsFiniteSet(U) /\ Cardinality(U) <= Cardinality(T) /\ Cardinality(U) \in Nat
    BY <1>2, <1>3, FS_Subset, FS_CardinalityType
<1>5. Cardinality(U) <= 1
    BY <1>1, <1>2, <1>4
<1>7. ASSUME NEW g PROVE IsFiniteSet(U \cup {g}) /\ Cardinality(U \cup {g}) <= 2
    <2>1. IsFiniteSet(U \cup {g})
          /\ Cardinality(U \cup {g}) = IF g \in U THEN Cardinality(U) ELSE Cardinality(U) + 1
        BY <1>4, FS_AddElement, Zenon
    <2> QED BY <1>4, <1>5, <2>1
<1>8. Cardinality(U) <= 2
    BY <1>4, <1>5
<1> QED BY <1>4, <1>7, <1>8, Zenon DEF U

\* The page after a step, if the request goes on as one of its kind or ends.
LEMMA PageAfter ==
    ASSUME PageInv, RowsInv, NEW r \in page.open, Meets(r), Brings(r),
           \A o \in page.open : Knows(o),
           page'.dropped \in [DicCods -> Int], page'.early \subseteq Nrs,
           \/ page'.open = Others(r)
           \/ \E g : /\ page'.open = Others(r) \cup {g}
                     /\ g.nr = r.nr /\ g.f = r.f /\ IsAt(g) /\ Knows(g)'
    PROVE  PageInv' /\ \A o \in page'.open : Knows(o)'
<1>1. \A o \in Others(r) : o \in page.open /\ o.nr # r.nr /\ Knows(o)'
    BY OthersKnow DEF Others
<1>2. IsFiniteSet(page'.open) /\ Cardinality(page'.open) <= 2
    BY NoMore, Zenon
<1>3. \A o \in page'.open : o.nr \in 1 .. page'.nr /\ IsForm(o.f) /\ IsAt(o) /\ Knows(o)'
    BY <1>1 DEF PageInv, Meets
<1>4. \A o, p \in page'.open : o.nr = p.nr => o = p
    BY <1>1 DEF PageInv
<1> QED BY <1>2, <1>3, <1>4 DEF PageInv, Meets, IsForm, IsAt

\* Nothing that was told of the rows is lost when others meet.
LEMMA MoreMet ==
    ASSUME PageInv, RowsInv, NEW r \in page.open, Meets(r)
    PROVE  /\ \A n \in Nrs : ~Alone(n) => ~Alone(n)'
           /\ \A m : \A n \in Nrs : Overlapped(m, n) => Overlapped(m, n)'
           /\ \A d \in data.dics : d.by \in Nrs
           /\ \A x \in data.dtls : x.by \in Nrs /\ x.dic \in DicCods
           /\ r.nr \in Nrs
BY DEF Meets, Alone, Overlapped, RowsInv, DicRow, DtlRow, Nrs, PageInv

\* A step after which the rows are as they were.
LEMMA TellsOn ==
    ASSUME Told, NEW r \in page.open, Meets(r),
           data'.dics = data.dics, data'.dtls = data.dtls,
           page'.dropped = page.dropped, page'.early = page.early,
           \/ page'.open = Others(r)
           \/ \E g : /\ page'.open = Others(r) \cup {g}
                     /\ g.nr = r.nr /\ g.f = r.f /\ IsAt(g) /\ Knows(g)'
    PROVE  Told'
<1> USE DEF Told
<1>1. Brings(r)
    BY DEF Brings
<1>2. PageInv' /\ \A o \in page'.open : Knows(o)'
    <2>1. page'.dropped \in [DicCods -> Int] /\ page'.early \subseteq Nrs
        BY DEF PageInv
    <2> QED BY <1>1, <2>1, PageAfter
<1>3. RowsInv'
    BY DEF RowsInv, Items, DicRow, DtlRow
<1>4. /\ \A n \in Nrs : ~Alone(n) => ~Alone(n)'
      /\ \A m : \A n \in Nrs : Overlapped(m, n) => Overlapped(m, n)'
      /\ \A d \in data.dics : d.by \in Nrs
      /\ \A x \in data.dtls : x.by \in Nrs /\ x.dic \in DicCods
    BY MoreMet
<1>5. TwinsOnlyFromOverlap'
    BY <1>4 DEF TwinsOnlyFromOverlap
<1>6. OrphanOnlyFromOverlap'
    <2> SUFFICES ASSUME NEW x \in data.dtls, \A d \in data.dics : d.cod # x.dic
                 PROVE  Overlapped(page.dropped[x.dic], x.by)'
        BY DEF OrphanOnlyFromOverlap
    <2>1. Overlapped(page.dropped[x.dic], x.by) /\ x.by \in Nrs
        BY <1>4 DEF OrphanOnlyFromOverlap
    <2> QED BY <2>1 DEF Meets, Overlapped
<1>7. NumberedLast'
    BY <1>4 DEF NumberedLast, PageInv, Alone
<1> QED BY <1>2, <1>3, <1>5, <1>6, <1>7

\* What r knows it knows after a step of its own that leaves the rows alone.
LEMMA OwnKnows ==
    ASSUME Told, NEW r \in page.open, Meets(r),
           data'.dics = data.dics, data'.dtls = data.dtls, page'.dropped = page.dropped,
           NEW g, g.nr = r.nr, g.f = r.f
    PROVE  /\ FreeDtlNam(r) => FreeDtlNam(g)'
           /\ r.f.op \in DtlOps /\ r.at # "get" => Found(g)'
           /\ Cleared(r) /\ g.dels = r.dels => Cleared(g)'
<1>1. /\ \A n \in Nrs : ~Alone(n) => ~Alone(n)'
      /\ \A m : \A n \in Nrs : Overlapped(m, n) => Overlapped(m, n)'
      /\ \A x \in data.dtls : x.by \in Nrs
      /\ r.nr \in Nrs
    BY MoreMet DEF Told
<1>2. FreeDtlNam(r) => FreeDtlNam(g)'
    BY <1>1 DEF FreeDtlNam, Items
<1>3. Found(r) => Found(g)'
    <2>1. Overlapped(page.dropped[r.f.cod], r.nr) => r.nr \in Nrs /\ page.dropped[r.f.cod] \in page'.mates[r.nr]
        BY <1>1 DEF Overlapped, Meets
    <2> QED BY <2>1 DEF Found, Overlapped
<1>4. r.f.op \in DtlOps /\ r.at # "get" => Found(r)
    BY DEF Told, Knows, KnowsDic
<1>5. Cleared(r) /\ g.dels = r.dels => Cleared(g)'
    BY <1>1 DEF Cleared
<1> QED BY <1>2, <1>3, <1>4, <1>5

\* A set of numbers that has an end has a largest.
LEMMA LargestOf ==
    ASSUME NEW S, S \subseteq Nat, IsFiniteSet(S), S # {}
    PROVE  Max(S) \in S /\ \A y \in S : y <= Max(S)
<1> DEFINE R == StrictSubsetOrdering(S)
           Up(x) == {y \in S : y >= x}
           U == {Up(x) : x \in S}
<1>1. U \subseteq FiniteSubsetsOf(S) /\ U # {}
    <2>1. U \subseteq SUBSET S /\ U # {}
        OBVIOUS
    <2> QED BY <2>1, FS_FiniteSubsetsOfFinite
<1>2. IsWellFoundedOn(R, FiniteSubsetsOf(S))
    BY FS_StrictSubsetOrderingWellFounded
<1>3. \E T \in U : \A V \in U : ~(<<V, T>> \in R)
    <2> HIDE DEF R, U
    <2> QED BY <1>1, <1>2, WFMin
<1>4. PICK x \in S : \A V \in U : ~(<<V, Up(x)>> \in R)
    BY <1>3
<1>5. \A y \in S : y <= x
    <2> SUFFICES ASSUME NEW y \in S, ~(y <= x) PROVE FALSE
        OBVIOUS
    <2>1. y \in Int /\ x \in Int /\ y > x
        OBVIOUS
    <2>2. \A z \in S : z \in Int
        OBVIOUS
    <2>3. Up(y) \subseteq Up(x) /\ x \in Up(x) /\ x \notin Up(y)
        <3>1. \A z \in S : z >= y => z >= x
            BY <2>1, <2>2
        <3>2. x >= x /\ ~(x >= y)
            BY <2>1
        <3> QED BY <3>1, <3>2
    <2>4. <<Up(y), Up(x)>> \in R
        BY <2>3 DEF StrictSubsetOrdering
    <2> QED BY <1>4, <2>4
<1>6. x \in S /\ \A y \in S : x >= y
    BY <1>5
<1>7. Max(S) \in S /\ \A y \in S : Max(S) >= y
    BY <1>6 DEF Max
<1> QED BY <1>7

\* The number of a new item is beyond those of the others, if they have some.
LEMMA NumberIs ==
    ASSUME NEW I, IsFiniteSet(I), \A x \in I : x.seq \in Nat \cup {NoNumber}, NoNumber \notin Nat
    PROVE  /\ Number(I) \in Nat
           /\ (\A x \in I : x.seq # NoNumber) => \A x \in I : x.seq < Number(I)
<1>1. CASE \E x \in I : x.seq = NoNumber
    BY <1>1, FS_CardinalityType DEF Number
<1>2. CASE \A x \in I : x.seq # NoNumber
    <2> DEFINE T == {x.seq : x \in I}
               S == T \cup {0}
               f == [x \in I |-> x.seq]
    <2>1. f \in Surjection(I, T)
        BY DEF Surjection
    <2>2. IsFiniteSet(T)
        <3> HIDE DEF T, f
        <3> QED BY <2>1, FS_Surjection
    <2>3. IsFiniteSet(S)
        <3> HIDE DEF T
        <3> QED BY <2>2, FS_AddElement
    <2>4. S \subseteq Nat /\ S # {} /\ \A x \in I : x.seq \in S
        BY <1>2
    <2>5. Number(I) = 1 + Max(S)
        BY <1>2 DEF Number
    <2> HIDE DEF S
    <2>6. Max(S) \in S /\ \A y \in S : y <= Max(S)
        BY <2>3, <2>4, LargestOf
    <2>7. Max(S) \in Nat
        BY <2>4, <2>6
    <2>8. ASSUME NEW x \in I PROVE x.seq < 1 + Max(S)
        <3>1. x.seq \in Nat /\ x.seq <= Max(S)
            BY <2>4, <2>6
        <3> QED BY <2>7, <3>1
    <2> QED BY <2>5, <2>7, <2>8
<1> QED BY <1>1, <1>2

\* r with other contents, at the next of its statements.
GoneOn(r, n, next) == [nr |-> r.nr, f |-> r.f, at |-> next, was |-> n.was, dels |-> n.dels]

LEMMA GoTold ==
    ASSUME Inv, Told, NEW r \in page.open, NEW n, Same(n, r), NEW ok, NEW next, GoOrFail(n, ok, next),
           ok => IsAt(GoneOn(r, n, next)) /\ Knows(GoneOn(r, n, next))'
    PROVE  Told'
<1> DEFINE g == GoneOn(r, n, next)
<1>1. /\ data' = data /\ Meets(r) /\ page'.dropped = page.dropped /\ page'.early = page.early
      /\ page'.open = Others(r) \/ (ok /\ page'.open = Others(r) \cup {g})
    BY GoTells DEF Told, GoneOn
<1>2. g.nr = r.nr /\ g.f = r.f
    BY DEF GoneOn
<1> HIDE DEF g
<1>3. data'.dics = data.dics /\ data'.dtls = data.dtls
    BY <1>1
<1>4. ok => IsAt(g) /\ Knows(g)'
    BY DEF g
<1> QED BY <1>1, <1>2, <1>3, <1>4, TellsOn

\* What a step finds out, and what r knows after it.
LEMMA GoHas ==
    ASSUME Inv, Told, NEW r \in page.open, NEW n, Same(n, r), NEW ok, NEW next, GoOrFail(n, ok, next)
    PROVE  LET g == GoneOn(r, n, next) IN
           /\ g.nr = r.nr /\ g.f = r.f /\ g.at = next /\ g.was = n.was /\ g.dels = n.dels
           /\ data' = data /\ Meets(r) /\ page'.dropped = page.dropped
           /\ IsForm(r.f) /\ IsAt(r) /\ Knows(r)
           /\ FreeDtlNam(r) => FreeDtlNam(g)'
           /\ r.f.op \in DtlOps /\ r.at # "get" => Found(g)'
           /\ Cleared(r) /\ n.dels = r.dels => Cleared(g)'
<1> DEFINE g == GoneOn(r, n, next)
<1>1. g.nr = r.nr /\ g.f = r.f /\ g.at = next /\ g.was = n.was /\ g.dels = n.dels
    BY DEF GoneOn
<1> HIDE DEF g
<1>2. data' = data /\ Meets(r) /\ page'.dropped = page.dropped
    BY GoTells DEF Told
<1>3. data'.dics = data.dics /\ data'.dtls = data.dtls
    BY <1>2
<1>4. IsForm(r.f) /\ IsAt(r) /\ Knows(r)
    BY DEF Told, PageInv
<1>5. /\ FreeDtlNam(r) => FreeDtlNam(g)'
      /\ r.f.op \in DtlOps /\ r.at # "get" => Found(g)'
      /\ Cleared(r) /\ n.dels = r.dels => Cleared(g)'
    BY <1>1, <1>2, <1>3, OwnKnows
<1> QED BY <1>1, <1>2, <1>4, <1>5 DEF g

LEMMA GetDicTold ==
    ASSUME Inv, Told, NEW r \in page.open, GetDic(r)
    PROVE  Told'
<1>0. PICK found : found = DicWith(r, r.f.old)
    OBVIOUS
<1> DEFINE n == [r EXCEPT !.was = {d.nam : d \in found}]
           ok == (r.f.op = "editDic" \/ found # {}) /\ \A d \in found : ~d.base
           next == AfterGet(r.f)
           g == GoneOn(r, n, next)
<1>1. r.at = "get" /\ GoOrFail(n, ok, next)
    BY <1>0, Zenon DEF GetDic, At
<1>2. Same(n, r) /\ n.dels = r.dels
    BY SameOfReq DEF Inv, Shapes, IsReq
<1>3. ok /\ r.f.op # "editDic" => \E d \in data.dics : d.cod = r.f.old
    BY <1>0 DEF DicWith, Dics
<1> HIDE DEF n, ok
<1>4. /\ g.nr = r.nr /\ g.f = r.f /\ g.at = next /\ g.dels = r.dels
      /\ data' = data /\ IsForm(r.f) /\ IsAt(r)
    BY <1>1, <1>2, GoHas
<1> HIDE DEF g
<1>5. ok => IsAt(g)
    BY <1>1, <1>4 DEF IsAt, IsForm, AfterGet, DtlOps
<1>6. ok /\ r.f.op \in DtlOps => \E d \in data'.dics : d.cod = r.f.cod
    BY <1>3, <1>4 DEF IsForm, DtlOps
<1>7. /\ next \notin {"save", "seq"} /\ (r.f.op = "editDicDtl" => next # "dtlCod")
      /\ (r.f.op = "editDic" /\ r.f.old # r.f.cod => next # "nam")
    BY DEF AfterGet
<1> HIDE DEF next
<1>8. ok => Knows(g)'
    BY <1>4, <1>6, <1>7 DEF Knows, KnowsNam, KnowsDtlNam, KnowsDic, Found, KnowsLeft, KnowsSeq
<1> QED BY <1>1, <1>2, <1>5, <1>8, GoTold DEF g

LEMMA FindCodTold ==
    ASSUME Inv, Told, NEW r \in page.open, FindCod(r)
    PROVE  Told'
<1>0. PICK ok \in BOOLEAN : ok = (DicWith(r, r.f.cod) = {})
    OBVIOUS
<1> DEFINE next == IF r.f.op = "addDic" THEN "nam" ELSE "drop"
           g == GoneOn(r, r, next)
<1>1. r.at = "cod" /\ GoOrFail(r, ok, next)
    BY <1>0, Zenon DEF FindCod, At
<1>2. Same(r, r)
    BY SameOfReq DEF Inv, Shapes, IsReq
<1>3. /\ g.nr = r.nr /\ g.f = r.f /\ g.at = next /\ g.dels = r.dels
      /\ data' = data /\ IsForm(r.f) /\ IsAt(r)
    BY <1>1, <1>2, GoHas
<1>4. r.f.op = "addDic" \/ (r.f.op = "editDic" /\ r.f.old # r.f.cod)
    BY <1>1, <1>3 DEF IsAt, IsForm
<1> HIDE DEF g
<1>5. IsAt(g)
    BY <1>1, <1>3, <1>4 DEF IsAt
<1>6. Knows(g)'
    BY <1>3, <1>4 DEF Knows, KnowsNam, KnowsDtlNam, KnowsDic, KnowsLeft, KnowsSeq, OfDic, DtlOps
<1> HIDE DEF next
<1> QED BY <1>1, <1>2, <1>5, <1>6, GoTold DEF g

\* Of several with the name a dictionary that keeps its code may find its own.
LEMMA FindNamTold ==
    ASSUME Inv, Told, NEW r \in page.open, FindNam(r)
    PROVE  Told'
<1>0. PICK found : found = {d \in Dics(r) : d.nam = r.f.nam}
    OBVIOUS
<1>1. r.at = "nam" /\ \/ FreeNam(r, found) /\ GoOrFail(r, r.f.old = r.f.cod => r.was # {}, "save")
                      \/ Fail(r) /\ data' = data
    BY <1>0, Zenon DEF FindNam, At
<1>2. Same(r, r)
    BY SameOfReq DEF Inv, Shapes, IsReq
<1>3. CASE Fail(r) /\ data' = data
    BY <1>3, FailTells, TellsOn DEF Told
<1>4. CASE FreeNam(r, found) /\ GoOrFail(r, r.f.old = r.f.cod => r.was # {}, "save")
    <2>1. PICK ok \in BOOLEAN : ok = (r.f.old = r.f.cod => r.was # {})
        OBVIOUS
    <2> DEFINE g == GoneOn(r, r, "save")
    <2>2. GoOrFail(r, ok, "save")
        BY <1>4, <2>1
    <2>3. /\ g.nr = r.nr /\ g.f = r.f /\ g.at = "save" /\ g.dels = r.dels
          /\ data' = data /\ Meets(r) /\ IsForm(r.f) /\ IsAt(r) /\ Knows(r)
          /\ Cleared(r) => Cleared(g)'
        BY <1>2, <2>2, GoHas
    <2>4. r.f.op \in {"addDic", "editDic"}
        BY <1>1, <2>3 DEF IsAt, IsForm
    <2> HIDE DEF g
    <2>5. IsAt(g)
        BY <1>1, <2>3, <2>4 DEF IsAt
    <2>6. KnowsNam(g)'
        <3> SUFFICES ASSUME NEW e \in Dics(r), e.nam = r.f.nam, e.cod # r.f.cod
                     PROVE  /\ ~Alone(e.by)'
                            /\ r.f.old = r.f.cod /\ \E d \in Dics(r) : d.cod = r.f.cod /\ d.nam = r.f.nam
            BY <2>3 DEF KnowsNam, Dics
        <3>1. e \in found
            BY <1>0
        <3>2. PICK d \in found : d.cod = r.f.old /\ r.f.old = r.f.cod
            BY <1>4, <3>1 DEF FreeNam
        <3>3. d \in data.dics /\ e \in data.dics /\ d # e /\ d.nam = e.nam
            BY <1>0, <3>2 DEF Dics
        <3>4. ~Alone(e.by)
            BY <3>3 DEF Told, TwinsOnlyFromOverlap
        <3>5. ~Alone(e.by)'
            BY <2>3, <3>3, <3>4, MoreMet DEF Told
        <3> QED BY <1>0, <3>2, <3>5
    <2>7. KnowsLeft(g)'
        BY <1>1, <2>3 DEF Knows, KnowsLeft
    <2>8. Knows(g)'
        BY <2>3, <2>4, <2>6, <2>7 DEF Knows, KnowsDtlNam, KnowsDic, KnowsSeq, DtlOps
    <2> QED BY <1>2, <2>2, <2>5, <2>8, GoTold DEF g
<1> QED BY <1>1, <1>3, <1>4

LEMMA FindDtlCodTold ==
    ASSUME Inv, Told, NEW r \in page.open, FindDtlCod(r)
    PROVE  Told'
<1>0. PICK found : found = DtlWith(r, r.f.cod, r.f.dtl)
    OBVIOUS
<1>1. r.at = "dtlCod" /\ IsForm(r.f) /\ IsAt(r) /\ Knows(r)
    BY DEF FindDtlCod, At, Told, PageInv
<1>2. r.f.op \in DtlOps
    BY <1>1 DEF IsAt, IsForm, DtlOps
<1>3. CASE r.f.op = "addDicDtl"
    <2>1. PICK ok \in BOOLEAN : ok = (found = {})
        OBVIOUS
    <2> DEFINE g == GoneOn(r, r, "dtlNam")
    <2>2. GoOrFail(r, ok, "dtlNam")
        BY <1>0, <1>3, <2>1, Zenon DEF FindDtlCod
    <2>3. Same(r, r)
        BY SameOfReq DEF Inv, Shapes, IsReq
    <2>4. g.nr = r.nr /\ g.f = r.f /\ g.at = "dtlNam" /\ g.dels = r.dels /\ Found(g)'
        BY <1>1, <1>2, <2>2, <2>3, GoHas
    <2> HIDE DEF g
    <2>5. IsAt(g)
        BY <1>1, <1>3, <2>4 DEF IsAt
    <2>6. Knows(g)'
        BY <1>3, <2>4 DEF Knows, KnowsNam, KnowsDtlNam, KnowsDic, KnowsLeft, KnowsSeq
    <2> QED BY <2>2, <2>3, <2>5, <2>6, GoTold DEF g
<1>4. CASE r.f.op = "editDicDtl"
    <2>1. PICK ok \in BOOLEAN : ok = (found # {})
        OBVIOUS
    <2> DEFINE n == [r EXCEPT !.was = IF r.was = {} THEN found ELSE r.was]
               g == GoneOn(r, n, "save")
    <2>2. GoOrFail(n, ok, "save")
        <3>1. r.f.op # "addDicDtl"
            BY <1>4
        <3> QED BY <1>0, <2>1, <3>1, Zenon DEF FindDtlCod
    <2>3. Same(n, r) /\ n.dels = r.dels
        BY SameOfReq DEF Inv, Shapes, IsReq
    <2> HIDE DEF n
    <2>4. /\ g.nr = r.nr /\ g.f = r.f /\ g.at = "save" /\ g.dels = r.dels /\ Found(g)'
          /\ FreeDtlNam(r) => FreeDtlNam(g)'
        BY <1>1, <1>2, <2>2, <2>3, GoHas
    <2> HIDE DEF g
    <2>5. IsAt(g)
        BY <1>1, <1>4, <2>4 DEF IsAt
    <2>6. FreeDtlNam(g)'
        BY <1>1, <1>4, <2>4 DEF Knows, KnowsDtlNam
    <2>7. Knows(g)'
        BY <1>4, <2>4, <2>6 DEF Knows, KnowsNam, KnowsDtlNam, KnowsDic, KnowsLeft, KnowsSeq, OfDic
    <2> QED BY <2>2, <2>3, <2>5, <2>7, GoTold DEF g
<1> QED BY <1>2, <1>3, <1>4 DEF DtlOps

LEMMA FindDtlNamTold ==
    ASSUME Inv, Told, NEW r \in page.open, FindDtlNam(r)
    PROVE  Told'
<1>0. PICK found, own : /\ found = {x \in Items(Dtls(r), r.f.cod) : x.nam = r.f.nam}
                        /\ own = {x \in found : x.cod = r.f.dtl}
    OBVIOUS
<1>1. r.at = "dtlNam" /\ IsForm(r.f) /\ IsAt(r) /\ Knows(r)
    BY DEF FindDtlNam, At, Told, PageInv
<1>2. r.f.op \in DtlOps /\ r.dels = {}
    BY <1>1 DEF IsAt, IsForm, DtlOps
<1>3. found = {x \in Items(data.dtls, r.f.cod) : x.nam = r.f.nam}
    BY <1>0, <1>2 DEF Dtls
<1>4. CASE r.f.op = "addDicDtl"
    <2>1. PICK ok \in BOOLEAN : ok = (found = {})
        OBVIOUS
    <2> DEFINE next == IF r.f.seq = NoNumber THEN "seq" ELSE "save"
               g == GoneOn(r, r, next)
    <2>2. GoOrFail(r, ok, next)
        BY <1>0, <1>4, <2>1, Zenon DEF FindDtlNam
    <2>3. Same(r, r)
        BY SameOfReq DEF Inv, Shapes, IsReq
    <2>4. /\ g.nr = r.nr /\ g.f = r.f /\ g.at = next /\ g.dels = r.dels /\ Found(g)'
          /\ FreeDtlNam(r) => FreeDtlNam(g)'
        BY <1>1, <1>2, <2>2, <2>3, GoHas
    <2> HIDE DEF g
    <2>5. IsAt(g)
        BY <1>1, <1>4, <2>4 DEF IsAt
    <2>6. ok => FreeDtlNam(g)'
        BY <1>3, <2>1, <2>4 DEF FreeDtlNam
    <2>7. ok => Knows(g)'
        BY <1>4, <2>4, <2>6 DEF Knows, KnowsNam, KnowsDtlNam, KnowsDic, KnowsLeft, KnowsSeq, OfDic
    <2> HIDE DEF next
    <2> QED BY <2>2, <2>3, <2>5, <2>7, GoTold DEF g
<1>5. CASE r.f.op = "editDicDtl"
    <2>1. \/ (found = {} \/ own # {}) /\ GoOrFail([r EXCEPT !.was = own], TRUE, "dtlCod")
          \/ Fail(r) /\ data' = data
        <3>1. r.f.op # "addDicDtl"
            BY <1>5
        <3> QED BY <1>0, <3>1, Zenon DEF FindDtlNam
    <2>2. CASE Fail(r) /\ data' = data
        BY <2>2, FailTells, TellsOn DEF Told
    <2>3. CASE (found = {} \/ own # {}) /\ GoOrFail([r EXCEPT !.was = own], TRUE, "dtlCod")
        <3> DEFINE n == [r EXCEPT !.was = own]
                   g == GoneOn(r, n, "dtlCod")
        <3>0. PICK ok \in BOOLEAN : ok = TRUE
            OBVIOUS
        <3>1. Same(n, r) /\ n.dels = r.dels
            BY SameOfReq DEF Inv, Shapes, IsReq
        <3>6. GoOrFail(n, ok, "dtlCod")
            BY <2>3, <3>0
        <3> HIDE DEF n
        <3>2. /\ g.nr = r.nr /\ g.f = r.f /\ g.at = "dtlCod" /\ g.dels = r.dels /\ Found(g)'
              /\ FreeDtlNam(r) => FreeDtlNam(g)'
            BY <1>1, <1>2, <3>1, <3>6, GoHas
        <3> HIDE DEF g
        <3>3. IsAt(g)
            BY <1>1, <1>5, <3>2 DEF IsAt
        <3>4. FreeDtlNam(r)
            <4> SUFFICES ASSUME NEW y \in Items(data.dtls, r.f.cod), y.nam = r.f.nam, y.cod # r.f.dtl
                         PROVE  /\ ~Alone(y.by)
                                /\ \E x \in Items(data.dtls, r.f.cod) : x.cod = r.f.dtl /\ x.nam = r.f.nam
                BY <1>5 DEF FreeDtlNam
            <4>1. PICK x \in own : TRUE
                BY <1>3, <2>3
            <4>2. /\ x \in Items(data.dtls, r.f.cod) /\ x.cod = r.f.dtl /\ x.nam = r.f.nam
                  /\ x \in data.dtls /\ y \in data.dtls /\ x.dic = y.dic /\ x.nam = y.nam /\ x # y
                BY <1>0, <1>3 DEF Items
            <4> QED BY <4>2 DEF Told, TwinsOnlyFromOverlap
        <3>5. Knows(g)'
            BY <1>5, <3>2, <3>4 DEF Knows, KnowsNam, KnowsDtlNam, KnowsDic, KnowsLeft, KnowsSeq, OfDic
        <3> QED BY <3>1, <3>3, <3>5, <3>6, GoTold DEF g
    <2> QED BY <2>1, <2>2, <2>3
<1> QED BY <1>2, <1>4, <1>5 DEF DtlOps

LEMMA FindSeqTold ==
    ASSUME Inv, Told, NEW r \in page.open, FindSeq(r)
    PROVE  Told'
<1>1. r.at = "seq" /\ IsForm(r.f) /\ IsAt(r) /\ Knows(r)
    BY DEF FindSeq, At, Told, PageInv
<1>2. r.f.op = "addDicDtl" /\ r.dels = {} /\ r.f.seq = NoNumber
    BY <1>1 DEF IsAt, IsForm
<1>3. PICK k : k = Number(Items(Dtls(r), r.f.cod))
    OBVIOUS
<1>4. k \in Nat /\ k = Number(Items(data.dtls, r.f.cod))
    <2> DEFINE I == Items(data.dtls, r.f.cod)
    <2>1. k = Number(I)
        BY <1>2, <1>3 DEF Dtls
    <2>2. IsFiniteSet(I) /\ (\A x \in I : x.seq \in Nat \cup {NoNumber}) /\ NoNumber \notin Nat
        BY FS_Subset DEF Told, RowsInv, Items, DtlRow, PageInv
    <2> HIDE DEF I
    <2>3. Number(I) \in Nat
        BY <2>2, NumberIs
    <2> QED BY <2>1, <2>3 DEF I
<1>5. PICK ok \in BOOLEAN : ok = TRUE
    OBVIOUS
<1> DEFINE n == [r EXCEPT !.was = {k}]
           g == GoneOn(r, n, "save")
<1>6. GoOrFail(n, ok, "save")
    BY <1>3, <1>5, Zenon DEF FindSeq
<1>7. Same(n, r) /\ n.dels = r.dels /\ n.was = {k}
    BY SameOfReq DEF Inv, Shapes, IsReq
<1> HIDE DEF n
<1>8. /\ g.nr = r.nr /\ g.f = r.f /\ g.at = "save" /\ g.dels = r.dels /\ g.was = {k} /\ Found(g)'
      /\ data' = data
      /\ FreeDtlNam(r) => FreeDtlNam(g)'
    BY <1>1, <1>2, <1>6, <1>7, GoHas DEF DtlOps
<1> HIDE DEF g
<1>9. IsAt(g)
    BY <1>1, <1>2, <1>8 DEF IsAt
<1>10. FreeDtlNam(g)'
    <2>1. FreeDtlNam(r)
        BY <1>1, <1>2 DEF Knows, KnowsDtlNam
    <2> QED BY <1>8, <2>1
<1>11. KnowsSeq(g)'
    <2>1. Number(Items(data.dtls, r.f.cod))' = Number(Items(data.dtls, r.f.cod))
        BY <1>8
    <2> QED BY <1>4, <1>8, <2>1 DEF KnowsSeq
<1>12. Knows(g)'
    BY <1>2, <1>8, <1>10, <1>11 DEF Knows, KnowsNam, KnowsDtlNam, KnowsDic, KnowsLeft, OfDic
<1> QED BY <1>6, <1>7, <1>9, <1>12, GoTold DEF g

LEMMA DropDicTold ==
    ASSUME Inv, Told, NEW r \in page.open, DropDic(r)
    PROVE  Told'
<1>1. r.at = "drop" /\ IsForm(r.f) /\ IsAt(r)
    BY DEF DropDic, At, Told, PageInv
<1>2. r.f.op = "delDic" \/ (r.f.op = "editDic" /\ r.f.old # r.f.cod)
    BY <1>1 DEF IsAt, IsForm
<1>3. PICK dels : dels = r.dels \cup {<<d.cod>> : d \in DicWith(r, r.f.old)}
    OBVIOUS
<1>4. \A k \in dels : k = <<r.f.old>> \/ \E i : k = <<r.f.old, i>>
    BY <1>1, <1>3 DEF IsAt, DicWith
<1>5. PICK ok \in BOOLEAN : ok = TRUE
    OBVIOUS
<1> DEFINE n == [r EXCEPT !.dels = dels]
           g == GoneOn(r, n, "dropDtls")
<1>6. GoOrFail(n, ok, "dropDtls")
    BY <1>3, <1>5, Zenon DEF DropDic
<1>7. Same(n, r) /\ n.dels = dels
    BY SameOfReq DEF Inv, Shapes, IsReq
<1> HIDE DEF n
<1>8. g.nr = r.nr /\ g.f = r.f /\ g.at = "dropDtls" /\ g.dels = dels
    BY <1>6, <1>7, GoHas
<1> HIDE DEF g
<1>9. IsAt(g)
    BY <1>1, <1>2, <1>4, <1>8 DEF IsAt
<1>10. Knows(g)'
    BY <1>2, <1>8 DEF Knows, KnowsNam, KnowsDtlNam, KnowsDic, KnowsLeft, KnowsSeq, DtlOps
<1> QED BY <1>6, <1>7, <1>9, <1>10, GoTold DEF g

-----------------------------------------------------------------------------
(* A transaction that ends.                                                  *)

OldDic(d) == \E e \in data.dics : e.cod = d.cod /\ e.nam = d.nam /\ e.by = d.by
OldDtl(x) == \E y \in data.dtls : y.dic = x.dic /\ y.cod = x.cod /\ y.nam = x.nam /\ y.by = x.by

\* A row that r names has a twin only if neither was alone; items that are left
\* have their dictionary, or came while it was dropped.
NamesDics == \A d, e \in data'.dics : d.nam = e.nam => OldDic(d) \/ d = e \/ (~Alone(d.by)' /\ ~Alone(e.by)')
NamesDtls ==
    \A x, y \in data'.dtls :
        x.dic = y.dic /\ x.nam = y.nam => OldDtl(x) \/ x = y \/ (~Alone(x.by)' /\ ~Alone(y.by)')
Leaves ==
    \A x \in data'.dtls :
        \/ \E d \in data'.dics : d.cod = x.dic
        \/ Overlapped(page.dropped[x.dic], x.by)'
        \/ /\ OldDtl(x) /\ page'.dropped[x.dic] = page.dropped[x.dic]
           /\ \A d \in data.dics : d.cod # x.dic

LEMMA CommitTold ==
    ASSUME Told, NEW r \in page.open, Meets(r), page'.open = Others(r), Brings(r), RowsInv',
           page'.dropped \in [DicCods -> Int],
           \A q \in page'.early : q \in page.early \/ (q = r.nr /\ ~Alone(r.nr)'),
           NamesDics, NamesDtls, Leaves
    PROVE  Told'
<1>1. /\ \A n \in Nrs : ~Alone(n) => ~Alone(n)'
      /\ \A m : \A n \in Nrs : Overlapped(m, n) => Overlapped(m, n)'
      /\ \A d \in data.dics : d.by \in Nrs
      /\ \A x \in data.dtls : x.by \in Nrs /\ x.dic \in DicCods
      /\ r.nr \in Nrs
    BY MoreMet DEF Told
<1>2. PageInv' /\ \A o \in page'.open : Knows(o)'
    <2>1. page'.early \subseteq Nrs
        BY <1>1 DEF Told, PageInv
    <2> QED BY <2>1, PageAfter DEF Told
<1>3. TwinsOnlyFromOverlap'
    <2>1. ASSUME NEW d \in data'.dics, NEW e \in data'.dics, d.nam = e.nam, d # e
          PROVE  ~Alone(d.by)' /\ ~Alone(e.by)'
        <3>1. CASE OldDic(d) /\ OldDic(e)
            <4>1. PICK a \in data.dics : a.cod = d.cod /\ a.nam = d.nam /\ a.by = d.by
                BY <3>1 DEF OldDic
            <4>2. PICK b \in data.dics : b.cod = e.cod /\ b.nam = e.nam /\ b.by = e.by
                BY <3>1 DEF OldDic
            <4>3. a # b /\ a.nam = b.nam
                BY <2>1, <4>1, <4>2 DEF RowsInv
            <4> QED BY <1>1, <4>1, <4>2, <4>3 DEF Told, TwinsOnlyFromOverlap
        <3> QED BY <2>1, <3>1 DEF NamesDics
    <2>2. ASSUME NEW x \in data'.dtls, NEW y \in data'.dtls, x.dic = y.dic, x.nam = y.nam, x # y
          PROVE  ~Alone(x.by)' /\ ~Alone(y.by)'
        <3>1. CASE OldDtl(x) /\ OldDtl(y)
            <4>1. PICK a \in data.dtls : a.dic = x.dic /\ a.cod = x.cod /\ a.nam = x.nam /\ a.by = x.by
                BY <3>1 DEF OldDtl
            <4>2. PICK b \in data.dtls : b.dic = y.dic /\ b.cod = y.cod /\ b.nam = y.nam /\ b.by = y.by
                BY <3>1 DEF OldDtl
            <4>3. a # b /\ a.nam = b.nam /\ a.dic = b.dic
                BY <2>2, <4>1, <4>2 DEF RowsInv
            <4> QED BY <1>1, <4>1, <4>2, <4>3 DEF Told, TwinsOnlyFromOverlap
        <3> QED BY <2>2, <3>1 DEF NamesDtls
    <2> QED BY <2>1, <2>2 DEF TwinsOnlyFromOverlap
<1>4. OrphanOnlyFromOverlap'
    <2> SUFFICES ASSUME NEW x \in data'.dtls, OldDtl(x), page'.dropped[x.dic] = page.dropped[x.dic],
                        \A d \in data.dics : d.cod # x.dic
                 PROVE  Overlapped(page.dropped[x.dic], x.by)'
        BY DEF OrphanOnlyFromOverlap, Leaves
    <2>1. PICK y \in data.dtls : y.dic = x.dic /\ y.by = x.by
        BY DEF OldDtl
    <2>2. Overlapped(page.dropped[x.dic], x.by) /\ x.by \in Nrs
        BY <1>1, <2>1 DEF Told, OrphanOnlyFromOverlap
    <2> QED BY <2>2 DEF Meets, Overlapped
<1>5. NumberedLast'
    BY <1>1 DEF Told, NumberedLast, PageInv, Alone
<1> QED BY <1>2, <1>3, <1>4, <1>5 DEF Told

\* What a request deletes, and that it is none of the dictionary of the program.
LEMMA Deletes ==
    ASSUME NEW r, NEW dels, r.f.old # Base,
           \A k \in dels : k = <<r.f.old>> \/ \E i : k = <<r.f.old, i>>
    PROVE  /\ \A c : <<c>> \in dels => c = r.f.old
           /\ \A c, i : <<c, i>> \in dels => c = r.f.old
           /\ <<Base>> \notin dels /\ \A i : <<Base, i>> \notin dels
<1>1. \A a, b, i : <<a>> # <<b, i>>
    OBVIOUS
<1>2. \A a, b : <<a>> = <<b>> => a = b
    OBVIOUS
<1>3. \A a, b, i, j : <<a, i>> = <<b, j>> => a = b
    OBVIOUS
<1>4. ASSUME NEW c, <<c>> \in dels PROVE c = r.f.old
    BY <1>1, <1>2, <1>4
<1>5. ASSUME NEW c, NEW i, <<c, i>> \in dels PROVE c = r.f.old
    BY <1>1, <1>3, <1>5
<1> QED BY <1>4, <1>5

LEMMA DropDtlsTold ==
    ASSUME Inv, Told, NEW r \in page.open, DropDtls(r)
    PROVE  Told'
<1>1. r.at = "dropDtls" /\ IsForm(r.f) /\ IsAt(r) /\ Knows(r)
    BY DEF DropDtls, At, Told, PageInv
<1>2. r.f.op = "delDic" \/ (r.f.op = "editDic" /\ r.f.old # r.f.cod)
    BY <1>1 DEF IsAt, IsForm
<1>3. PICK dels : dels = r.dels \cup {<<x.dic, x.cod>> : x \in Items(Dtls(r), r.f.old)}
    OBVIOUS
<1>4. /\ \A k \in dels : k = <<r.f.old>> \/ \E i : k = <<r.f.old, i>>
      /\ \A x \in data.dtls : x.dic = r.f.old => <<x.dic, x.cod>> \in dels
    BY <1>1, <1>3 DEF IsAt, Items, Dtls
<1> DEFINE n == [r EXCEPT !.dels = dels]
<1>5. IF r.f.op = "editDic" THEN GoOrFail(n, TRUE, "nam") ELSE Commit(n, Dics(n), Dtls(n))
    BY <1>3, Zenon DEF DropDtls, DropDtlsOf
<1>6. Same(n, r) /\ n.dels = dels
    BY SameOfReq DEF Inv, Shapes, IsReq
<1> HIDE DEF n
<1>7. CASE r.f.op = "editDic"
    <2>1. PICK ok \in BOOLEAN : ok = TRUE
        OBVIOUS
    <2> DEFINE g == GoneOn(r, n, "nam")
    <2>2. GoOrFail(n, ok, "nam")
        BY <1>5, <1>7, <2>1
    <2>3. g.nr = r.nr /\ g.f = r.f /\ g.at = "nam" /\ g.dels = dels /\ data' = data
        BY <1>6, <2>2, GoHas
    <2> HIDE DEF g
    <2>4. IsAt(g)
        BY <1>1, <1>2, <1>4, <1>7, <2>3 DEF IsAt
    <2>5. Cleared(g)'
        BY <1>4, <2>3 DEF Cleared
    <2>6. Knows(g)'
        BY <1>7, <2>3, <2>5 DEF Knows, KnowsNam, KnowsDtlNam, KnowsDic, KnowsLeft, KnowsSeq, DtlOps
    <2> QED BY <1>6, <2>2, <2>4, <2>6, GoTold DEF g
<1>8. CASE r.f.op = "delDic"
    <2>0. PICK dics, dtls : dics = Dics(n) /\ dtls = Dtls(n)
        OBVIOUS
    <2>1. Commit(n, dics, dtls)
        BY <1>5, <1>8, <2>0
    <2>2. /\ data'.dics = dics /\ data'.dtls = dtls /\ Meets(r) /\ page'.open = Others(r)
          /\ page'.dropped = [c \in DicCods |-> IF <<c>> \in n.dels THEN r.nr ELSE page.dropped[c]]
          /\ page'.early = IF Early(n, dtls) THEN page.early \cup {r.nr} ELSE page.early
        BY <1>6, <2>1, CommitTells DEF Told
    <2>3. page'.early = page.early
        BY <1>6, <1>8, <2>2 DEF Early, Same
    <2>4. /\ data'.dics = {d \in data.dics : <<d.cod>> \notin dels}
          /\ data'.dtls = {x \in data.dtls : <<x.dic, x.cod>> \notin dels}
        BY <1>6, <2>0, <2>2 DEF Dics, Dtls
    <2>5. /\ \A c : <<c>> \in dels => c = r.f.old
          /\ <<Base>> \notin dels /\ \A i : <<Base, i>> \notin dels
        <3>1. r.f.old # Base
            BY <1>1, <1>8 DEF IsForm
        <3> QED BY <1>4, <3>1, Deletes
    <2>6. /\ page'.dropped \in [DicCods -> Int] /\ r.nr \in Int
          /\ \A c \in DicCods : page'.dropped[c] = IF <<c>> \in dels THEN r.nr ELSE page.dropped[c]
        BY <1>6, <2>2 DEF Told, PageInv
    <2>7. RowsInv'
        BY <2>4, <2>5, FS_Subset DEF Told, RowsInv, Items
    <2>8. Brings(r)
        BY <2>4, <2>6 DEF Brings
    <2>9. NamesDics /\ NamesDtls
        BY <2>4 DEF NamesDics, NamesDtls, OldDic, OldDtl
    <2>10. Leaves
        <3> SUFFICES ASSUME NEW x \in data'.dtls, \A d \in data'.dics : d.cod # x.dic
                     PROVE  /\ OldDtl(x) /\ page'.dropped[x.dic] = page.dropped[x.dic]
                            /\ \A d \in data.dics : d.cod # x.dic
            BY DEF Leaves
        <3>1. x \in data.dtls /\ x.dic \in DicCods
            BY <2>4 DEF Told, RowsInv, DtlRow
        <3>2. <<x.dic>> \notin dels
            BY <1>4, <2>4, <2>5, <3>1
        <3> QED BY <2>4, <2>6, <3>1, <3>2 DEF OldDtl
    <2> QED BY <2>2, <2>3, <2>6, <2>7, <2>8, <2>9, <2>10, CommitTold
<1> QED BY <1>2, <1>7, <1>8

LEMMA DropDtlTold ==
    ASSUME Inv, Told, NEW r \in page.open, DropDtl(r)
    PROVE  Told'
<1>1. r.at = "dropDtl" /\ IsForm(r.f) /\ IsAt(r)
    BY DEF DropDtl, At, Told, PageInv
<1>2. r.f.op = "delDicDtl" /\ r.dels = {} /\ r.f.cod # Base
    BY <1>1 DEF IsAt, IsForm
<1>3. PICK dtls : dtls = data.dtls \ DtlWith(r, r.f.cod, r.f.dtl)
    OBVIOUS
<1>4. Same(r, r) /\ Commit(r, data.dics, dtls)
    BY <1>3, SameOfReq, Zenon DEF DropDtl, Inv, Shapes, IsReq
<1>5. /\ data'.dics = data.dics /\ data'.dtls = dtls /\ Meets(r) /\ page'.open = Others(r)
      /\ page'.dropped = [c \in DicCods |-> IF <<c>> \in r.dels THEN r.nr ELSE page.dropped[c]]
      /\ page'.early = IF Early(r, dtls) THEN page.early \cup {r.nr} ELSE page.early
    BY <1>4, CommitTells DEF Told
<1>6. page'.early = page.early /\ page'.dropped = page.dropped /\ page'.dropped \in [DicCods -> Int]
    BY <1>2, <1>5 DEF Early, Told, PageInv
<1>7. dtls \subseteq data.dtls /\ Items(dtls, Base) = Items(data.dtls, Base)
    BY <1>2, <1>3 DEF DtlWith, Items
<1>8. RowsInv'
    <2>1. IsFiniteSet(dtls)
        BY <1>7, FS_Subset DEF Told, RowsInv
    <2>2. Items(data'.dtls, Base) = Items(SeededDtls, Base)
        BY <1>5, <1>7 DEF Told, RowsInv
    <2> QED BY <1>5, <1>7, <2>1, <2>2 DEF Told, RowsInv, Items
<1>9. Brings(r)
    BY <1>5, <1>6, <1>7 DEF Brings
<1>10. NamesDics /\ NamesDtls
    BY <1>5, <1>7 DEF NamesDics, NamesDtls, OldDic, OldDtl
<1>11. Leaves
    BY <1>5, <1>6, <1>7 DEF Leaves, OldDtl
<1> QED BY <1>5, <1>6, <1>8, <1>9, <1>10, <1>11, CommitTold

\* A dictionary that gets a key that is free.
LEMMA NewDicTold ==
    ASSUME Inv, Told, NEW r \in page.open, r.at = "save", OfDic(r.f), r.f.old # r.f.cod,
           DicWith(r, r.f.cod) = {},
           NEW new, new = [cod |-> r.f.cod, nam |-> r.f.nam, base |-> FALSE, by |-> r.nr],
           Commit(r, Dics(r) \cup {new}, Dtls(r))
    PROVE  Told'
<1>1. IsForm(r.f) /\ IsAt(r) /\ Knows(r)
    BY DEF Told, PageInv
<1>2. r.f.op \in {"addDic", "editDic"} /\ r.f.cod \in DicCods /\ r.f.nam \in DicNams
    BY <1>1 DEF OfDic, IsForm
<1>3. PICK dics, dtls, dels : dics = Dics(r) \cup {new} /\ dtls = Dtls(r) /\ dels = r.dels
    OBVIOUS
<1>4. Same(r, r)
    BY SameOfReq DEF Inv, Shapes, IsReq
<1>5. /\ data'.dics = dics /\ data'.dtls = dtls /\ Meets(r) /\ page'.open = Others(r)
      /\ page'.dropped = [c \in DicCods |-> IF <<c>> \in r.dels THEN r.nr ELSE page.dropped[c]]
      /\ page'.early = IF Early(r, dtls) THEN page.early \cup {r.nr} ELSE page.early
    <2>1. Commit(r, dics, dtls)
        BY <1>3
    <2> QED BY <1>4, <2>1, CommitTells DEF Told
<1>6. page'.early = page.early
    BY <1>2, <1>5 DEF Early
<1>7. /\ data'.dics = {d \in data.dics : <<d.cod>> \notin dels} \cup {new}
      /\ data'.dtls = {x \in data.dtls : <<x.dic, x.cod>> \notin dels}
    BY <1>3, <1>5 DEF Dics, Dtls
<1>8. /\ \A c : <<c>> \in dels => c = r.f.old /\ r.f.op = "editDic"
      /\ <<Base>> \notin dels /\ \A i : <<Base, i>> \notin dels
    <2>1. CASE r.f.op = "editDic"
        <3>1. r.f.old # Base /\ \A k \in dels : k = <<r.f.old>> \/ \E i : k = <<r.f.old, i>>
            BY <1>1, <1>3, <2>1 DEF IsForm, IsAt
        <3> QED BY <2>1, <3>1, Deletes
    <2>2. CASE r.f.op = "addDic"
        BY <1>1, <1>3, <2>2 DEF IsAt
    <2> QED BY <1>2, <2>1, <2>2
<1>9. /\ page'.dropped \in [DicCods -> Int] /\ r.nr \in Nrs
      /\ \A c \in DicCods : page'.dropped[c] = IF <<c>> \in dels THEN r.nr ELSE page.dropped[c]
    BY <1>3, <1>5 DEF Told, PageInv, Nrs
<1>10. \A d \in data'.dics : d # new => d.cod # r.f.cod /\ d \in data.dics /\ d \in Dics(r)
    BY <1>3, <1>7 DEF DicWith, Dics
<1>11. PICK b \in data.dics : b.cod = Base /\ b.by = 0
    BY DEF Told, RowsInv
<1>12. b \in Dics(r) /\ b \in data'.dics /\ r.f.cod # Base
    BY <1>3, <1>7, <1>8, <1>11 DEF DicWith, Dics
<1>13. RowsInv'
    <2>1. new \in DicRow
        BY <1>2, <1>9 DEF DicRow, Nrs
    <2>2. /\ data'.dtls \subseteq data.dtls /\ IsFiniteSet(data'.dtls)
          /\ Items(data'.dtls, Base) = Items(SeededDtls, Base)
        BY <1>7, <1>8, FS_Subset DEF Told, RowsInv, Items
    <2>3. /\ \A x, y \in data'.dtls : x.dic = y.dic /\ x.cod = y.cod => x = y
          /\ data'.dtls \subseteq DtlRow
        BY <2>2 DEF Told, RowsInv
    <2>4. \A d \in data'.dics : d = new \/ (d \in data.dics /\ d.cod # new.cod)
        BY <1>10
    <2>5. new.base = FALSE /\ new.cod # Base
        BY <1>12
    <2>6. /\ data'.dics \subseteq DicRow
          /\ \A d, e \in data'.dics : d.cod = e.cod => d = e
          /\ \A d \in data'.dics : d.base <=> d.cod = Base
        BY <2>1, <2>4, <2>5 DEF Told, RowsInv
    <2> QED BY <1>11, <1>12, <2>2, <2>3, <2>6 DEF RowsInv
<1>14. Brings(r)
    <2>1. \A d \in data'.dics : d.by = r.nr \/ d \in data.dics
        BY <1>7
    <2>2. \A x \in data'.dtls : x \in data.dtls
        BY <1>7
    <2>3. \A c \in DicCods : <<c>> \in dels \/ ((\E d \in data.dics : d.cod = c) => \E d \in data'.dics : d.cod = c)
        BY <1>7
    <2> QED BY <1>9, <2>1, <2>2, <2>3 DEF Brings
<1>15. /\ \A n \in Nrs : ~Alone(n) => ~Alone(n)'
       /\ \A m : \A n \in Nrs : Overlapped(m, n) => Overlapped(m, n)'
       /\ \A d \in data.dics : d.by \in Nrs
       /\ \A x \in data.dtls : x.by \in Nrs /\ x.dic \in DicCods
    BY <1>5, MoreMet DEF Told
<1>16. NamesDics
    <2> SUFFICES ASSUME NEW d \in data'.dics, NEW e \in data'.dics, d.nam = e.nam, d # e, ~OldDic(d)
                 PROVE  ~Alone(d.by)' /\ ~Alone(e.by)'
        BY DEF NamesDics
    <2>1. d = new
        BY <1>10 DEF OldDic
    <2>2. e \in Dics(r) /\ e \in data.dics /\ e.nam = r.f.nam /\ e.cod # r.f.cod /\ new.by = r.nr
        BY <1>10, <2>1
    <2>3. ~Alone(e.by) /\ ~Alone(r.nr)
        BY <1>1, <2>2 DEF Knows, KnowsNam
    <2> QED BY <1>9, <1>15, <2>1, <2>2, <2>3
<1>17. NamesDtls
    BY <1>7 DEF NamesDtls, OldDtl
<1>18. Leaves
    <2> SUFFICES ASSUME NEW x \in data'.dtls, \A d \in data'.dics : d.cod # x.dic
                 PROVE  \/ Overlapped(page.dropped[x.dic], x.by)'
                        \/ /\ OldDtl(x) /\ page'.dropped[x.dic] = page.dropped[x.dic]
                           /\ \A d \in data.dics : d.cod # x.dic
        BY DEF Leaves
    <2>1. x \in data.dtls /\ <<x.dic, x.cod>> \notin dels /\ x.dic \in DicCods
        BY <1>7, <1>15
    <2>2. CASE <<x.dic>> \in dels
        <3>1. x.dic = r.f.old /\ r.f.op = "editDic"
            BY <1>8, <2>2
        <3>2. Overlapped(r.nr, x.by)
            BY <1>1, <1>3, <2>1, <3>1 DEF Knows, KnowsLeft, Cleared
        <3>3. page'.dropped[x.dic] = r.nr
            BY <1>9, <2>1, <2>2
        <3> QED BY <1>15, <2>1, <3>2, <3>3 DEF Overlapped
    <2>3. CASE <<x.dic>> \notin dels
        BY <1>7, <1>9, <2>1, <2>3 DEF OldDtl
    <2> QED BY <2>2, <2>3
<1> QED BY <1>5, <1>6, <1>9, <1>13, <1>14, <1>16, <1>17, <1>18, CommitTold

\* A request that commits what is there.
LEMMA SameTold ==
    ASSUME Inv, Told, NEW r \in page.open, r.dels = {}, Commit(r, data.dics, data.dtls), r.f.op # "addDicDtl"
    PROVE  Told'
<1>1. Same(r, r)
    BY SameOfReq DEF Inv, Shapes, IsReq
<1>2. PICK dics, dtls : dics = data.dics /\ dtls = data.dtls
    OBVIOUS
<1>3. /\ data'.dics = dics /\ data'.dtls = dtls /\ Meets(r) /\ page'.open = Others(r)
      /\ page'.dropped = [c \in DicCods |-> IF <<c>> \in r.dels THEN r.nr ELSE page.dropped[c]]
      /\ page'.early = IF Early(r, dtls) THEN page.early \cup {r.nr} ELSE page.early
    <2>1. Commit(r, dics, dtls)
        BY <1>2
    <2> QED BY <1>1, <2>1, CommitTells DEF Told
<1>4. page'.early = page.early
    BY <1>3 DEF Early
<1>5. page'.dropped = page.dropped
    BY <1>3 DEF Told, PageInv
<1> QED BY <1>2, <1>3, <1>4, <1>5, TellsOn

\* A dictionary that keeps its code gets another name.
LEMMA RenameTold ==
    ASSUME Inv, Told, NEW r \in page.open, r.at = "save", OfDic(r.f), r.f.old = r.f.cod,
           NEW there, there = DicWith(r, r.f.cod), there # {},
           Commit(r, (data.dics \ there) \cup {Named(d, r) : d \in there}, data.dtls)
    PROVE  Told'
<1>1. IsForm(r.f) /\ IsAt(r) /\ Knows(r)
    BY DEF Told, PageInv
<1>2. /\ r.f.op = "editDic" /\ r.f.cod \in DicCods \ {Base} /\ r.f.nam \in DicNams /\ r.dels = {}
      /\ r.f.op # "addDicDtl" /\ Dics(r) = data.dics
    BY <1>1 DEF OfDic, IsForm, IsAt, Told, PageInv, Dics
<1>3. PICK x \in data.dics : x.cod = r.f.cod /\ there = {x}
    <2>1. \A d, e \in data.dics : d.cod = e.cod => d = e
        BY DEF Told, RowsInv
    <2> QED BY <1>2, <2>1 DEF DicWith
<1>4. x \in DicRow /\ r.nr \in Nrs
    BY DEF Told, RowsInv, PageInv, Nrs
<1>5. PICK new \in DicRow : /\ new = Named(x, r) /\ new.cod = x.cod /\ new.base = x.base /\ new.nam = r.f.nam
                            /\ new.by = IF x.nam = r.f.nam THEN x.by ELSE r.nr
    <2> DEFINE n == r.f.nam
               b == IF x.nam = n THEN x.by ELSE r.nr
               new == [x EXCEPT !.nam = n, !.by = b]
    <2>1. n \in DicNams /\ b \in 0 .. MaxAsked
        BY <1>2, <1>4 DEF DicRow, Nrs
    <2>2. new = Named(x, r)
        BY Zenon DEF Named
    <2> HIDE DEF n, b
    <2>3. new \in DicRow /\ new.cod = x.cod /\ new.base = x.base /\ new.nam = n /\ new.by = b
        BY <1>4, <2>1 DEF DicRow
    <2> HIDE DEF new
    <2> QED BY <2>2, <2>3 DEF n, b
<1>6. PICK dics, dtls : dics = (data.dics \ {x}) \cup {new} /\ dtls = data.dtls
    OBVIOUS
<1>7. Commit(r, dics, dtls)
    <2>1. {Named(d, r) : d \in there} = {new}
        BY <1>3, <1>5
    <2> QED BY <1>3, <1>6, <2>1
<1>8. /\ data'.dics = dics /\ data'.dtls = dtls /\ Meets(r) /\ page'.open = Others(r)
      /\ page'.dropped = [c \in DicCods |-> IF <<c>> \in r.dels THEN r.nr ELSE page.dropped[c]]
      /\ page'.early = IF Early(r, dtls) THEN page.early \cup {r.nr} ELSE page.early
    <2>1. Same(r, r)
        BY SameOfReq DEF Inv, Shapes, IsReq
    <2> QED BY <1>7, <2>1, CommitTells DEF Told
<1>9. page'.early = page.early
    BY <1>2, <1>8 DEF Early
<1>10. page'.dropped = page.dropped /\ page'.dropped \in [DicCods -> Int]
    BY <1>2, <1>8 DEF Told, PageInv
<1>11. /\ \A d \in data'.dics : d = new \/ (d \in data.dics /\ d.cod # new.cod)
       /\ \A d \in data.dics : d = x \/ d \in data'.dics
       /\ new \in data'.dics /\ data'.dtls = data.dtls
    BY <1>3, <1>5, <1>6, <1>8 DEF Told, RowsInv
<1>12. RowsInv'
    <2>1. new.base <=> new.cod = Base
        BY <1>5 DEF Told, RowsInv
    <2>2. /\ data'.dics \subseteq DicRow
          /\ \A d, e \in data'.dics : d.cod = e.cod => d = e
          /\ \A d \in data'.dics : d.base <=> d.cod = Base
        BY <1>11, <2>1 DEF Told, RowsInv
    <2>3. \E d \in data'.dics : d.cod = Base /\ d.by = 0
        BY <1>2, <1>3, <1>11 DEF Told, RowsInv
    <2> QED BY <1>11, <2>2, <2>3 DEF Told, RowsInv, Items
<1>13. new.by = r.nr \/ (new.nam = x.nam /\ new.by = x.by)
    BY <1>5
<1>14. Brings(r)
    <2>1. \A d \in data'.dics : d.by = r.nr \/ \E e \in data.dics : e.cod = d.cod /\ e.nam = d.nam /\ e.by = d.by
        BY <1>5, <1>11, <1>13
    <2>2. \A c : (\E d \in data.dics : d.cod = c) => \E d \in data'.dics : d.cod = c
        BY <1>5, <1>11
    <2> QED BY <1>10, <1>11, <2>1, <2>2 DEF Brings
<1>15. /\ \A n \in Nrs : ~Alone(n) => ~Alone(n)'
       /\ \A d \in data.dics : d.by \in Nrs
    BY <1>8, MoreMet DEF Told
<1>16. NamesDics
    <2> SUFFICES ASSUME NEW d \in data'.dics, NEW e \in data'.dics, d.nam = e.nam, d # e, ~OldDic(d)
                 PROVE  ~Alone(d.by)' /\ ~Alone(e.by)'
        BY DEF NamesDics
    <2>1. d = new
        BY <1>11 DEF OldDic
    <2>2. x.nam # r.f.nam /\ new.by = r.nr
        BY <1>5, <2>1 DEF OldDic
    <2>3. e \in Dics(r) /\ e \in data.dics /\ e.nam = r.f.nam /\ e.cod # r.f.cod
        BY <1>2, <1>3, <1>5, <1>11, <2>1
    <2>4. ~(\E y \in Dics(r) : y.cod = r.f.cod /\ y.nam = r.f.nam)
        BY <1>2, <1>3, <2>2 DEF Told, RowsInv
    <2>5. ~Alone(e.by) /\ ~Alone(r.nr)
        BY <1>1, <2>3, <2>4 DEF Knows, KnowsNam
    <2> QED BY <1>4, <1>15, <2>1, <2>2, <2>3, <2>5
<1>17. NamesDtls
    BY <1>11 DEF NamesDtls, OldDtl
<1>18. Leaves
    <2>1. \A c : (\E d \in data.dics : d.cod = c) => \E d \in data'.dics : d.cod = c
        BY <1>5, <1>11
    <2>2. \A y \in data'.dtls : OldDtl(y)
        BY <1>11 DEF OldDtl
    <2> QED BY <1>10, <2>1, <2>2 DEF Leaves
<1> QED BY <1>8, <1>9, <1>10, <1>12, <1>14, <1>16, <1>17, <1>18, CommitTold

LEMMA SaveDicTold ==
    ASSUME Inv, Told, NEW r \in page.open, r.at = "save", OfDic(r.f), SaveDic(r)
    PROVE  Told'
<1>1. IsForm(r.f) /\ IsAt(r)
    BY DEF Told, PageInv
<1>2. PICK there, new : /\ there = DicWith(r, r.f.cod)
                        /\ new = [cod |-> r.f.cod, nam |-> r.f.nam, base |-> FALSE, by |-> r.nr]
    OBVIOUS
<1>3. \/ r.f.old # r.f.cod /\ there = {} /\ Commit(r, Dics(r) \cup {new}, Dtls(r))
      \/ r.f.old = r.f.cod /\ Commit(r, data.dics, data.dtls)
      \/ r.f.old = r.f.cod /\ there # {} /\ Commit(r, (data.dics \ there) \cup {Named(d, r) : d \in there}, data.dtls)
      \/ Fail(r) /\ data' = data
    BY <1>2, Zenon DEF SaveDic
<1>4. CASE r.f.old # r.f.cod /\ there = {} /\ Commit(r, Dics(r) \cup {new}, Dtls(r))
    BY <1>2, <1>4, NewDicTold
<1>5. CASE r.f.old = r.f.cod /\ Commit(r, data.dics, data.dtls)
    <2>1. r.dels = {} /\ r.f.op # "addDicDtl"
        BY <1>1, <1>5 DEF OfDic, IsForm, IsAt, Told, PageInv
    <2> QED BY <1>5, <2>1, SameTold
<1>6. CASE r.f.old = r.f.cod /\ there # {} /\ Commit(r, (data.dics \ there) \cup {Named(d, r) : d \in there}, data.dtls)
    BY <1>2, <1>6, RenameTold
<1>7. CASE Fail(r) /\ data' = data
    BY <1>7, FailTells, TellsOn DEF Told
<1> QED BY <1>3, <1>4, <1>5, <1>6, <1>7

\* An item that is new, or put in place of the one with its key.
LEMMA PutDtlTold ==
    ASSUME Inv, Told, NEW r \in page.open, r.at = "save", r.f.op \in DtlOps,
           NEW there, there = DtlWith(r, r.f.cod, r.f.dtl), r.f.op = "addDicDtl" => there = {},
           NEW new \in DtlRow, new.dic = r.f.cod, new.cod = r.f.dtl, new.nam = r.f.nam,
           \/ new.by = r.nr /\ \A x \in there : x.nam # new.nam
           \/ \E x \in there : new.nam = x.nam /\ new.by = x.by,
           r.f.op = "addDicDtl" /\ r.f.seq = NoNumber => r.was = {new.seq},
           Commit(r, data.dics, (data.dtls \ there) \cup {new})
    PROVE  Told'
<1>1. IsForm(r.f) /\ IsAt(r) /\ Knows(r)
    BY DEF Told, PageInv
<1>2. r.f.cod \in DicCods \ {Base} /\ r.f.dtl \in DtlCods /\ r.f.nam \in DtlNams /\ r.dels = {}
    BY <1>1 DEF DtlOps, IsForm, IsAt
<1>3. there = {x \in data.dtls : x.dic = new.dic /\ x.cod = new.cod}
    BY <1>2 DEF DtlWith, Dtls, Items
<1>4. r.nr \in Nrs
    BY DEF Told, PageInv, Nrs
<1>5. PICK dics, dtls : dics = data.dics /\ dtls = (data.dtls \ there) \cup {new}
    OBVIOUS
<1>6. /\ data'.dics = dics /\ data'.dtls = dtls /\ Meets(r) /\ page'.open = Others(r)
      /\ page'.dropped = [c \in DicCods |-> IF <<c>> \in r.dels THEN r.nr ELSE page.dropped[c]]
      /\ page'.early = IF Early(r, dtls) THEN page.early \cup {r.nr} ELSE page.early
    <2>1. Same(r, r) /\ Commit(r, dics, dtls)
        BY <1>5, SameOfReq DEF Inv, Shapes, IsReq
    <2> QED BY <2>1, CommitTells DEF Told
<1>7. page'.dropped = page.dropped /\ page'.dropped \in [DicCods -> Int]
    BY <1>2, <1>6 DEF Told, PageInv
<1>8. /\ data'.dics = data.dics /\ data'.dtls = dtls /\ new \in dtls
      /\ \A x \in dtls : x = new \/ (x \in data.dtls /\ ~(x.dic = new.dic /\ x.cod = new.cod))
    BY <1>3, <1>5, <1>6
<1>9. RowsInv'
    <2>1. IsFiniteSet(dtls)
        <3>1. IsFiniteSet(data.dtls \ there)
            BY FS_Subset DEF Told, RowsInv
        <3> QED BY <1>5, <3>1, FS_AddElement
    <2>2. /\ dtls \subseteq DtlRow
          /\ \A x, y \in dtls : x.dic = y.dic /\ x.cod = y.cod => x = y
        BY <1>8 DEF Told, RowsInv
    <2>3. Items(dtls, Base) = Items(data.dtls, Base)
        BY <1>2, <1>3, <1>5 DEF Items
    <2> QED BY <1>8, <2>1, <2>2, <2>3 DEF Told, RowsInv
<1>10. OldDtl(new) \/ (new.by = r.nr /\ \A x \in there : x.nam # new.nam)
    BY <1>3 DEF OldDtl
<1>11. \A x \in dtls : x # new => OldDtl(x) /\ x \in data.dtls
    BY <1>8 DEF OldDtl
<1>12. Brings(r)
    BY <1>7, <1>8, <1>10, <1>11 DEF Brings, OldDtl
<1>13. /\ \A n \in Nrs : ~Alone(n) => ~Alone(n)'
       /\ \A m : \A n \in Nrs : Overlapped(m, n) => Overlapped(m, n)'
       /\ \A x \in data.dtls : x.by \in Nrs /\ x.dic \in DicCods
    BY <1>6, MoreMet DEF Told
<1>14. NamesDics
    BY <1>8 DEF NamesDics, OldDic
<1>15. NamesDtls
    <2> SUFFICES ASSUME NEW x \in dtls, NEW y \in dtls, x.dic = y.dic, x.nam = y.nam, x # y, ~OldDtl(x)
                 PROVE  ~Alone(x.by)' /\ ~Alone(y.by)'
        BY <1>8 DEF NamesDtls
    <2>1. x = new /\ new.by = r.nr /\ \A z \in there : z.nam # new.nam
        BY <1>10, <1>11
    <2>2. y \in data.dtls /\ y \in Items(data.dtls, r.f.cod) /\ y.nam = r.f.nam /\ y.cod # r.f.dtl
        BY <1>8, <2>1 DEF Items
    <2>3. ~(\E z \in Items(data.dtls, r.f.cod) : z.cod = r.f.dtl /\ z.nam = r.f.nam)
        BY <1>3, <2>1 DEF Items
    <2>4. FreeDtlNam(r)
        BY <1>1 DEF Knows, KnowsDtlNam, DtlOps
    <2>5. ~Alone(y.by) /\ ~Alone(r.nr)
        BY <2>2, <2>3, <2>4 DEF FreeDtlNam
    <2> QED BY <1>4, <1>13, <2>1, <2>2, <2>5
<1>16. Leaves
    <2> SUFFICES ASSUME NEW x \in dtls, \A d \in data.dics : d.cod # x.dic
                 PROVE  OldDtl(x) \/ Overlapped(page.dropped[x.dic], x.by)'
        BY <1>7, <1>8 DEF Leaves
    <2> SUFFICES ASSUME ~OldDtl(x) PROVE Overlapped(page.dropped[x.dic], x.by)'
        OBVIOUS
    <2>1. x = new /\ x.by = r.nr /\ x.dic = r.f.cod
        BY <1>10, <1>11
    <2>2. Overlapped(page.dropped[r.f.cod], r.nr)
        BY <1>1, <2>1 DEF Knows, KnowsDic, Found
    <2> QED BY <1>4, <1>7, <1>13, <2>1, <2>2 DEF Overlapped
<1>17. ASSUME Early(r, dtls) PROVE ~Alone(r.nr)
    <2>1. r.f.op = "addDicDtl" /\ r.f.seq = NoNumber /\ there = {}
        BY <1>17 DEF Early
    <2>2. PICK x, y \in Items(dtls, r.f.cod) :
            x.cod = r.f.dtl /\ y # x /\ y.seq # NoNumber /\ y.seq >= x.seq
        BY <1>17 DEF Early
    <2>3. x = new /\ y \in Items(data.dtls, r.f.cod)
        BY <1>8, <2>2 DEF Items
    <2>4. PICK k \in Nat : r.was = {k} /\ (~Alone(r.nr) \/ k = Number(Items(data.dtls, r.f.cod)))
        BY <1>1, <2>1 DEF Knows, KnowsSeq
    <2>5. k = x.seq
        BY <2>1, <2>3, <2>4
    <2> DEFINE I == Items(data.dtls, r.f.cod)
    <2>6. \A z \in I : z.seq # NoNumber /\ z.seq \in Nat \cup {NoNumber}
        <3>1. \A z \in I : z \in dtls /\ z.dic = r.f.cod /\ z \in DtlRow
            BY <1>5, <2>1 DEF Items, Told, RowsInv
        <3>2. \A z \in Items(dtls, r.f.cod) : z.seq # NoNumber
            BY <1>17 DEF Early
        <3> QED BY <3>1, <3>2 DEF Items, DtlRow
    <2>7. IsFiniteSet(I) /\ NoNumber \notin Nat
        BY FS_Subset DEF Items, Told, RowsInv, PageInv
    <2> HIDE DEF I
    <2>8. Number(I) \in Nat /\ \A z \in I : z.seq < Number(I)
        BY <2>6, <2>7, NumberIs
    <2>9. y \in I /\ y.seq \in Nat
        BY <2>3, <2>6 DEF I
    <2>10. k # Number(I)
        BY <2>2, <2>4, <2>5, <2>8, <2>9
    <2> QED BY <2>4, <2>10 DEF I
<1>18. \A q \in page'.early : q \in page.early \/ (q = r.nr /\ ~Alone(r.nr)')
    BY <1>4, <1>6, <1>13, <1>17
<1> QED BY <1>6, <1>7, <1>9, <1>12, <1>14, <1>15, <1>16, <1>18, CommitTold

LEMMA SaveDtlTold ==
    ASSUME Inv, Told, NEW r \in page.open, r.at = "save", r.f.op \in DtlOps, SaveDtl(r)
    PROVE  Told'
<1>1. IsForm(r.f) /\ IsAt(r) /\ Knows(r)
    BY DEF Told, PageInv
<1>2. /\ r.f.cod \in DicCods /\ r.f.dtl \in DtlCods /\ r.f.nam \in DtlNams /\ r.dels = {}
      /\ r.f.seq \in Nat \cup {NoNumber} /\ r.nr \in 0 .. MaxAsked
    BY <1>1 DEF DtlOps, IsForm, IsAt, Told, PageInv, Nrs
<1>3. PICK there, seq : /\ there = DtlWith(r, r.f.cod, r.f.dtl)
                        /\ seq = IF r.f.seq = NoNumber THEN Max(r.was) ELSE r.f.seq
    OBVIOUS
<1>4. PICK new : new = [dic |-> r.f.cod, cod |-> r.f.dtl, nam |-> r.f.nam, seq |-> seq, by |-> r.nr]
    OBVIOUS
<1>5. \/ r.f.op = "addDicDtl" /\ there = {} /\ Commit(r, data.dics, data.dtls \cup {new})
      \/ r.f.op # "addDicDtl" /\ Commit(r, data.dics, data.dtls)
      \/ /\ r.f.op # "addDicDtl" /\ there # {}
         /\ Commit(r, data.dics, (data.dtls \ there) \cup {[Named(x, r) EXCEPT !.seq = r.f.seq] : x \in there})
      \/ Fail(r) /\ data' = data
    BY <1>3, <1>4, Zenon DEF SaveDtl
<1>6. CASE r.f.op = "addDicDtl" /\ there = {} /\ Commit(r, data.dics, data.dtls \cup {new})
    <2>1. r.f.seq = NoNumber => seq \in Nat /\ r.was = {seq}
        <3> SUFFICES ASSUME r.f.seq = NoNumber PROVE seq \in Nat /\ r.was = {seq}
            OBVIOUS
        <3>1. PICK k \in Nat : r.was = {k}
            BY <1>1, <1>6 DEF Knows, KnowsSeq
        <3>2. IsFiniteSet({k})
            BY FS_Singleton
        <3>3. Max({k}) = k
            BY <3>2, LargestOf
        <3> QED BY <1>3, <3>1, <3>3
    <2>2. new \in DtlRow
        BY <1>2, <1>3, <1>4, <2>1 DEF DtlRow
    <2>3. data.dtls \cup {new} = (data.dtls \ there) \cup {new}
        BY <1>6
    <2>4. Commit(r, data.dics, (data.dtls \ there) \cup {new})
        BY <1>6, <2>3
    <2> QED BY <1>3, <1>4, <1>6, <2>1, <2>2, <2>4, PutDtlTold
<1>7. CASE r.f.op # "addDicDtl" /\ Commit(r, data.dics, data.dtls)
    BY <1>2, <1>7, SameTold
<1>8. CASE /\ r.f.op # "addDicDtl" /\ there # {}
           /\ Commit(r, data.dics, (data.dtls \ there) \cup {[Named(x, r) EXCEPT !.seq = r.f.seq] : x \in there})
    <2>1. PICK x \in data.dtls : x.dic = r.f.cod /\ x.cod = r.f.dtl /\ there = {x}
        <3>1. there = {y \in data.dtls : y.dic = r.f.cod /\ y.cod = r.f.dtl}
            BY <1>2, <1>3 DEF DtlWith, Dtls, Items
        <3>2. \A y, z \in data.dtls : y.dic = z.dic /\ y.cod = z.cod => y = z
            BY DEF Told, RowsInv
        <3> QED BY <1>8, <3>1, <3>2
    <2>2. x \in DtlRow
        BY DEF Told, RowsInv
    <2>3. PICK row \in DtlRow :
            /\ row = [Named(x, r) EXCEPT !.seq = r.f.seq] /\ row.dic = x.dic /\ row.cod = x.cod
            /\ row.nam = r.f.nam /\ row.by = IF x.nam = r.f.nam THEN x.by ELSE r.nr
        <3> DEFINE n == r.f.nam
                   s == r.f.seq
                   b == IF x.nam = n THEN x.by ELSE r.nr
                   w == [x EXCEPT !.nam = n, !.by = b]
                   row == [w EXCEPT !.seq = s]
        <3>1. n \in DtlNams /\ b \in 0 .. MaxAsked /\ s \in Nat \cup {NoNumber}
            BY <1>2, <2>2 DEF DtlRow
        <3>2. w = Named(x, r)
            BY Zenon DEF Named
        <3> HIDE DEF n, b, s
        <3>3. w \in DtlRow /\ w.dic = x.dic /\ w.cod = x.cod /\ w.nam = n /\ w.by = b
            BY <2>2, <3>1 DEF DtlRow
        <3> HIDE DEF w
        <3>4. row \in DtlRow /\ row.dic = x.dic /\ row.cod = x.cod /\ row.nam = n /\ row.by = b
            BY <3>1, <3>3 DEF DtlRow
        <3>5. row = [Named(x, r) EXCEPT !.seq = r.f.seq]
            BY <3>2, Zenon DEF s
        <3> HIDE DEF row
        <3> QED BY <3>4, <3>5 DEF n, b
    <2>5. Commit(r, data.dics, (data.dtls \ there) \cup {row})
        <3>1. {[Named(y, r) EXCEPT !.seq = r.f.seq] : y \in there} = {row}
            BY <2>1, <2>3
        <3> QED BY <1>8, <3>1
    <2>6. \/ row.by = r.nr /\ \A y \in there : y.nam # row.nam
          \/ \E y \in there : row.nam = y.nam /\ row.by = y.by
        BY <2>1, <2>3
    <2> QED BY <1>3, <1>8, <2>1, <2>3, <2>5, <2>6, PutDtlTold
<1>9. CASE Fail(r) /\ data' = data
    BY <1>9, FailTells, TellsOn DEF Told
<1> QED BY <1>5, <1>6, <1>7, <1>8, <1>9

LEMMA SaveTold ==
    ASSUME Inv, Told, NEW r \in page.open, Save(r)
    PROVE  Told'
<1>1. r.at = "save" /\ IsForm(r.f) /\ IsAt(r)
    BY DEF Save, At, Told, PageInv
<1>2. IF OfDic(r.f) THEN SaveDic(r) ELSE SaveDtl(r)
    BY Zenon DEF Save
<1>3. ~OfDic(r.f) => r.f.op \in DtlOps
    BY <1>1 DEF OfDic, DtlOps, IsForm, IsAt
<1> QED BY <1>1, <1>2, <1>3, SaveDicTold, SaveDtlTold

-----------------------------------------------------------------------------
(* The other steps, the start, and the theorems.                             *)

LEMMA ReadTold ==
    ASSUME Inv, Told, NEW r \in page.open, Read(r)
    PROVE  Told'
<1>1. PICK was, n, crossed :
        /\ r.at = "read" /\ IsReq(r) /\ data' = data
        /\ was = [nr |-> page.reads + 1, dtls |-> data.dtls]
        /\ n = [nr |-> r.nr, f |-> r.f, at |-> "set", was |-> {was}, dels |-> r.dels]
        /\ crossed = (page.crossed \/ \E o \in Others(r) : o.at = "set")
        /\ page' = [nr |-> page.nr, open |-> Others(r) \cup {n}, mates |-> Met(r).mates, reads |-> page.reads + 1,
                    read |-> page.read, crossed |-> crossed, dropped |-> page.dropped, early |-> page.early]
    BY ReadGoes
<1>2. /\ page'.nr = page.nr /\ page'.mates = Met(r).mates /\ page'.dropped = page.dropped
      /\ page'.early = page.early /\ page'.open = Others(r) \cup {n}
      /\ data'.dics = data.dics /\ data'.dtls = data.dtls
    BY <1>1
<1>3. Meets(r)
    BY <1>2, MetMeets DEF Told
<1>4. IsForm(r.f) /\ IsAt(r)
    BY DEF Told, PageInv
<1>5. n.nr = r.nr /\ n.f = r.f /\ n.at = "set" /\ n.dels = r.dels
    BY <1>1
<1>6. r.f.op = "getDicCache"
    BY <1>1, <1>4 DEF IsForm, IsAt
<1>7. IsAt(n)
    BY <1>4, <1>5, <1>6 DEF IsAt
<1>8. Knows(n)'
    BY <1>5, <1>6 DEF Knows, KnowsNam, KnowsDtlNam, KnowsDic, KnowsLeft, KnowsSeq, OfDic, DtlOps
<1> QED BY <1>2, <1>3, <1>5, <1>7, <1>8, TellsOn

LEMMA SetTold ==
    ASSUME Inv, Told, NEW r \in page.open, Set(r)
    PROVE  Told'
<1>1. PICK read :
        /\ data'.dics = data.dics /\ data'.dtls = data.dtls
        /\ page' = [nr |-> page.nr, open |-> Others(r), mates |-> Met(r).mates, reads |-> page.reads,
                    read |-> read, crossed |-> page.crossed, dropped |-> page.dropped, early |-> page.early]
    BY SetGoes
<1>2. /\ page'.nr = page.nr /\ page'.mates = Met(r).mates /\ page'.dropped = page.dropped
      /\ page'.early = page.early /\ page'.open = Others(r)
    BY <1>1
<1>3. Meets(r)
    BY <1>2, MetMeets DEF Told
<1> QED BY <1>1, <1>2, <1>3, TellsOn

LEMMA AskTold ==
    ASSUME DicAssumption, Inv, Told, Ask
    PROVE  Told'
<1>1. PICK f, new :
        /\ f \in Forms
        /\ new = [nr |-> page.nr + 1, f |-> f, at |-> First(f), was |-> {}, dels |-> {}]
        /\ page' = [nr |-> page.nr + 1, open |-> page.open \cup {new}, mates |-> page.mates, reads |-> page.reads,
                    read |-> page.read, crossed |-> page.crossed, dropped |-> page.dropped,
                    early |-> page.early]
        /\ data' = data
    BY AskGoes
<1>2. /\ page'.nr = page.nr + 1 /\ page'.open = page.open \cup {new} /\ page'.mates = page.mates
      /\ page'.dropped = page.dropped /\ page'.early = page.early
      /\ new.nr = page.nr + 1 /\ new.f = f /\ new.at = First(f) /\ new.dels = {}
    BY <1>1
<1>3. page.nr < MaxAsked /\ Cardinality(page.open) < 2
    BY DEF Ask
<1>4. IsForm(f)
    <2>1. IsAsked(f)
        BY <1>1, FormsAsked
    <2>2. \A o \in Offered : o \in DicCods \ {Base}
        BY DEF Offered, Told, RowsInv, DicRow
    <2>3. \A c : DtlsOf(c) \subseteq DtlCods
        BY DEF DtlsOf, Items, Told, RowsInv, DtlRow
    <2>4. SeqNOs \subseteq Nat
        BY DEF DicAssumption
    <2> QED BY <2>1, <2>2, <2>3, <2>4 DEF IsAsked, IsForm, DtlOps
<1>5. IsAt(new)
    BY <1>2, <1>4 DEF IsAt, IsForm, First, DtlOps
<1>6. Knows(new)'
    BY <1>2, <1>4 DEF Knows, KnowsNam, KnowsDtlNam, KnowsDic, KnowsLeft, KnowsSeq, IsForm, First, OfDic, DtlOps
<1>7. \A o \in page.open : Knows(o)'
    BY <1>1, <1>2 DEF Told, Knows, KnowsNam, KnowsDtlNam, FreeDtlNam, KnowsDic, Found, KnowsLeft, Cleared,
                      KnowsSeq, Alone, Overlapped, Dics
<1>8. PageInv'
    <2>1. page'.nr \in Nrs /\ new.nr \in 1 .. page'.nr
        BY <1>2, <1>3 DEF Told, PageInv, Nrs
    <2>2. IsFiniteSet(page'.open) /\ Cardinality(page'.open) <= 2
        <3>1. IsFiniteSet(page.open) /\ Cardinality(page.open) \in Nat
            BY FS_CardinalityType DEF Told, PageInv
        <3>2. IsFiniteSet(page.open \cup {new})
              /\ Cardinality(page.open \cup {new}) =
                    IF new \in page.open THEN Cardinality(page.open) ELSE Cardinality(page.open) + 1
            BY <3>1, FS_AddElement, Zenon
        <3> QED BY <1>2, <1>3, <3>1, <3>2
    <2>3. \A r \in page'.open : r.nr \in 1 .. page'.nr /\ IsForm(r.f) /\ IsAt(r)
        <3>1. \A r \in page.open : r.nr \in 1 .. page.nr /\ IsForm(r.f) /\ IsAt(r)
            BY DEF Told, PageInv
        <3>2. 1 .. page.nr \subseteq 1 .. page'.nr
            BY <1>2 DEF Told, PageInv, Nrs
        <3> QED BY <1>2, <1>4, <1>5, <2>1, <3>1, <3>2
    <2>4. \A r, o \in page'.open : r.nr = o.nr => r = o
        <3>1. \A r \in page.open : r.nr # new.nr
            BY <1>2, <1>3 DEF Told, PageInv, Nrs
        <3> QED BY <1>2, <3>1 DEF Told, PageInv
    <2> QED BY <1>2, <2>1, <2>2, <2>3, <2>4 DEF Told, PageInv, IsForm, IsAt
<1>9. RowsInv'
    BY <1>1 DEF Told, RowsInv, Items
<1>10. TwinsOnlyFromOverlap' /\ OrphanOnlyFromOverlap' /\ NumberedLast'
    BY <1>1, <1>2 DEF Told, TwinsOnlyFromOverlap, OrphanOnlyFromOverlap, NumberedLast, Alone, Overlapped
<1> QED BY <1>2, <1>6, <1>7, <1>8, <1>9, <1>10 DEF Told

LEMMA StepTold ==
    ASSUME DicAssumption, Inv, Told, [Next]_vars
    PROVE  Told'
<1>1. CASE Ask
    BY <1>1, AskTold
<1>2. ASSUME NEW r \in page.open, Run(r)
      PROVE  Told'
    BY <1>2, GetDicTold, FindCodTold, FindNamTold, FindDtlCodTold, FindDtlNamTold, FindSeqTold, DropDicTold,
       DropDtlsTold, DropDtlTold, SaveTold, ReadTold, SetTold DEF Run
<1>3. CASE UNCHANGED vars
    <2>1. data' = data /\ page' = page
        BY <1>3 DEF vars
    <2>2. PageInv' /\ RowsInv'
        BY <2>1 DEF Told, PageInv, RowsInv, IsForm, IsAt, Items
    <2>3. TwinsOnlyFromOverlap' /\ OrphanOnlyFromOverlap' /\ NumberedLast'
        BY <2>1 DEF Told, TwinsOnlyFromOverlap, OrphanOnlyFromOverlap, NumberedLast, Alone, Overlapped
    <2>4. ASSUME NEW r \in page.open PROVE Knows(r)'
        <3>1. Knows(r)
            BY DEF Told
        <3>2. KnowsNam(r)' /\ KnowsDtlNam(r)'
            BY <2>1, <3>1 DEF Knows, KnowsNam, KnowsDtlNam, FreeDtlNam, Alone, Dics
        <3>3. KnowsDic(r)' /\ KnowsLeft(r)'
            BY <2>1, <3>1 DEF Knows, KnowsDic, Found, KnowsLeft, Cleared, Overlapped
        <3>4. KnowsSeq(r)'
            BY <2>1, <3>1 DEF Knows, KnowsSeq, Alone
        <3> QED BY <3>2, <3>3, <3>4 DEF Knows
    <2> QED BY <2>1, <2>2, <2>3, <2>4 DEF Told
<1> QED BY <1>1, <1>2, <1>3 DEF Next

LEMMA StartTold ==
    ASSUME DicAssumption, Init
    PROVE  Told
<1>1. PICK cache : data = [dics |-> SeededDics, dtls |-> SeededDtls, cache |-> cache]
    BY DEF Init
<1>2. page = [nr |-> 0, open |-> {}, mates |-> [m \in 0 .. MaxAsked |-> {}],
              reads |-> 0, read |-> [nr |-> 0, dtls |-> SeededDtls], crossed |-> FALSE,
              dropped |-> [c \in DicCods |-> 0], early |-> {}]
    BY DEF Init
<1>3. /\ data.dics = SeededDics /\ data.dtls = SeededDtls /\ page.nr = 0 /\ page.open = {}
      /\ page.mates = [m \in Nrs |-> {}] /\ page.dropped = [c \in DicCods |-> 0] /\ page.early = {}
    BY <1>1, <1>2 DEF Nrs
<1>4. /\ Base \in DicCods /\ Plain \in DicCods /\ Base # Plain /\ MaxAsked \in Nat
      /\ NoNumber \notin Nat /\ None \notin DicCods
    BY DEF DicAssumption
<1>5. PICK nams \in [{Base, Plain} -> DicNams] :
        /\ nams[Base] # nams[Plain]
        /\ SeededDics = {[cod |-> c, nam |-> nams[c], base |-> c = Base, by |-> 0] : c \in {Base, Plain}}
    <2> DEFINE F == {f \in [{Base, Plain} -> DicNams] : f[Base] # f[Plain]}
               nams == CHOOSE f \in [{Base, Plain} -> DicNams] : f[Base] # f[Plain]
    <2>1. PICK m, n \in DicNams : m # n
        BY DEF DicAssumption
    <2>2. [c \in {Base, Plain} |-> IF c = Base THEN m ELSE n] \in F
        BY <1>4, <2>1
    <2>3. nams \in [{Base, Plain} -> DicNams] /\ nams[Base] # nams[Plain]
        BY <2>2
    <2>4. SeededDics = {[cod |-> c, nam |-> nams[c], base |-> c = Base, by |-> 0] : c \in {Base, Plain}}
        BY DEF SeededDics
    <2> HIDE DEF nams
    <2> QED BY <2>3, <2>4
<1>6. PICK i \in DtlCods, n \in DtlNams :
        SeededDtls = {[dic |-> c, cod |-> i, nam |-> n, seq |-> 1, by |-> 0] : c \in {Base, Plain}}
    <2>1. (CHOOSE i \in DtlCods : TRUE) \in DtlCods /\ (CHOOSE n \in DtlNams : TRUE) \in DtlNams
        BY DEF DicAssumption
    <2> QED BY <2>1, Zenon DEF SeededDtls
<1>7. PageInv
    <2>1. IsFiniteSet(page.open) /\ Cardinality(page.open) = 0
        BY <1>3, FS_EmptySet
    <2> QED BY <1>3, <1>4, <2>1 DEF PageInv, Nrs
<1>8. PICK b, p : /\ b = [cod |-> Base, nam |-> nams[Base], base |-> TRUE, by |-> 0]
                  /\ p = [cod |-> Plain, nam |-> nams[Plain], base |-> FALSE, by |-> 0]
                  /\ SeededDics = {b, p}
    <2> DEFINE b == [cod |-> Base, nam |-> nams[Base], base |-> Base = Base, by |-> 0]
               p == [cod |-> Plain, nam |-> nams[Plain], base |-> Plain = Base, by |-> 0]
    <2>1. SeededDics = {b, p}
        BY <1>5, Zenon
    <2>2. /\ b = [cod |-> Base, nam |-> nams[Base], base |-> TRUE, by |-> 0]
          /\ p = [cod |-> Plain, nam |-> nams[Plain], base |-> FALSE, by |-> 0]
        BY <1>4
    <2> QED BY <2>1, <2>2
<1>9. PICK x, y : /\ x = [dic |-> Base, cod |-> i, nam |-> n, seq |-> 1, by |-> 0]
                  /\ y = [dic |-> Plain, cod |-> i, nam |-> n, seq |-> 1, by |-> 0]
                  /\ SeededDtls = {x, y}
    <2> DEFINE Row(c) == [dic |-> c, cod |-> i, nam |-> n, seq |-> 1, by |-> 0]
    <2>1. SeededDtls = {Row(Base), Row(Plain)}
        BY <1>6, Zenon
    <2> QED BY <2>1, Zenon
<1>10. RowsInv
    <2>1. b \in DicRow /\ p \in DicRow /\ x \in DtlRow /\ y \in DtlRow
        <3>1. 0 \in 0 .. MaxAsked /\ nams[Base] \in DicNams /\ nams[Plain] \in DicNams
            BY <1>4
        <3> QED BY <1>4, <1>8, <1>9, <3>1 DEF DicRow, DtlRow
    <2>2. IsFiniteSet({x, y})
        <3>1. IsFiniteSet({x}) /\ {x, y} = {x} \cup {y}
            BY FS_Singleton
        <3> QED BY <3>1, FS_AddElement
    <2>3. /\ b.cod = Base /\ b.base = TRUE /\ b.by = 0 /\ p.cod = Plain /\ p.base = FALSE
          /\ x.dic = Base /\ y.dic = Plain
        BY <1>8, <1>9
    <2> QED BY <1>3, <1>4, <1>8, <1>9, <2>1, <2>2, <2>3 DEF RowsInv
<1>11. TwinsOnlyFromOverlap
    <2>1. b.nam # p.nam /\ x.dic # y.dic
        BY <1>4, <1>5, <1>8, <1>9
    <2> QED BY <1>3, <1>8, <1>9, <2>1 DEF TwinsOnlyFromOverlap
<1>12. OrphanOnlyFromOverlap
    <2>1. b.cod = x.dic /\ p.cod = y.dic
        BY <1>8, <1>9
    <2> QED BY <1>3, <1>8, <1>9, <2>1 DEF OrphanOnlyFromOverlap
<1> QED BY <1>3, <1>7, <1>10, <1>11, <1>12 DEF Told, NumberedLast

LEMMA ToldShows ==
    ASSUME DicAssumption, Told
    PROVE  TypeOK /\ TwinsOnlyFromOverlap /\ OrphanOnlyFromOverlap /\ NumberedLast /\ BaseStays
<1>1. TypeOK
    BY DEF Told, PageInv, RowsInv, TypeOK
<1>2. BaseStays
    <2>1. PICK x : Items(SeededDtls, Base) = {x} /\ x.by = 0 /\ x.seq = 1
        <3> DEFINE x == [dic |-> Base, cod |-> CHOOSE i \in DtlCods : TRUE, nam |-> CHOOSE n \in DtlNams : TRUE,
                         seq |-> 1, by |-> 0]
        <3>1. Items(SeededDtls, Base) = {z \in SeededDtls : z.dic = Base}
            BY DEF Items
        <3> DEFINE y == [dic |-> Plain, cod |-> CHOOSE i \in DtlCods : TRUE, nam |-> CHOOSE n \in DtlNams : TRUE,
                         seq |-> 1, by |-> 0]
        <3>2. SeededDtls = {x, y}
            BY Zenon DEF SeededDtls
        <3>3. x.dic = Base /\ y.dic = Plain /\ x.by = 0 /\ x.seq = 1 /\ Base # Plain
            BY DEF DicAssumption
        <3> HIDE DEF x, y
        <3>4. Items(SeededDtls, Base) = {x}
            BY <3>1, <3>2, <3>3
        <3> QED BY <3>3, <3>4
    <2>2. Cardinality({x}) = 1
        BY FS_Singleton
    <2> QED BY <2>1, <2>2 DEF BaseStays, Told, RowsInv
<1> QED BY <1>1, <1>2 DEF Told

LEMMA ToldHolds == DicAssumption => (Spec => [](Inv /\ Told))
<1> SUFFICES ASSUME DicAssumption PROVE Spec => [](Inv /\ Told)
    OBVIOUS
<1>1. Init => Inv /\ Told
    BY InitHolds, StartTold
<1>2. Inv /\ Told /\ [Next]_vars => (Inv /\ Told)'
    BY StepKeeps, StepTold
<1> QED BY <1>1, <1>2, PTL DEF Spec

\* A page gets for a code the items that the latest reload has read, whatever was
\* changed since; where that had none what there is now, or nothing.  Not when two
\* reloads crossed (loadDic sets what it has read in a transaction before), nor
\* when the code and another are one in capitals.
THEOREM CacheServes == DicAssumption => (Spec => []ItemsServed)
<1> SUFFICES ASSUME DicAssumption PROVE Spec => []ItemsServed
    OBVIOUS
<1>1. Inv => ItemsServed
    BY Serves
<1> QED BY <1>1, InvHolds, PTL

\* The tables, whatever requests run side by side: keys are unique, what overlapping
\* transactions leave behind is left by nothing else, a new item comes last unless
\* another transaction was open, and the dictionary of the program stays.
THEOREM TablesTell ==
    DicAssumption =>
        (Spec => [](TypeOK /\ TwinsOnlyFromOverlap /\ OrphanOnlyFromOverlap /\ NumberedLast /\ BaseStays))
<1> SUFFICES ASSUME DicAssumption
             PROVE  Spec => [](TypeOK /\ TwinsOnlyFromOverlap /\ OrphanOnlyFromOverlap /\ NumberedLast /\ BaseStays)
    OBVIOUS
<1>1. Told => TypeOK /\ TwinsOnlyFromOverlap /\ OrphanOnlyFromOverlap /\ NumberedLast /\ BaseStays
    BY ToldShows
<1> QED BY <1>1, ToldHolds, PTL

=============================================================================
