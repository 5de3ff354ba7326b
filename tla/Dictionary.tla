----------------------------- MODULE Dictionary -----------------------------
(***************************************************************************)
(* Dictionaries, their items and the cache of the items: the tables        *)
(* sys_dic and sys_dic_dtl as DicServiceImpl and DicDao use them, and the  *)
(* map that DicLoader keeps in the servlet context.                        *)
(*                                                                         *)
(* A request runs one service method in one transaction.  Every SQL        *)
(* statement is a step; it sees what is committed, less what its own       *)
(* transaction deleted (READ COMMITTED).  Hibernate sends an INSERT or an  *)
(* UPDATE when the transaction commits, so that both are one step here;    *)
(* they, and a DELETE, wait for rows that another transaction deleted.     *)
(* A request that fails is rolled back.                                    *)
(***************************************************************************)
EXTENDS Integers, FiniteSets, FiniteSetsExt

CONSTANTS
    DicCods, DicNams, DtlCods, DtlNams,
    SeqNOs,     \* order numbers a form may send
    NoNumber,   \* an item may have none
    None,
    UpperOf,    \* [DicCods -> DicCods]: toUpperCase of a code
    Base,       \* the dictionary that is part of the program
    Plain,      \* one that a user has made
    MaxAsked    \* bound: the number of requests, two of them at a time

VARIABLES
    data,       \* dics, dtls: the tables; "by" in a row is history: the request
                \* that gave it its name; cache: the map of the servlet context
    page        \* the open requests; history: which transactions overlapped, what
                \* the latest of the reloads has read, whether two crossed, who
                \* dropped a dictionary, and whose new item did not come last

vars == <<data, page>>

\* What is in capitals stays as it is; the tables can be seeded.
DicAssumption ==
    /\ UpperOf \in [DicCods -> DicCods]
    /\ \A c \in DicCods : UpperOf[UpperOf[c]] = UpperOf[c]
    /\ {Base, Plain} \subseteq DicCods /\ Base # Plain /\ None \notin DicCods
    /\ \E m, n \in DicNams : m # n
    /\ DtlCods # {} /\ DtlNams # {}
    /\ SeqNOs \subseteq Nat /\ NoNumber \notin Nat /\ MaxAsked \in Nat

\* The tables when the program starts: a dictionary of either kind, one item each.
SeededDics ==
    LET nams == CHOOSE f \in [{Base, Plain} -> DicNams] : f[Base] # f[Plain]
    IN  {[cod |-> c, nam |-> nams[c], base |-> c = Base, by |-> 0] : c \in {Base, Plain}}
SeededDtls ==
    {[dic |-> c, cod |-> CHOOSE i \in DtlCods : TRUE, nam |-> CHOOSE n \in DtlNams : TRUE,
      seq |-> 1, by |-> 0] : c \in {Base, Plain}}

Items(dtls, c) == {x \in dtls : x.dic = c}

\* loadSysDic: of two codes that are one in capitals, one is kept.
Key(c) == UpperOf[c]
Loads(dtls) ==
    LET cods == {x.dic : x \in dtls}
        keys == {Key(c) : c \in cods}
    IN  {[k \in keys |-> Items(dtls, of[k])] :
            of \in {g \in [keys -> cods] : \A k \in keys : Key(g[k]) = k}}

\* autoLoad, when the program starts.
Init ==
    /\ \E cache \in Loads(SeededDtls) :
        data = [dics |-> SeededDics, dtls |-> SeededDtls, cache |-> cache]
    /\ page = [nr |-> 0, open |-> {}, mates |-> [m \in 0 .. MaxAsked |-> {}],
               reads |-> 0, read |-> [nr |-> 0, dtls |-> SeededDtls], crossed |-> FALSE,
               dropped |-> [c \in DicCods |-> 0], early |-> {}]

-----------------------------------------------------------------------------
(* Requests.  A page sends what it was shown: of the rows that are offered, *)
(* never one of a dictionary that is part of the program.                   *)

Form(op, old, cod, nam, dtl, seq) ==
    [op |-> op, old |-> old, cod |-> cod, nam |-> nam, dtl |-> dtl, seq |-> seq]
Offered == {d.cod : d \in {x \in data.dics : ~x.base}}
DtlsOf(c) == {x.cod : x \in Items(data.dtls, c)}

Forms ==
    {Form("addDic", None, c, n, None, NoNumber) : c \in DicCods, n \in DicNams}
    \cup {Form("editDic", o, c, n, None, NoNumber) : o \in Offered, c \in DicCods, n \in DicNams}
    \cup {Form("delDic", o, o, None, None, NoNumber) : o \in Offered}
    \cup {Form("addDicDtl", o, o, n, i, s) : o \in Offered, n \in DtlNams, i \in DtlCods, s \in SeqNOs \cup {NoNumber}}
    \cup (UNION {{Form("editDicDtl", o, o, n, i, s) : n \in DtlNams, i \in DtlsOf(o), s \in SeqNOs \cup {NoNumber}} : o \in Offered})
    \cup (UNION {{Form("delDicDtl", o, o, None, i, NoNumber) : i \in DtlsOf(o)} : o \in Offered})
    \cup {Form("getDicCache", None, None, None, None, NoNumber)}

\* The statement a method starts with.
First(f) ==
    CASE f.op = "addDic" -> "cod" [] f.op = "getDicCache" -> "read" [] OTHER -> "get"

Ask ==
    /\ page.nr < MaxAsked /\ Cardinality(page.open) < 2
    /\ \E f \in Forms :
        page' = [page EXCEPT !.nr = @ + 1,
                    !.open = @ \cup {[nr |-> page.nr + 1, f |-> f, at |-> First(f), was |-> {}, dels |-> {}]}]
    /\ UNCHANGED data

Others(r) == {o \in page.open : o.nr # r.nr}
Begun(r)  == {o.nr : o \in {x \in Others(r) : x.at # First(x.f)}}

\* A statement of r: from its first one on it overlaps with the open ones.
Met(r) ==
    [page EXCEPT !.open = Others(r),
        !.mates = [n \in DOMAIN @ |-> CASE n = r.nr        -> @[n] \cup Begun(r)
                                        [] n \in Begun(r)  -> @[n] \cup {r.nr}
                                        [] OTHER           -> @[n]]]
Goto(r, next) == page' = [Met(r) EXCEPT !.open = @ \cup {[r EXCEPT !.at = next]}]
Fail(r)       == page' = Met(r)
GoOrFail(r, ok, next) == (IF ok THEN Goto(r, next) ELSE Fail(r)) /\ UNCHANGED data

\* What r sees: not what it deleted.  Keys of rows that another transaction has
\* deleted are free when it ends.
Dics(r) == {d \in data.dics : <<d.cod>> \notin r.dels}
Dtls(r) == {x \in data.dtls : <<x.dic, x.cod>> \notin r.dels}
Waits(r, keys) == \E o \in Others(r) : o.dels \cap keys # {}
DicWith(r, c)    == {d \in Dics(r) : d.cod = c}
DtlWith(r, c, i) == {x \in Items(Dtls(r), c) : x.cod = i}

-----------------------------------------------------------------------------
(* Statements that read, and the exceptions they lead to.                   *)

At(r, statement) == r.at = statement
AfterGet(f) ==
    CASE f.op = "editDic"    -> IF f.old = f.cod THEN "nam" ELSE "cod"
      [] f.op = "delDic"     -> "drop"
      [] f.op = "addDicDtl"  -> "dtlCod"
      [] f.op = "editDicDtl" -> "dtlNam"
      [] OTHER               -> "dropDtl"

\* The dictionary a method is about.  Only editDic goes on without one.
GetDic(r) ==
    /\ At(r, "get")
    /\ LET found == DicWith(r, r.f.old)
       IN  GoOrFail([r EXCEPT !.was = {d.nam : d \in found}],
                    /\ r.f.op = "editDic" \/ found # {}
                    /\ \A d \in found : ~d.base, AfterGet(r.f))

FindCod(r) ==
    /\ At(r, "cod")
    /\ GoOrFail(r, DicWith(r, r.f.cod) = {}, IF r.f.op = "addDic" THEN "nam" ELSE "drop")

\* queryDicByNam: one of the dictionaries with the name, if there are several.
\* A dictionary that keeps its code may have it; if it was not found there is
\* nothing to give the name to.
\* Faulty: a dictionary with the name of another is found when it keeps its code.
FreeNamEdited(r, found) == r.f.op = "editDic" \/ found = {}
FreeNam(r, found) ==
    \/ found = {}
    \/ r.f.old = r.f.cod /\ \E d \in found : d.cod = r.f.old
FindNam(r) ==
    /\ At(r, "nam")
    /\ LET found == {d \in Dics(r) : d.nam = r.f.nam}
       IN  \/ FreeNam(r, found) /\ GoOrFail(r, r.f.old = r.f.cod => r.was # {}, "save")
           \/ (\E d \in found : d.cod # r.f.old) /\ Fail(r) /\ UNCHANGED data

\* The same two checks for an item, in this order for a new one and in the other
\* for one that is edited, whose row Hibernate has from then on.
FindDtlCod(r) ==
    /\ At(r, "dtlCod")
    /\ LET found == DtlWith(r, r.f.cod, r.f.dtl)
       IN  IF r.f.op = "addDicDtl" THEN GoOrFail(r, found = {}, "dtlNam")
           ELSE GoOrFail([r EXCEPT !.was = IF @ = {} THEN found ELSE @], found # {}, "save")
FindDtlNam(r) ==
    /\ At(r, "dtlNam")
    /\ LET found == {x \in Items(Dtls(r), r.f.cod) : x.nam = r.f.nam}
           own   == {x \in found : x.cod = r.f.dtl}
       IN  IF r.f.op = "addDicDtl"
           THEN GoOrFail(r, found = {}, IF r.f.seq = NoNumber THEN "seq" ELSE "save")
           ELSE \/ /\ found = {} \/ own # {}
                   /\ GoOrFail([r EXCEPT !.was = own], TRUE, "dtlCod")
                \/ found # own /\ Fail(r) /\ UNCHANGED data

\* Rows without a number come last (ORDER BY seqno).
\* Faulty: the number of the items is taken for the last number.
NumberCounted(items) == Cardinality(items) + 1
Number(items) ==
    IF \E x \in items : x.seq = NoNumber THEN Cardinality(items) + 1
    ELSE 1 + Max({x.seq : x \in items} \cup {0})
FindSeq(r) ==
    /\ At(r, "seq")
    /\ GoOrFail([r EXCEPT !.was = {Number(Items(Dtls(r), r.f.cod))}], TRUE, "save")

-----------------------------------------------------------------------------
(* Statements that write, and the end of a transaction.                     *)

DropDic(r) ==
    /\ At(r, "drop") /\ ~Waits(r, {<<r.f.old>>})
    /\ GoOrFail([r EXCEPT !.dels = @ \cup {<<d.cod>> : d \in DicWith(r, r.f.old)}], TRUE, "dropDtls")

\* History: an item got its number, and is not after those that have one.
Early(r, dtls) ==
    /\ r.f.op = "addDicDtl" /\ r.f.seq = NoNumber
    /\ \E x, y \in Items(dtls, r.f.cod) :
        x.cod = r.f.dtl /\ y # x /\ y.seq # NoNumber /\ y.seq >= x.seq
    /\ \A y \in Items(dtls, r.f.cod) : y.seq # NoNumber
Commit(r, dics, dtls) ==
    /\ data' = [data EXCEPT !.dics = dics, !.dtls = dtls]
    /\ page' = [Met(r) EXCEPT
                    !.dropped = [c \in DicCods |-> IF <<c>> \in r.dels THEN r.nr ELSE @[c]],
                    !.early = IF Early(r, dtls) THEN @ \cup {r.nr} ELSE @]

\* The items of a dictionary, the last statement of delDic; one item.
\* Faulty: the items stay.
DropDtlsNot(r) == [r EXCEPT !.dels = @]
DropDtlsOf(r)  == [r EXCEPT !.dels = @ \cup {<<x.dic, x.cod>> : x \in Items(Dtls(r), r.f.old)}]
DropDtls(r) ==
    /\ At(r, "dropDtls")
    /\ LET s == DropDtlsOf(r)
       IN  /\ ~Waits(r, s.dels)
           /\ IF r.f.op = "editDic" THEN GoOrFail(s, TRUE, "nam")
              ELSE Commit(s, Dics(s), Dtls(s))
DropDtl(r) ==
    /\ At(r, "dropDtl") /\ ~Waits(r, {<<r.f.cod, r.f.dtl>>})
    /\ Commit(r, data.dics, data.dtls \ DtlWith(r, r.f.cod, r.f.dtl))

\* INSERT fails where its key is taken, UPDATE where its row is gone; a row that
\* was read as it shall be is not updated.
Named(x, r) == [x EXCEPT !.nam = r.f.nam, !.by = IF x.nam = r.f.nam THEN @ ELSE r.nr]
SaveDic(r) ==
    LET there == DicWith(r, r.f.cod)
        new   == [cod |-> r.f.cod, nam |-> r.f.nam, base |-> FALSE, by |-> r.nr]
    IN  IF r.f.old # r.f.cod
        THEN IF there = {} THEN Commit(r, Dics(r) \cup {new}, Dtls(r)) ELSE Fail(r) /\ UNCHANGED data
        ELSE CASE r.was = {r.f.nam} -> Commit(r, data.dics, data.dtls)
               [] there = {}        -> Fail(r) /\ UNCHANGED data
               [] OTHER -> Commit(r, (data.dics \ there) \cup {Named(d, r) : d \in there}, data.dtls)

SaveDtl(r) ==
    LET there == DtlWith(r, r.f.cod, r.f.dtl)
        new   == [dic |-> r.f.cod, cod |-> r.f.dtl, nam |-> r.f.nam,
                  seq |-> IF r.f.seq = NoNumber THEN Max(r.was) ELSE r.f.seq, by |-> r.nr]
        edited == {[Named(x, r) EXCEPT !.seq = r.f.seq] : x \in there}
    IN  IF r.f.op = "addDicDtl"
        THEN IF there = {} THEN Commit(r, data.dics, data.dtls \cup {new}) ELSE Fail(r) /\ UNCHANGED data
        ELSE CASE \A x \in r.was : x.nam = r.f.nam /\ x.seq = r.f.seq -> Commit(r, data.dics, data.dtls)
               [] there = {} -> Fail(r) /\ UNCHANGED data
               [] OTHER -> Commit(r, data.dics, (data.dtls \ there) \cup edited)

OfDic(f) == f.op \in {"addDic", "editDic"}
Save(r) ==
    /\ At(r, "save")
    /\ ~Waits(r, {IF OfDic(r.f) THEN <<r.f.cod>> ELSE <<r.f.cod, r.f.dtl>>})
    /\ IF OfDic(r.f) THEN SaveDic(r) ELSE SaveDtl(r)

-----------------------------------------------------------------------------
(* The cache.  loadDic reads in a transaction and sets the attribute later. *)

Read(r) ==
    /\ At(r, "read")
    /\ page' = [Met(r) EXCEPT !.reads = @ + 1,
                    !.crossed = @ \/ \E o \in Others(r) : o.at = "set",
                    !.open = @ \cup {[r EXCEPT !.at = "set", !.was = {[nr |-> page.reads + 1, dtls |-> data.dtls]}]}]
    /\ UNCHANGED data
\* Faulty: what was read is put into the map that is there.
LoadedInto(old, new) ==
    [k \in DOMAIN old \cup DOMAIN new |-> IF k \in DOMAIN new THEN new[k] ELSE old[k]]
Loaded(old, new) == new
Set(r) ==
    /\ At(r, "set")
    /\ \E was \in r.was :
        /\ \E new \in Loads(was.dtls) : data' = [data EXCEPT !.cache = Loaded(@, new)]
        /\ page' = [Met(r) EXCEPT !.read = IF was.nr > @.nr THEN was ELSE @]

\* queryDicItemByCode, and the items getDicDtlNamConverter looks into.
Served(c) ==
    LET key == UpperOf[c]
    IN  IF key \in DOMAIN data.cache THEN data.cache[key] ELSE Items(data.dtls, key)

-----------------------------------------------------------------------------
Run(r) ==
    \/ GetDic(r)
    \/ FindCod(r)
    \/ FindNam(r)
    \/ FindDtlCod(r)
    \/ FindDtlNam(r)
    \/ FindSeq(r)
    \/ DropDic(r)
    \/ DropDtls(r)
    \/ DropDtl(r)
    \/ Save(r)
    \/ Read(r)
    \/ Set(r)
Next == Ask \/ \E r \in page.open : Run(r)

Spec == Init /\ [][Next]_vars

-----------------------------------------------------------------------------
DicRow == [cod : DicCods, nam : DicNams, base : BOOLEAN, by : 0 .. MaxAsked]
DtlRow == [dic : DicCods, cod : DtlCods, nam : DtlNams,
           seq : Nat \cup {NoNumber}, by : 0 .. MaxAsked]

\* Rows are of their types, and no two of them have one key.
TypeOK ==
    /\ data.dics \subseteq DicRow /\ data.dtls \subseteq DtlRow
    /\ \A d, e \in data.dics : d.cod = e.cod => d = e
    /\ \A x, y \in data.dtls : x.dic = y.dic /\ x.cod = y.cod => x = y
    /\ Cardinality(page.open) <= 2

Overlapped(p, q) == p \in page.mates[q]
Alone(n) == page.mates[n] = {}

\* Of two dictionaries with one name, or two items with one name in a dictionary,
\* neither got it from a transaction that was alone: a request sees what is there,
\* and a name that is kept or taken over from an own row is no second one.  The
\* two transactions need not have met each other: one that edits a row which has a
\* twin, and keeps its name, gives the name back if a third takes it in between.
TwinsOnlyFromOverlap ==
    /\ \A d, e \in data.dics : d.nam = e.nam => d = e \/ ~(Alone(d.by) \/ Alone(e.by))
    /\ \A x, y \in data.dtls :
        x.dic = y.dic /\ x.nam = y.nam => x = y \/ ~(Alone(x.by) \/ Alone(y.by))

\* An item without its dictionary was added while the dictionary was dropped.
OrphanOnlyFromOverlap ==
    \A x \in data.dtls :
        \/ \E d \in data.dics : d.cod = x.dic
        \/ Overlapped(page.dropped[x.dic], x.by)

\* An item that is given its number comes after the others, unless another
\* transaction was open or an item has no number.
NumberedLast == \A q \in page.early : page.mates[q] # {}

\* The dictionary that is part of the program, and its items, stay.
BaseStays ==
    /\ \E d \in data.dics : d.cod = Base /\ d.base /\ d.by = 0
    /\ Cardinality(Items(data.dtls, Base)) = 1
    /\ \A x \in Items(data.dtls, Base) : x.by = 0 /\ x.seq = 1

\* Unless two reloads crossed, or another code that differs in capitals only has
\* or had items, a page gets for a code what the latest reload has read, whatever
\* was changed since; and where that had none, what there is now, or nothing.
ItemsServed ==
    page.crossed \/ \A c \in DicCods :
        LET read == Items(page.read.dtls, c)
            like == {e \in DicCods \ {c} : UpperOf[e] = UpperOf[c]}
        IN  (\A e \in like : Items(page.read.dtls, e) \cup Items(data.dtls, e) = {})
                => IF read # {} THEN Served(c) = read ELSE Served(c) \in {{}, Items(data.dtls, c)}

=============================================================================
