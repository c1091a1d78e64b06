------------------------------- MODULE FibreTray -------------------------------
(***************************************************************************)
(* The fibre tray of one point (web/src/components/coupler-tray.tsx,       *)
(* lib/fiber.ts): what it shows of the browser's copy of the record.  One  *)
(* cable is open; its cores are told one by one, or folded into rows that  *)
(* say the same of many.  A cable that is cut here is told as one drum.    *)
(* The ports of the box are told the same way.                             *)
(*                                                                         *)
(* What the buttons of the rows do to the record is FibreRecord; here it   *)
(* changes, by whoever it was.  Colours, words and distances are left out. *)
(***************************************************************************)
EXTENDS Naturals, SequencesExt

CONSTANTS
    DrumCores,          \* the cores of cables 1 and 2; cable 3 has one
    TubeSize, MinRun,   \* TUBE_SIZE, MIN_RUN
    MinPortRun,         \* MIN_PORT_RUN
    PortKinds,          \* the ports of the box, in its order: their kinds
    Here, None,
    MaxFacts            \* bound: changes of the record

\* Cables, cores, drums, and what is none of them are told apart.
TrayAssumption ==
    /\ {DrumCores, TubeSize, MinPortRun} \subseteq Nat \ {0} /\ MinRun \in Nat
    /\ PortKinds \in Seq(STRING)
    /\ None \notin Nat \cup (Nat \X Nat) \cup [near : Nat, far : Nat]
    /\ Here \notin (Nat \X Nat) \cup {None}

Cables == 1..3
Count(c) == IF c = 3 THEN 1 ELSE DrumCores
Fibres == {f \in Cables \X (1..DrumCores) : f[2] <= Count(f[1])}
PortNumbers == DOMAIN PortKinds
Names == {"", "a", "b"}

VARIABLES
    ending,    \* the cables that end here
    name,      \* their names
    feed,      \* those on the side the light comes from
    joints,    \* the joints here: one fibre or two, a port or None
    drops,     \* the ports with a customer on them
    openCable, \* the cable shown
    schedOpen, \* the core plan is unfolded
    expanded,  \* the folds the operator opened: from, to
    openRuns,  \* the runs of ports the operator opened: their first port
    facts      \* changes so far

record == <<ending, name, feed, joints, drops, facts>>
view == <<openCable, schedOpen, expanded, openRuns>>
vars == <<record, view>>

TypeOK ==
    /\ ending \in SUBSET Cables /\ feed \in SUBSET Cables
    /\ name \in [Cables -> Names]
    /\ joints \in SUBSET [fibres : SUBSET Fibres, port : PortNumbers \cup {None}]
    /\ drops \in SUBSET PortNumbers
    /\ openCable \in Cables \cup {None} /\ schedOpen \in BOOLEAN
    /\ expanded \in SUBSET ((1..DrumCores) \X (1..DrumCores))
    /\ openRuns \in SUBSET PortNumbers

-----------------------------------------------------------------------------
(***************************************************************************)
(* What the tray makes of the copy.                                        *)
(***************************************************************************)
isPlumbing(c) == name[c] = "" /\ Count(c) <= 1

\* The cables that were laid, in the server's order: the feed side, then by
\* name.
Rank(c) == <<IF c \in feed THEN 0 ELSE 1,
             CASE name[c] = "" -> 0 [] name[c] = "a" -> 1 [] OTHER -> 2, c>>
Before(c, d) ==
    LET r == Rank(c)
        s == Rank(d)
    IN \E k \in 1..3 : r[k] < s[k] /\ \A h \in 1..(k - 1) : r[h] = s[h]
laid ==
    LET shown == {c \in ending : ~isPlumbing(c)}
    IN CHOOSE s \in [1..Cardinality(shown) -> shown] :
          ToSet(s) = shown /\ \A i, j \in DOMAIN s : i < j => Before(s[i], s[j])

\* Two cables of one name and count, and no third, are the halves of a drum.
cutPairs ==
    LET Group(c) == {d \in ending : /\ ~isPlumbing(d) /\ name[d] = name[c]
                                    /\ Count(d) = Count(c)}
    IN [c \in {d \in ending : /\ ~isPlumbing(d) /\ name[d] # ""
                              /\ Cardinality(Group(d)) = 2}
           |-> CHOOSE d \in Group(c) : d # c]

\* The cable with most cores, the feed side first.
defaultCable ==
    IF laid = <<>> THEN None
    ELSE LET Better(c, d) ==
                 \/ Count(c) > Count(d)
                 \/ Count(c) = Count(d) /\ c \in feed /\ d \notin feed
             i == CHOOSE k \in DOMAIN laid :
                     /\ \A h \in DOMAIN laid : ~Better(laid[h], laid[k])
                     /\ \A h \in 1..(k - 1) : Better(laid[k], laid[h])
         IN laid[i]

\* What fibre f meets here: another fibre, the box, or nothing.
joinIndex(f) ==
    IF \A j \in joints : f \notin j.fibres THEN None
    ELSE LET j == CHOOSE k \in joints : f \in k.fibres
         IN IF j.fibres = {f} THEN Here ELSE CHOOSE g \in j.fibres : g # f

\* The picker has one entry per object: a drum is one.
entries ==
    LET Mate(c) == IF c \in DOMAIN cutPairs THEN cutPairs[c] ELSE None
        At(c) == CHOOSE i \in DOMAIN laid : laid[i] = c
    IN {[main |-> c, mate |-> Mate(c)] :
           c \in {d \in ToSet(laid) : Mate(d) = None \/ At(d) < At(Mate(d))}}

\* The drum that is open: the feed side is near.
drum ==
    IF openCable = None \/ openCable \notin DOMAIN cutPairs THEN None
    ELSE LET c == openCable
             d == cutPairs[c]
         IN IF c \in feed \/ (d \notin feed /\ c < d)
            THEN [near |-> c, far |-> d] ELSE [near |-> d, far |-> c]

Single == [kind |-> "core", of |-> None]
Free == [kind |-> "free", of |-> None]

\* What there is to say of each core of a cable.
Straight(c) ==
    [i \in 1..Count(c) |->
        LET to == joinIndex(<<c, i>>)
        IN IF to = None THEN Free
           ELSE IF to # Here /\ to[2] = i THEN [kind |-> "run", of |-> to[1]]
           ELSE Single]

\* MUTANT: a core is free if nothing meets it on the near side.
CutFromNear(d) ==
    [i \in 1..Count(d.near) |->
        IF joinIndex(<<d.near, i>>) = <<d.far, i>>
        THEN [kind |-> "through", of |-> d.far]
        ELSE IF joinIndex(<<d.near, i>>) = None THEN Free ELSE Single]

\* And of each core of a drum, with both its sides.
Cut(d) ==
    [i \in 1..Count(d.near) |->
        IF joinIndex(<<d.near, i>>) = <<d.far, i>>
        THEN [kind |-> "through", of |-> d.far]
        ELSE IF joinIndex(<<d.near, i>>) = None /\ joinIndex(<<d.far, i>>) = None
        THEN Free ELSE Single]

Row(i, j, what) == [from |-> i, to |-> j, what |-> what]
TubeOf(i) == (i + TubeSize - 1) \div TubeSize

\* From core i: a run of cores of one tube of which the same is to be said, as
\* one row if it is long enough and not opened; then the rest.
schedule(say) ==
    LET EndOf(i) ==
            IF say[i] = Single THEN i
            ELSE CHOOSE e \in i..Len(say) :
                    /\ \A n \in i..e : say[n] = say[i] /\ TubeOf(n) = TubeOf(i)
                    /\ e < Len(say) => say[e + 1] # say[i] \/ TubeOf(e + 1) # TubeOf(i)
        emit(i, e) ==
            IF say[i] = Single \/ e - i + 1 < MinRun \/ <<i, e>> \in expanded
            THEN [n \in 1..(e - i + 1) |-> Row(i + n - 1, i + n - 1, Single)]
            ELSE <<Row(i, e, say[i])>>
        rows[i \in 1..(Len(say) + 1)] ==
            IF i > Len(say) THEN <<>> ELSE emit(i, EndOf(i)) \o rows[EndOf(i) + 1]
    IN rows[1]

Rows == IF openCable = None THEN <<>>
        ELSE schedule(IF drum = None THEN Straight(openCable) ELSE Cut(drum))

busyPort(p) == p \in drops \/ \E j \in joints : j.port = p

\* The ports, with the idle ones of a kind in a row folded.
portRows ==
    LET flush(s) ==
            [out |-> s.out \o
                 (IF Len(s.run) >= MinPortRun /\ s.run[1] \notin openRuns
                  THEN <<[from |-> s.run[1], to |-> s.run[Len(s.run)]]>>
                  ELSE [n \in DOMAIN s.run |-> [from |-> s.run[n], to |-> s.run[n]]]),
             run |-> <<>>]
        next(s, p) ==
            IF busyPort(p)
            THEN [out |-> Append(flush(s).out, [from |-> p, to |-> p]), run |-> <<>>]
            ELSE IF s.run # <<>> /\ PortKinds[s.run[1]] # PortKinds[p]
            THEN [flush(s) EXCEPT !.run = <<p>>]
            ELSE [s EXCEPT !.run = Append(@, p)]
        walk[p \in 0..Len(PortKinds)] ==
            IF p = 0 THEN [out |-> <<>>, run |-> <<>>] ELSE next(walk[p - 1], p)
    IN flush(walk[Len(PortKinds)]).out

-----------------------------------------------------------------------------
(***************************************************************************)
(* The operator.                                                           *)
(***************************************************************************)
\* The panel of a point is opened: a drum that is spliced straight through,
\* or of which nothing is recorded.
Opened ==
    /\ openCable = defaultCable /\ schedOpen = FALSE
    /\ expanded = {} /\ openRuns = {}

Init ==
    /\ ending = Cables /\ feed \in {{}, {2}}
    /\ name = [c \in Cables |-> IF c = 3 THEN "" ELSE "a"]
    /\ joints \in {{}, {[fibres |-> {<<1, n>>, <<2, n>>}, port |-> None] : n \in 1..DrumCores}}
    /\ drops = {} /\ facts = 0
    /\ Opened

FoldPlan == schedOpen' = ~schedOpen /\ UNCHANGED <<record, openCable, expanded, openRuns>>

Pick(e) == openCable' = e.main /\ UNCHANGED <<record, schedOpen, expanded, openRuns>>

Expand(row) ==
    /\ row.what # Single
    /\ expanded' = expanded \cup {<<row.from, row.to>>}
    /\ UNCHANGED <<record, openCable, schedOpen, openRuns>>

ExpandPorts(row) ==
    /\ row.from # row.to
    /\ openRuns' = openRuns \cup {row.from}
    /\ UNCHANGED <<record, openCable, schedOpen, expanded>>

-----------------------------------------------------------------------------
(***************************************************************************)
(* A new copy of the record.                                               *)
(***************************************************************************)
Change == facts < MaxFacts /\ facts' = facts + 1
FreeHere == {f \in Fibres : f[1] \in ending /\ joinIndex(f) = None}

\* Only the joints moved: the list of cables is the one it was.
Joined(fs, port) ==
    /\ Change
    /\ fs \subseteq FreeHere /\ fs # {} /\ Cardinality({f[1] : f \in fs}) = Cardinality(fs)
    /\ port # None => ~busyPort(port) /\ Cardinality(fs) = 1
    /\ joints' = joints \cup {[fibres |-> fs, port |-> port]}
    /\ UNCHANGED <<ending, name, feed, drops, view>>

Cleared(j) ==
    /\ Change /\ joints' = joints \ {j}
    /\ UNCHANGED <<ending, name, feed, drops, view>>

Dropped(p) ==
    /\ Change /\ drops' = (drops \cup {p}) \ (drops \cap {p})
    /\ UNCHANGED <<ending, name, feed, joints, view>>

\* The list of cables moved: the folds close, and a cable that is gone is not
\* kept open.
Settle ==
    /\ expanded' = {}
    /\ openCable' = IF openCable \in ending' THEN openCable ELSE defaultCable'
    /\ UNCHANGED <<schedOpen, openRuns>>

Renamed(c, n) ==
    /\ Change /\ c \in ending /\ name[c] # n
    /\ name' = [name EXCEPT ![c] = n]
    /\ UNCHANGED <<ending, feed, joints, drops>>
    /\ Settle

Gone(c) ==
    /\ Change /\ c \in ending
    /\ ending' = ending \ {c}
    /\ joints' = {j \in joints : \A f \in j.fibres : f[1] # c}
    /\ UNCHANGED <<name, feed, drops>>
    /\ Settle

Come(c) ==
    /\ Change /\ c \in Cables \ ending
    /\ ending' = ending \cup {c}
    /\ UNCHANGED <<name, feed, joints, drops>>
    /\ Settle

Next ==
    \/ FoldPlan
    \/ \E e \in entries : Pick(e)
    \/ \E row \in ToSet(Rows) : Expand(row)
    \/ \E row \in ToSet(portRows) : ExpandPorts(row)
    \/ \E fs \in {{f, g} : f, g \in FreeHere}, p \in PortNumbers \cup {None} : Joined(fs, p)
    \/ \E j \in joints : Cleared(j)
    \/ \E p \in PortNumbers : Dropped(p)
    \/ \E c \in Cables : Gone(c) \/ Come(c) \/ \E n \in Names : Renamed(c, n)

Spec == Init /\ [][Next]_vars

-----------------------------------------------------------------------------
(***************************************************************************)
(* Properties.                                                             *)
(***************************************************************************)
\* Rows that follow each other from the first to the last.
Covers(rows, last) ==
    /\ last > 0 => rows # <<>> /\ rows[1].from = 1 /\ rows[Len(rows)].to = last
    /\ \A i \in DOMAIN rows :
          /\ rows[i].from <= rows[i].to
          /\ i > 1 => rows[i].from = rows[i - 1].to + 1

Touched(c, n) == \E j \in joints : <<c, n>> \in j.fibres

\* What a folded row says is so, of each of its cores, on both sides of a cut.
Truth(row, c) ==
    \A n \in row.from..row.to :
        /\ row.what.kind = "free" =>
              ~Touched(c, n) /\ (c \in DOMAIN cutPairs => ~Touched(cutPairs[c], n))
        /\ row.what.kind \in {"run", "through"} =>
              [fibres |-> {<<c, n>>, <<row.what.of, n>>}, port |-> None] \in joints

\* However a cut is spliced, undone, renamed and taken away under the tray:
\* every cable can be picked, every core of the one that is open, or of both
\* halves of its drum, is told once and nothing untrue is told of it, no fold
\* crosses a tube; and every port is told once, and none that is in use is in
\* a fold.
TrayTellsAll ==
    LET rows == Rows
        ports == portRows
        main == IF drum = None THEN openCable ELSE drum.near
    IN
    /\ \A c \in ending : ~isPlumbing(c) =>
          Cardinality({e \in entries : c \in {e.main, e.mate}}) = 1
    /\ openCable # None =>
          /\ openCable \in ending
          /\ Covers(rows, Count(openCable))
          /\ \A row \in ToSet(rows) :
                Truth(row, main) /\ TubeOf(row.from) = TubeOf(row.to)
    /\ Covers(ports, Len(PortKinds))
    /\ \A row \in ToSet(ports) :
          row.from < row.to =>
              \A p \in row.from..row.to :
                  ~busyPort(p) /\ PortKinds[p] = PortKinds[row.from]
===============================================================================
