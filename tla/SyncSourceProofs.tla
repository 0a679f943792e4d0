-------------------------- MODULE SyncSourceProofs ---------------------------
(***************************************************************************)
(* The walk of StartSyncProcess, for listings of any size, any failures    *)
(* and cancellations, and any number of calls: what is sent is due and     *)
(* sent once, parents first, and what a nil return leaves out was logged.  *)
(***************************************************************************)
EXTENDS SyncSource, SequenceTheorems, FiniteSetTheorems, TLAPS

-----------------------------------------------------------------------------
(* The table of listings, as far as the argument needs it.                 *)
Roles == {"github.repositories", "github.runs", "gitlab.projects", "gitlab.projectTokens",
          "gitlab.pipelines", "gitlab.groups", "gitlab.groupTokens", "bitbucket.workspaces",
          "bitbucket.repositories", "bitbucket.pipelines", "nexus.repositories",
          "nexus.components", "sysdig.vulnerabilities", "azure.vm", "azure.group",
          "devops.repositories", "devops.teams", "devops.root", "gcp.assets",
          "console.projects", "console.revisions", "console.tenants", "console.clusters"}

ConsoleRoles == {"console.projects", "console.revisions", "console.tenants",
                 "console.clusters"}

(* How deep listings nest under a listing, itself included.                *)
Height(r) ==
    IF r = "bitbucket.workspaces" THEN 3
    ELSE IF r \in {"github.repositories", "gitlab.projects", "gitlab.groups",
                   "bitbucket.repositories", "nexus.repositories", "console.projects",
                   "console.tenants"} THEN 2
    ELSE 1

Schemes == {"link", "wrapped", "total", "next", "token", "offset", "once"}

SlotSet == [role : Roles, page : Nat, k : Nat]
Items == Seq(SlotSet)
Frames == [at : Items, role : Roles, page : Nat, size : Nat, k : Nat, total : Nat,
           done : BOOLEAN, subs : Seq(Roles)]

Elems(s) == {s[i] : i \in 1..Len(s)}
Distinct(s) == \A i, j \in 1..Len(s) : s[i] = s[j] => i = j

(* Nested listings are of other roles, lower, and never leave the console. *)
SubRole(r, n) == Role(r).subs[n].role
TableOK(r) ==
    /\ Role(r).scheme \in Schemes
    /\ Len(Role(r).subs) \in 0..2
    /\ \A n \in 1..Len(Role(r).subs) :
          /\ SubRole(r, n) \in Roles /\ Height(SubRole(r, n)) + 1 <= Height(r)
          /\ r \in ConsoleRoles => SubRole(r, n) \in ConsoleRoles
    /\ Len(Role(r).subs) = 2 => SubRole(r, 1) # SubRole(r, 2)
    /\ Role(r).unit = "page" => Role(r).scheme = "total"
    /\ r \in ConsoleRoles => "canceled" \in Role(r).skips

(* What the table of listings gives the walk, listing by listing. *)
LEMMA Table == \A r \in Roles : TableOK(r) /\ Height(r) \in 1..3
<1> SUFFICES ASSUME NEW r \in Roles PROVE TableOK(r) /\ Height(r) \in 1..3
  OBVIOUS
<1>h. Height(r) \in 1..3
  BY SMT DEF Height
<1> USE DEF TableOK, Role, Height, SubRole, Schemes, Roles, ConsoleRoles, Listing
<1>1. CASE r = "github.repositories"
  BY <1>1 DEF GithubRepositories
<1>2. CASE r = "github.runs"
  BY <1>2 DEF GithubWorkflowRuns
<1>3. CASE r = "gitlab.projects"
  BY <1>3 DEF GitlabProjects
<1>4. CASE r = "gitlab.projectTokens"
  BY <1>4 DEF GitlabProjectTokens
<1>5. CASE r = "gitlab.pipelines"
  BY <1>5 DEF GitlabPipelines
<1>6. CASE r = "gitlab.groups"
  BY <1>6 DEF GitlabGroups
<1>7. CASE r = "gitlab.groupTokens"
  BY <1>7 DEF GitlabGroupTokens
<1>8. CASE r = "bitbucket.workspaces"
  BY <1>8 DEF BitbucketWorkspaces
<1>9. CASE r = "bitbucket.repositories"
  BY <1>9 DEF BitbucketRepositories
<1>10. CASE r = "bitbucket.pipelines"
  BY <1>10 DEF BitbucketPipelines, Failures
<1>11. CASE r = "nexus.repositories"
  BY <1>11 DEF NexusRepositories
<1>12. CASE r = "nexus.components"
  BY <1>12 DEF NexusComponents, Failures
<1>13. CASE r = "sysdig.vulnerabilities"
  BY <1>13 DEF SysdigVulnerabilities
<1>14. CASE r = "azure.vm"
  BY <1>14 DEF AzureResources
<1>15. CASE r = "azure.group"
  BY <1>15 DEF AzureResources
<1>16. CASE r = "devops.repositories"
  BY <1>16 DEF DevopsResources
<1>17. CASE r = "devops.teams"
  BY <1>17 DEF DevopsResources
<1>18. CASE r = "gcp.assets"
  BY <1>18 DEF GcpAssets
<1>19. CASE r = "console.projects"
  BY <1>19 DEF ConsoleProjects
<1>20. CASE r = "console.revisions"
  BY <1>20 DEF ConsoleRevisions
<1>21. CASE r = "console.tenants"
  BY <1>21 DEF ConsoleTenants
<1>22. CASE r = "console.clusters"
  BY <1>22 DEF ConsoleClusters
<1>23. CASE r = "devops.root"
  BY <1>23 DEF DevopsResources
<1> HIDE DEF TableOK, Role, Height, SubRole, Schemes, ConsoleRoles, Listing
<1> QED BY <1>h, <1>1, <1>2, <1>3, <1>4, <1>5, <1>6, <1>7, <1>8, <1>9, <1>10, <1>11, <1>12,
     <1>13, <1>14, <1>15, <1>16, <1>17, <1>18, <1>19, <1>20, <1>21, <1>22, <1>23 DEF Roles

(* A listing answered in one piece has a natural number of items. *)
LEMMA AllItemsNat == ASSUME NEW s \in Seq(Nat) PROVE AllItems(s) \in Nat
<1> DEFINE f == [p \in 1..Len(s) |-> {p} \X (1..s[p])]
           T == {{p} \X (1..s[p]) : p \in 1..Len(s)}
<1>1. Len(s) \in Nat /\ \A p \in 1..Len(s) : s[p] \in Nat
  BY LenProperties
<1>2. IsFiniteSet(1..Len(s))
  BY <1>1, FS_Interval
<1>3. f \in Surjection(1..Len(s), T)
  BY DEF Surjection
<1>4. IsFiniteSet(T)
  BY <1>2, <1>3, FS_Surjection
<1>5. ASSUME NEW p \in 1..Len(s) PROVE IsFiniteSet({p} \X (1..s[p]))
  <2>1. IsFiniteSet({p})
    BY FS_Singleton
  <2>2. 1 \in Int /\ s[p] \in Int
    BY <1>1
  <2>3. IsFiniteSet(1..s[p])
    BY ONLY <2>2, FS_Interval
  <2> QED BY <2>1, <2>3, FS_Product
<1>6. IsFiniteSet(UNION T)
  BY <1>4, <1>5, FS_UNION
<1> QED BY <1>6, FS_CardinalityType DEF AllItems

(* The pages of a listing: sizes, with no empty page before the last item. *)
LEMMA PagesFacts ==
    ASSUME shape \in Shapes, NEW r \in Roles, NEW d \in 1..3
    PROVE  /\ Pages(r, d) \in Seq(Nat)
           /\ \A p, q \in 1..Len(Pages(r, d)) :
                 p < q /\ Pages(r, d)[p] = 0 => Pages(r, d)[q] = 0
           /\ Role(r).scheme = "once" => Len(Pages(r, d)) = 1
<1>1. /\ shape[d] \in Seq(Nat)
      /\ \A p, q \in 1..Len(shape[d]) : p < q /\ shape[d][p] = 0 => shape[d][q] = 0
  BY ShapesAssumption
<1>2. AllItems(shape[d]) \in Nat
  BY <1>1, AllItemsNat
<1>3. CASE Role(r).scheme = "once"
  <2> DEFINE one == <<AllItems(shape[d])>>
  <2>1. Pages(r, d) = one
    BY <1>3 DEF Pages
  <2>2. one \in Seq(Nat) /\ Len(one) = 1
    BY <1>2
  <2> HIDE DEF one
  <2> QED BY <2>1, <2>2
<1>4. CASE Role(r).scheme # "once"
  BY <1>1, <1>4 DEF Pages
<1> QED BY <1>3, <1>4

(* The elements of sequences that are joined, cut and extended. *)
LEMMA ElemsOf ==
    ASSUME NEW S, NEW s \in Seq(S)
    PROVE  /\ \A e : e \in Elems(s) <=> \E i \in 1..Len(s) : s[i] = e
           /\ Elems(s) \subseteq S
           /\ \A t \in Seq(S) : Elems(s \o t) = Elems(s) \cup Elems(t)
           /\ Elems(<<>>) = {}
           /\ s # <<>> => /\ Head(s) \in Elems(s)
                          /\ Elems(s) = {Head(s)} \cup Elems(Tail(s))
           /\ s # <<>> /\ Distinct(s) => Distinct(Tail(s)) /\ Head(s) \notin Elems(Tail(s))
<1>1. \A e : e \in Elems(s) <=> \E i \in 1..Len(s) : s[i] = e
  BY DEF Elems
<1>2. Elems(s) \subseteq S
  BY LenProperties DEF Elems
<1>3. ASSUME NEW t \in Seq(S) PROVE Elems(s \o t) = Elems(s) \cup Elems(t)
  <2> DEFINE u == s \o t
  <2>1. /\ Len(u) = Len(s) + Len(t) /\ Len(s) \in Nat /\ Len(t) \in Nat
        /\ \A i \in 1..(Len(s) + Len(t)) : u[i] = IF i <= Len(s) THEN s[i] ELSE t[i - Len(s)]
    BY ConcatProperties, LenProperties
  <2> HIDE DEF u
  <2>2. \A i \in 1..Len(s) : i \in 1..Len(u) /\ u[i] = s[i]
    BY <2>1
  <2>3. \A i \in 1..Len(t) : i + Len(s) \in 1..Len(u) /\ u[i + Len(s)] = t[i]
    BY <2>1
  <2>4. \A i \in 1..Len(u) : IF i <= Len(s) THEN i \in 1..Len(s) /\ u[i] = s[i]
                             ELSE i - Len(s) \in 1..Len(t) /\ u[i] = t[i - Len(s)]
    BY <2>1
  <2>5. Elems(u) = Elems(s) \cup Elems(t)
    BY <2>2, <2>3, <2>4 DEF Elems
  <2> QED BY <2>5 DEF u
<1>4. Elems(<<>>) = {}
  BY DEF Elems
<1>5. ASSUME s # <<>>
      PROVE /\ Head(s) \in Elems(s) /\ Elems(s) = {Head(s)} \cup Elems(Tail(s))
            /\ Distinct(s) => Distinct(Tail(s)) /\ Head(s) \notin Elems(Tail(s))
  <2>1. /\ Len(s) \in Nat /\ Len(s) >= 1 /\ Len(Tail(s)) = Len(s) - 1 /\ Head(s) = s[1]
        /\ \A i \in 1..Len(Tail(s)) : Tail(s)[i] = s[i + 1]
    BY <1>5, HeadTailProperties, EmptySeq, LenProperties
  <2> DEFINE h == Head(s)
             t == Tail(s)
  <2> HIDE DEF h, t
  <2>2. \A i \in 1..Len(t) : i + 1 \in 1..Len(s) /\ t[i] = s[i + 1]
    BY <2>1 DEF t
  <2>3. \A i \in 1..Len(s) : i = 1 \/ (i - 1 \in 1..Len(t) /\ s[i] = t[i - 1])
    BY <2>1 DEF t
  <2>4. 1 \in 1..Len(s) /\ s[1] = h
    BY <2>1 DEF h
  <2>5. h \in Elems(s) /\ Elems(s) = {h} \cup Elems(t)
    <3>1. h \in Elems(s)
      BY <2>4 DEF Elems
    <3>2. ASSUME NEW e \in Elems(s) PROVE e \in {h} \cup Elems(t)
      <4>1. PICK i \in 1..Len(s) : e = s[i]
        BY <3>2 DEF Elems
      <4> QED BY <2>3, <2>4, <4>1 DEF Elems
    <3>3. ASSUME NEW e \in Elems(t) PROVE e \in Elems(s)
      <4>1. PICK i \in 1..Len(t) : e = t[i]
        BY <3>3 DEF Elems
      <4> QED BY <2>2, <4>1 DEF Elems
    <3> QED BY <3>1, <3>2, <3>3
  <2>6. ASSUME Distinct(s) PROVE Distinct(t) /\ h \notin Elems(t)
    <3>1. ASSUME NEW i \in 1..Len(t), NEW j \in 1..Len(t), t[i] = t[j] PROVE i = j
      <4>1. i + 1 \in 1..Len(s) /\ j + 1 \in 1..Len(s) /\ s[i + 1] = s[j + 1]
        BY <2>2, <3>1
      <4>2. i + 1 = j + 1
        BY <2>6, <4>1 DEF Distinct
      <4> QED BY <4>2, <2>1 DEF t
    <3>2. ASSUME NEW i \in 1..Len(t), t[i] = h PROVE FALSE
      <4>1. i + 1 \in 1..Len(s) /\ s[i + 1] = s[1] /\ 1 \in 1..Len(s)
        BY <2>2, <3>2, <2>4
      <4>2. i + 1 = 1
        BY <2>6, <4>1 DEF Distinct
      <4> QED BY <4>2, <2>1 DEF t
    <3>3. Distinct(t)
      BY <3>1 DEF Distinct
    <3>4. h \notin Elems(t)
      BY <3>2 DEF Elems
    <3> QED BY <3>3, <3>4
  <2> QED BY <2>5, <2>6 DEF h, t
<1> QED BY <1>1, <1>2, <1>3, <1>4, <1>5

(* Sequences of at most two elements. *)
LEMMA Short ==
    ASSUME NEW a, NEW b
    PROVE  /\ <<>> \o <<>> = <<>>
           /\ <<>> \o <<b>> = <<b>> /\ <<a>> \o <<>> = <<a>> /\ <<a>> \o <<b>> = <<a, b>>
           /\ Elems(<<a>>) = {a} /\ Distinct(<<a>>)
           /\ Elems(<<a, b>>) = {a, b} /\ (a # b => Distinct(<<a, b>>))
<1> DEFINE S == {a, b}
           u == <<a>> \o <<b>>
           v == <<a, b>>
<1>1. <<>> \in Seq(S) /\ <<a>> \in Seq(S) /\ <<b>> \in Seq(S) /\ v \in Seq(S)
  OBVIOUS
<1>2. /\ <<>> \o <<>> = <<>>
      /\ <<>> \o <<b>> = <<b>> /\ <<a>> \o <<>> = <<a>>
  BY ONLY <1>1, ConcatEmptySeq
<1>3. /\ u \in Seq(S) /\ Len(u) = Len(<<a>>) + Len(<<b>>)
      /\ \A i \in 1..(Len(<<a>>) + Len(<<b>>)) :
            u[i] = IF i <= Len(<<a>>) THEN <<a>>[i] ELSE <<b>>[i - Len(<<a>>)]
  BY ONLY <1>1, ConcatProperties
<1>4. Len(u) = 2 /\ u[1] = a /\ u[2] = b /\ Len(v) = 2 /\ v[1] = a /\ v[2] = b
  <2> HIDE DEF u
  <2> QED BY <1>3
<1>5. u = v
  <2> HIDE DEF S, u, v
  <2>1. \A i \in 1..Len(u) : u[i] = v[i]
    BY <1>4
  <2> QED BY <2>1, <1>1, <1>3, <1>4, SeqEqual
<1>6. Elems(<<a>>) = {a} /\ Distinct(<<a>>)
  BY DEF Elems, Distinct
<1>7. Elems(<<a, b>>) = {a, b}
  <2>1. 1..2 = {1, 2}
    OBVIOUS
  <2>2. {v[i] : i \in 1..2} = {v[1], v[2]}
    BY <2>1
  <2> QED BY <1>4, <2>2 DEF Elems
<1>8. a # b => Distinct(<<a, b>>)
  BY DEF Distinct
<1> QED BY <1>2, <1>5, <1>6, <1>7, <1>8

(* The listings under an item: no role twice, each lower than the item's. *)
LEMMA SubsFacts ==
    ASSUME NEW x \in Items, x # <<>>
    PROVE  /\ Subs(x) \in Seq(Roles) /\ Distinct(Subs(x))
           /\ \A r \in Elems(Subs(x)) :
                 /\ Height(r) + 1 <= Height(x[Len(x)].role)
                 /\ x[Len(x)].role \in ConsoleRoles => r \in ConsoleRoles
<1> DEFINE r == x[Len(x)].role
           Lower(e) == e \in Roles /\ Height(e) + 1 <= Height(r)
                       /\ (r \in ConsoleRoles => e \in ConsoleRoles)
<1>1. r \in Roles
  <2>1. Len(x) \in 1..Len(x)
    BY EmptySeq DEF Items
  <2>2. x[Len(x)] \in SlotSet
    BY <2>1, ElementOfSeq DEF Items
  <2> QED BY <2>2 DEF SlotSet
<1>2. TableOK(r)
  BY <1>1, Table
<1>3. ASSUME NEW n \in 1..2
      PROVE  \/ Sub(x, n) = <<>>
             \/ n <= Len(Role(r).subs) /\ Sub(x, n) = <<SubRole(r, n)>> /\ Lower(SubRole(r, n))
  BY <1>2 DEF Sub, RoleOf, TableOK, SubRole
<1> DEFINE a == SubRole(r, 1)
           b == SubRole(r, 2)
<1> HIDE DEF r, Lower
<1>4. ASSUME NEW e, Lower(e) PROVE <<e>> \in Seq(Roles) /\ Elems(<<e>>) = {e} /\ Distinct(<<e>>)
  <2>1. <<e>> \in Seq(Roles)
    BY <1>4 DEF Lower
  <2> QED BY <2>1, Short
<1>5. \/ Subs(x) = <<>>
      \/ Subs(x) = Sub(x, 1) \o Sub(x, 2)
  BY DEF Subs
<1>6. CASE Subs(x) = <<>>
  BY <1>6 DEF Distinct, Elems
<1>7. CASE Subs(x) = Sub(x, 1) \o Sub(x, 2)
  <2>1. \/ Subs(x) = <<>>
        \/ Subs(x) = <<a>> /\ Lower(a)
        \/ Subs(x) = <<b>> /\ Lower(b)
        \/ Subs(x) = <<a, b>> /\ Lower(a) /\ Lower(b) /\ a # b
    <3>1. \/ Sub(x, 1) = <<>>
          \/ Sub(x, 1) = <<a>> /\ Lower(a)
      BY <1>3
    <3>2. \/ Sub(x, 2) = <<>>
          \/ Sub(x, 2) = <<b>> /\ Lower(b) /\ a # b
      BY <1>2, <1>3 DEF TableOK, r
    <3> HIDE DEF a, b
    <3>3. /\ <<>> \o <<>> = <<>> /\ <<>> \o <<b>> = <<b>>
          /\ <<a>> \o <<>> = <<a>> /\ <<a>> \o <<b>> = <<a, b>>
      BY Short
    <3> QED BY <1>7, <3>1, <3>2, <3>3
  <2>2. CASE Subs(x) = <<a, b>> /\ Lower(a) /\ Lower(b) /\ a # b
    <3> HIDE DEF a, b
    <3>1. Subs(x) \in Seq(Roles)
      BY <2>2 DEF Lower
    <3>2. Distinct(Subs(x)) /\ Elems(Subs(x)) = {a, b}
      BY <2>2, Short
    <3> QED BY <2>2, <3>1, <3>2 DEF Lower, r
  <2>3. CASE Subs(x) = <<a>> /\ Lower(a)
    <3> HIDE DEF a
    <3> QED BY <2>3, <1>4 DEF Lower, r
  <2>4. CASE Subs(x) = <<b>> /\ Lower(b)
    <3> HIDE DEF b
    <3> QED BY <2>4, <1>4 DEF Lower, r
  <2> QED BY <1>6, <2>1, <2>2, <2>3, <2>4
<1> QED BY <1>5, <1>6, <1>7

(* A plan names listings of the table, none of them twice. *)
LEMMA PlanFacts ==
    ASSUME NEW s \in Sources, NEW ts, NEW order \in Plans(s, ts)
    PROVE  /\ order \in Seq(Roles) /\ Distinct(order)
           /\ s = "console" => Elems(order) \subseteq ConsoleRoles
<1> DEFINE Mine(a) == a \in Roles /\ (s = "console" => a \in ConsoleRoles)
           Good(o) == /\ o \in Seq(Roles) /\ Distinct(o)
                      /\ s = "console" => Elems(o) \subseteq ConsoleRoles
<1>1. s \in {"github", "gitlab", "bitbucket", "nexus", "sysdig", "azure", "devops", "gcp",
             "console"}
  BY SourcesAssumption DEF Swallows
<1>2. ASSUME NEW a, NEW b, NEW U, NEW V, Mine(a), Mine(b), a # b
      PROVE  /\ Good(Listings(a, U, ts))
             /\ Good(Listings(a, U, ts) \o Listings(b, V, ts))
             /\ Elems(Listings(a, U, ts) \o Listings(b, V, ts)) \subseteq {a, b}
  <2> DEFINE l == Listings(a, U, ts)
             m == Listings(b, V, ts)
  <2>1. (l = <<>> \/ l = <<a>>) /\ (m = <<>> \/ m = <<b>>)
    BY DEF Listings
  <2> HIDE DEF l, m
  <2>2. l \o m \in {<<>>, <<a>>, <<b>>, <<a, b>>} /\ l \in {<<>>, <<a>>}
    BY ONLY <2>1, Short
  <2>3. ASSUME NEW o \in {<<>>, <<a>>, <<b>>, <<a, b>>}
        PROVE  Good(o) /\ Elems(o) \subseteq {a, b}
    <3>1. o \in Seq(Roles)
      <4>1. <<>> \in Seq(Roles) /\ <<a>> \in Seq(Roles) /\ <<b>> \in Seq(Roles)
        BY <1>2
      <4>2. <<a, b>> \in Seq(Roles)
        BY <1>2
      <4> QED BY <4>1, <4>2
    <3>2. Distinct(o) /\ Elems(o) \subseteq {a, b}
      <4>1. Distinct(<<>>) /\ Elems(<<>>) = {}
        BY DEF Distinct, Elems
      <4>2. /\ Distinct(<<a>>) /\ Elems(<<a>>) = {a} /\ Distinct(<<b>>) /\ Elems(<<b>>) = {b}
            /\ Distinct(<<a, b>>) /\ Elems(<<a, b>>) = {a, b}
        BY ONLY <1>2, Short
      <4> QED BY <4>1, <4>2
    <3> QED BY <1>2, <3>1, <3>2
  <2> QED BY <2>2, <2>3 DEF l, m
<1>4. ASSUME NEW o, NEW c, NEW W, Good(o), Mine(c), c \notin Elems(o)
      PROVE  Good(o \o Listings(c, W, ts))
  <2> DEFINE l == Listings(c, W, ts)
             u == o \o <<c>>
  <2>1. l = <<>> \/ l = <<c>>
    BY DEF Listings
  <2> HIDE DEF l
  <2>2. o \in Seq(Roles) /\ <<c>> \in Seq(Roles) /\ Len(o) \in Nat /\ Len(<<c>>) = 1
    BY <1>4, LenProperties
  <2>3. CASE l = <<>>
    <3>1. o \o l = o
      BY <2>2, <2>3, ConcatEmptySeq
    <3> HIDE DEF Good
    <3> QED BY <1>4, <3>1 DEF l
  <2>4. CASE l = <<c>>
    <3>1. /\ u \in Seq(Roles) /\ Len(u) = Len(o) + Len(<<c>>)
          /\ \A i \in 1..(Len(o) + Len(<<c>>)) :
                u[i] = IF i <= Len(o) THEN o[i] ELSE <<c>>[i - Len(o)]
      BY ONLY <2>2, ConcatProperties
    <3> HIDE DEF u
    <3>2. /\ Len(u) = Len(o) + 1 /\ u[Len(o) + 1] = c
          /\ \A i \in 1..Len(o) : u[i] = o[i] /\ o[i] # c
      BY <1>4, <2>2, <3>1 DEF Elems
    <3>3. Distinct(u)
      BY <1>4, <2>2, <3>2 DEF Distinct
    <3>4. Elems(u) \subseteq Elems(o) \cup {c}
      BY <2>2, <3>2 DEF Elems
    <3>5. Good(u)
      BY <1>4, <3>1, <3>3, <3>4
    <3> QED BY <2>4, <3>5 DEF l, u
  <2> QED BY <2>1, <2>3, <2>4
<1>5. ASSUME NEW a, NEW b, NEW c, NEW U, NEW V, NEW W, Mine(a), Mine(b), Mine(c),
             a # b, a # c, b # c
      PROVE  Good(Listings(a, U, ts) \o Listings(b, V, ts) \o Listings(c, W, ts))
  <2> DEFINE o == Listings(a, U, ts) \o Listings(b, V, ts)
  <2> HIDE DEF Good, Mine
  <2>1. Good(o) /\ Elems(o) \subseteq {a, b}
    BY <1>2, <1>5
  <2>2. c \notin Elems(o)
    BY <1>5, <2>1
  <2> HIDE DEF o
  <2>3. Good(o \o Listings(c, W, ts))
    BY <1>4, <1>5, <2>1, <2>2
  <2> QED BY <2>3 DEF o
<1>3. Good(order)
  <2> HIDE DEF Good
  <2>1. CASE s = "github"
    <3>1. Mine("github.repositories") /\ Mine("github.runs")
      BY <2>1 DEF Roles, ConsoleRoles
    <3>2. Plans(s, ts) = GithubPlans(ts)
      BY <2>1 DEF Plans
    <3> HIDE DEF Mine
    <3> QED BY <1>2, <3>1, <3>2 DEF GithubPlans
  <2>2. CASE s = "gitlab"
    <3>1. Mine("gitlab.projects") /\ Mine("gitlab.groups")
      BY <2>2 DEF Roles, ConsoleRoles
    <3>2. Plans(s, ts) = GitlabPlans(ts)
      BY <2>2 DEF Plans
    <3> HIDE DEF Mine
    <3>3. Good(Listings("gitlab.projects", {"project"}, ts)
               \o Listings("gitlab.groups", {"accesstoken"}, ts))
      BY <1>2, <3>1
    <3> QED BY <3>2, <3>3 DEF GitlabPlans
  <2>3. CASE s = "bitbucket"
    <3>1. Mine("bitbucket.workspaces") /\ Mine("bitbucket.repositories")
      BY <2>3 DEF Roles, ConsoleRoles
    <3>2. Plans(s, ts) = BitbucketPlans(ts)
      BY <2>3 DEF Plans
    <3> HIDE DEF Mine
    <3> QED BY <1>2, <3>1, <3>2 DEF BitbucketPlans
  <2>4. CASE s = "nexus"
    <3>1. Mine("nexus.repositories") /\ Mine("nexus.components")
      BY <2>4 DEF Roles, ConsoleRoles
    <3>2. Plans(s, ts) = NexusPlans(ts)
      BY <2>4 DEF Plans
    <3> HIDE DEF Mine
    <3> QED BY <1>2, <3>1, <3>2 DEF NexusPlans
  <2>5. CASE s = "sysdig"
    <3>1. Mine("sysdig.vulnerabilities") /\ Mine("nexus.components")
      BY <2>5 DEF Roles, ConsoleRoles
    <3>2. Plans(s, ts) = SysdigPlans(ts)
      BY <2>5 DEF Plans
    <3> HIDE DEF Mine
    <3> QED BY <1>2, <3>1, <3>2 DEF SysdigPlans
  <2>6. CASE s = "azure"
    <3>1. Mine("azure.vm") /\ Mine("azure.group")
      BY <2>6 DEF Roles, ConsoleRoles
    <3>2. Plans(s, ts) = AzurePlans(ts)
      BY <2>6 DEF Plans
    <3> HIDE DEF Mine
    <3> DEFINE l == Listings("azure.vm", {"vm"}, ts)
               m == Listings("azure.group", {"group"}, ts)
    <3>3. Good(l \o m) /\ Good(m \o l)
      BY <1>2, <3>1
    <3> QED BY <3>2, <3>3 DEF AzurePlans
  <2>7. CASE s = "devops"
    <3>1. Mine("devops.repositories") /\ Mine("devops.teams") /\ Mine("devops.root")
      BY <2>7 DEF Roles, ConsoleRoles
    <3>2. Plans(s, ts) = DevopsPlans(ts)
      BY <2>7 DEF Plans
    <3> HIDE DEF Mine
    <3> DEFINE l == Listings("devops.repositories", {"gitrepository"}, ts)
               m == Listings("devops.teams", {"team"}, ts)
               o == Listings("devops.root", {"unknown"}, ts)
    <3>3. /\ Good(l \o m \o o) /\ Good(l \o o \o m) /\ Good(o \o l \o m)
          /\ Good(m \o l \o o) /\ Good(m \o o \o l) /\ Good(o \o m \o l)
      BY <1>5, <3>1
    <3> QED BY <3>2, <3>3 DEF DevopsPlans
  <2>8. CASE s = "console"
    <3>1. Mine("console.projects") /\ Mine("console.tenants")
      BY <2>8 DEF Roles, ConsoleRoles
    <3>2. Plans(s, ts) = ConsolePlans(ts)
      BY <2>8 DEF Plans
    <3> HIDE DEF Mine
    <3>3. Good(Listings("console.projects", {"project", "revision"}, ts)
               \o Listings("console.tenants", {"cluster"}, ts))
      BY <1>2, <3>1
    <3> QED BY <3>2, <3>3 DEF ConsolePlans
  <2>9. CASE s = "gcp"
    <3>1. order = <<"gcp.assets">> /\ "gcp.assets" \in Roles
      BY <2>9 DEF Plans, GcpPlans, Roles
    <3>2. Elems(order) = {"gcp.assets"} /\ Distinct(order)
      BY <3>1, Short
    <3>3. order \in Seq(Roles)
      BY <3>1
    <3> QED BY <2>9, <3>2, <3>3 DEF Good
  <2> QED BY <1>1, <2>1, <2>2, <2>3, <2>4, <2>5, <2>6, <2>7, <2>8, <2>9
<1> QED BY <1>3

-----------------------------------------------------------------------------
(* The items that are due, by what holds of their slots; Due enumerates    *)
(* them.                                                                   *)
Valid(slot, depth) ==
    /\ slot.page \in 1..Len(Pages(slot.role, depth))
    /\ slot.k \in 1..Pages(slot.role, depth)[slot.page]

Placed(x) ==
    /\ x \in Items /\ Len(x) \in 1..3
    /\ x[1].role \in Elems(plan)
    /\ \A j \in 1..Len(x) : Valid(x[j], j)
    /\ \A j \in 1..(Len(x) - 1) :
          ~Skipped(SubSeq(x, 1, j)) /\ x[j + 1].role \in Elems(Subs(SubSeq(x, 1, j)))

Owed(x) == Placed(x) /\ RoleOf(x).type \in types /\ ~Skipped(x)

-----------------------------------------------------------------------------
(* Where a walk with the listings R before it and the frames S stands.     *)
SlotOf(f) == [role |-> f.role, page |-> f.page, k |-> f.k]

(* The item x lies under the same items as the listing of frame n.         *)
Under(x, f, n) == Len(x) >= n /\ \A j \in 1..(n - 1) : x[j] = f.at[j]

(* x has an ancestor in that listing: the item the walk is at.             *)
InItem(x, f, n) == Len(x) > n /\ x[n] = SlotOf(f)

Behind(x, f, n) ==
    \/ x[n].page < f.page
    \/ x[n].page = f.page /\ x[n].k <= f.k

InFront(x, f, n) ==
    \/ x[n].page = f.page /\ f.k < x[n].k /\ x[n].k <= f.size
    \/ x[n].page > f.page /\ ~f.done

AheadIn(x, f, n) ==
    /\ Under(x, f, n)
    /\ \/ x[n].role = f.role /\ InFront(x, f, n)
       \/ InItem(x, f, n) /\ x[n + 1].role \in Elems(f.subs)

PassedIn(x, f, n) ==
    Under(x, f, n) =>
       /\ x[n].role = f.role => Behind(x, f, n)
       /\ InItem(x, f, n) => x[n + 1].role \notin Elems(f.subs)

(* The walk has still to come to x, or has passed it: the first for an     *)
(* item that must still be sent, the second for one that was.              *)
Ahead(x, R, S) == x[1].role \in Elems(R) \/ \E n \in 1..Len(S) : AheadIn(x, S[n], n)
Passed(x, R, S) == x[1].role \notin Elems(R) /\ \A n \in 1..Len(S) : PassedIn(x, S[n], n)

-----------------------------------------------------------------------------
(* The inductive invariant.                                                *)
CallInv ==
    /\ source \in Sources /\ shape \in Shapes /\ odd \in 0..2
    /\ lock \in BOOLEAN /\ running \in BOOLEAN /\ cancelled \in BOOLEAN
    /\ hidden \in BOOLEAN
    /\ outcome \in {"none", "nil", "error", "panic"} /\ calls \in 0..MaxCalls
    /\ types \subseteq KnownTypes(source)
    /\ plan \in Seq(Roles)
    /\ source = "console" => Elems(plan) \subseteq ConsoleRoles
    /\ ~running => stack = <<>> /\ roots = <<>> /\ buffer = <<>>
    /\ running => outcome = "none"

(* A frame: a listing that belongs where it is walked, a page of it, and   *)
(* the listings left to walk under the item it is at.                      *)
Fits(f, n) ==
    /\ Len(f.at) = n - 1
    /\ n = 1 => f.role \in Elems(plan)
    /\ n > 1 => Placed(f.at) /\ ~Skipped(f.at) /\ f.role \in Elems(Subs(f.at))

Home(f, n) ==
    /\ Fits(f, n) /\ n + Height(f.role) <= 4
    /\ source = "console" => f.role \in ConsoleRoles

OnPage(f, n) ==
    /\ f.k <= f.size
    /\ f.total \in {0, Len(Pages(f.role, n))}
    /\ f.size # 0 => f.page \in 1..Len(Pages(f.role, n)) /\ f.size = Pages(f.role, n)[f.page]

Nested(f) ==
    /\ Distinct(f.subs)
    /\ f.subs # <<>> =>
          /\ Placed(Append(f.at, SlotOf(f))) /\ ~Skipped(Append(f.at, SlotOf(f)))
          /\ Elems(f.subs) \subseteq Elems(Subs(Append(f.at, SlotOf(f))))

(* Each frame but the first lies under the item of the frame before it,    *)
(* in a listing that frame has no longer to walk.                          *)
Linked(n, R, S) ==
    /\ \A j \in 1..(n - 1) : S[n].at[j] = SlotOf(S[j])
    /\ IF n = 1 THEN S[n].role \notin Elems(R) ELSE S[n].role \notin Elems(S[n - 1].subs)

StackOK(R, S) ==
    /\ R \in Seq(Roles) /\ Distinct(R) /\ Elems(R) \subseteq Elems(plan)
    /\ S \in Seq(Frames)
    /\ \A n \in 1..Len(S) :
          Home(S[n], n) /\ OnPage(S[n], n) /\ Nested(S[n]) /\ Linked(n, R, S)

OutOK(O, R, S) ==
    /\ \A i \in 1..Len(O) : Owed(O[i]) /\ Passed(O[i], R, S)
    /\ \A i, j \in 1..Len(O) :
          i < j /\ Len(O[i]) >= Len(O[j]) => SubSeq(O[i], 1, Len(O[j])) # O[j]

Covered(O, G, R, S) ==
    \A x : Owed(x) => \/ x \in Elems(O)
                      \/ \E g \in G : Lies(x, g)
                      \/ Ahead(x, R, S)

(* What was sent or waits in the buffer of the console source.             *)
Out == sent \o buffer

ConsoleInv ==
    /\ source # "console" => buffer = <<>>
    /\ source = "console" /\ (roots # <<>> \/ stack # <<>> \/ outcome \in {"error", "panic"})
          => sent = <<>>

CancelInv == ~running /\ cancelled /\ outcome = "error" => source \in {"gitlab", "gcp"}

WalkInv ==
    /\ CallInv
    /\ StackOK(roots, stack)
    /\ sent \in Seq(Items) /\ buffer \in Seq(Items) /\ OutOK(Out, roots, stack)
    /\ ConsoleInv
    /\ (running \/ outcome = "nil") /\ ~cancelled /\ ~hidden => Covered(Out, gaps, roots, stack)
    /\ CancelInv

-----------------------------------------------------------------------------
Ground == <<World, types, plan>>

(* What the remote system holds and the call asks for stays as it is while *)
(* the call runs.                                                          *)
LEMMA GroundStays ==
    ASSUME UNCHANGED Ground
    PROVE  /\ \A r, d : Pages(r, d)' = Pages(r, d)
           /\ \A x : Skipped(x)' = Skipped(x) /\ Subs(x)' = Subs(x)
           /\ \A x : Placed(x)' = Placed(x) /\ Owed(x)' = Owed(x)
<1> USE DEF Ground, World
<1>1. ASSUME NEW r, NEW d PROVE Pages(r, d)' = Pages(r, d)
  BY DEF Pages
<1>2. ASSUME NEW x PROVE Skipped(x)' = Skipped(x) /\ Subs(x)' = Subs(x)
  <2>1. Skipped(x)' = Skipped(x) /\ Unidentified(x)' = Unidentified(x)
    BY DEF Skipped, Unidentified, RoleOf
  <2>2. \A n : Sub(x, n)' = Sub(x, n)
    BY DEF Sub, Requested, RoleOf
  <2> QED BY <2>1, <2>2 DEF Subs, RoleOf
<1>3. ASSUME NEW x, NEW d PROVE Valid(x, d)' = Valid(x, d)
  BY <1>1 DEF Valid
<1>4. ASSUME NEW x PROVE Placed(x)' = Placed(x)
  BY <1>2, <1>3 DEF Placed
<1>5. ASSUME NEW x PROVE Owed(x)' = Owed(x)
  BY <1>2, <1>4 DEF Owed, RoleOf
<1> QED BY <1>1, <1>2, <1>4, <1>5

(* The parts of the invariant only depend on it, so they stay as well. *)
LEMMA GroundParts ==
    ASSUME UNCHANGED Ground
    PROVE  /\ \A f, n : /\ Home(f, n)' = Home(f, n) /\ OnPage(f, n)' = OnPage(f, n)
                        /\ Nested(f)' = Nested(f)
           /\ \A R, S : StackOK(R, S) => StackOK(R, S)'
           /\ \A O, R, S : OutOK(O, R, S) => OutOK(O, R, S)'
           /\ \A O, G, R, S : Covered(O, G, R, S) => Covered(O, G, R, S)'
<1>1. ASSUME NEW f, NEW n PROVE Home(f, n)' = Home(f, n)
  BY GroundStays DEF Home, Fits, Ground, World
<1>2. ASSUME NEW f, NEW n PROVE OnPage(f, n)' = OnPage(f, n)
  BY GroundStays DEF OnPage
<1>3. ASSUME NEW f PROVE Nested(f)' = Nested(f)
  BY GroundStays DEF Nested
<1>4. ASSUME NEW R, NEW S, StackOK(R, S) PROVE StackOK(R, S)'
  BY <1>1, <1>2, <1>3, <1>4 DEF StackOK, Ground
<1>5. ASSUME NEW O, NEW R, NEW S, OutOK(O, R, S) PROVE OutOK(O, R, S)'
  BY <1>5, GroundStays DEF OutOK
<1>6. ASSUME NEW O, NEW G, NEW R, NEW S, Covered(O, G, R, S) PROVE Covered(O, G, R, S)'
  BY <1>6, GroundStays DEF Covered
<1> QED BY <1>1, <1>2, <1>3, <1>4, <1>5, <1>6

-----------------------------------------------------------------------------
(* What pushing, replacing and dropping a frame does to the stack, to the  *)
(* items passed and to the items ahead.                                    *)

(* The stack without its top frame, and with another one in its place. *)
LEMMA TopOf ==
    ASSUME NEW S \in Seq(Frames), S # <<>>
    PROVE  /\ Len(S) \in Nat \ {0} /\ S[Len(S)] \in Frames
           /\ SubSeq(S, 1, Len(S) - 1) \in Seq(Frames)
           /\ Len(SubSeq(S, 1, Len(S) - 1)) = Len(S) - 1
           /\ \A i \in 1..(Len(S) - 1) : SubSeq(S, 1, Len(S) - 1)[i] = S[i]
<1>1. Len(S) \in Nat \ {0}
  BY EmptySeq
<1>2. \A i \in 1..Len(S) : S[i] \in Frames
  BY LenProperties
<1>3. 1 \in Int /\ Len(S) - 1 \in Int /\ \A i \in 1..(Len(S) - 1) : S[i] \in Frames
  BY <1>1, <1>2
<1> DEFINE B == SubSeq(S, 1, Len(S) - 1)
<1>4. /\ B \in Seq(Frames)
      /\ Len(B) = IF 1 <= Len(S) - 1 THEN ((Len(S) - 1) - 1) + 1 ELSE 0
      /\ \A i \in 1..(((Len(S) - 1) - 1) + 1) : B[i] = S[1 + i - 1]
  BY ONLY <1>3, SubSeqProperties
<1> HIDE DEF B
<1>5. Len(B) = Len(S) - 1
  <2>1. Len(B) = IF 1 <= Len(S) - 1 THEN ((Len(S) - 1) - 1) + 1 ELSE 0
    BY <1>4
  <2>2. PICK L \in Nat : L = Len(S) /\ L # 0
    BY <1>1
  <2>3. Len(B) = IF 1 <= L - 1 THEN ((L - 1) - 1) + 1 ELSE 0
    BY <2>1, <2>2
  <2>4. Len(B) = L - 1
    BY ONLY <2>3, <2>2
  <2> QED BY <2>2, <2>4
<1>6. ASSUME NEW i \in 1..(Len(S) - 1) PROVE B[i] = S[i]
  <2>1. i \in 1..(((Len(S) - 1) - 1) + 1) /\ 1 + i - 1 = i
    BY <1>1
  <2> QED BY <1>4, <2>1
<1> QED BY <1>1, <1>2, <1>4, <1>5, <1>6 DEF B

(* A frame deep in the stack is one of three, and so are its pages. *)
LEMMA FrameFacts ==
    ASSUME shape \in Shapes, NEW R, NEW S, StackOK(R, S), NEW n \in 1..Len(S)
    PROVE  /\ S[n] \in Frames /\ S[n].at \in Items /\ S[n].role \in Roles
           /\ S[n].page \in Nat /\ S[n].size \in Nat /\ S[n].k \in Nat /\ S[n].total \in Nat
           /\ S[n].done \in BOOLEAN /\ S[n].subs \in Seq(Roles)
           /\ n \in 1..3 /\ Len(S) \in Nat /\ n <= Len(S)
           /\ Home(S[n], n) /\ OnPage(S[n], n) /\ Nested(S[n]) /\ Linked(n, R, S)
           /\ Pages(S[n].role, n) \in Seq(Nat)
<1>1. S[n] \in Frames /\ Len(S) \in Nat
  BY LenProperties DEF StackOK
<1>2. S[n].role \in Roles
  BY <1>1 DEF Frames
<1>3. n \in 1..3
  <2>1. Height(S[n].role) \in 1..3
    BY <1>2, Table
  <2>2. n + Height(S[n].role) <= 4
    BY DEF StackOK, Home, Fits
  <2> HIDE DEF Height
  <2> QED BY <1>1, <2>1, <2>2
<1>4. Pages(S[n].role, n) \in Seq(Nat)
  BY <1>2, <1>3, PagesFacts
<1>5. Home(S[n], n) /\ OnPage(S[n], n) /\ Nested(S[n]) /\ Linked(n, R, S)
  BY DEF StackOK
<1>6. /\ S[n].at \in Items /\ S[n].role \in Roles
      /\ S[n].page \in Nat /\ S[n].size \in Nat /\ S[n].k \in Nat /\ S[n].total \in Nat
      /\ S[n].done \in BOOLEAN /\ S[n].subs \in Seq(Roles)
  BY <1>1 DEF Frames
<1>7. n <= Len(S)
  BY <1>1
<1> QED BY <1>1, <1>3, <1>4, <1>5, <1>6, <1>7

(* Dropping the top frame, as when a listing is done or given up. *)
LEMMA Pop ==
    ASSUME NEW R, NEW S, StackOK(R, S), S # <<>>, NEW B, B = SubSeq(S, 1, Len(S) - 1)
    PROVE  /\ StackOK(R, B)
           /\ \A x : Passed(x, R, S) => Passed(x, R, B)
           /\ \A x : Ahead(x, R, S) => Ahead(x, R, B) \/ AheadIn(x, S[Len(S)], Len(S))
<1>1. /\ Len(S) \in Nat \ {0} /\ B \in Seq(Frames) /\ Len(B) = Len(S) - 1
      /\ \A i \in 1..(Len(S) - 1) : B[i] = S[i]
  BY TopOf DEF StackOK
<1>2. \A i \in 1..Len(B) : i \in 1..Len(S) /\ B[i] = S[i] /\ \A j \in 1..(i - 1) : B[j] = S[j]
  BY <1>1
<1>3. \A i \in 1..Len(S) : i \in 1..Len(B) \/ i = Len(S)
  BY <1>1
<1>4. ASSUME NEW n \in 1..Len(B) PROVE Linked(n, R, B)
  <2>1. Linked(n, R, S)
    BY <1>2 DEF StackOK
  <2>2. n # 1 => n - 1 \in 1..(n - 1)
    BY <1>1
  <2> QED BY <1>2, <2>1, <2>2 DEF Linked
<1>5. StackOK(R, B)
  BY <1>1, <1>2, <1>4 DEF StackOK
<1>6. \A x : Passed(x, R, S) => Passed(x, R, B)
  BY <1>2 DEF Passed
<1>7. \A x : Ahead(x, R, S) => Ahead(x, R, B) \/ AheadIn(x, S[Len(S)], Len(S))
  BY <1>2, <1>3 DEF Ahead
<1> QED BY <1>5, <1>6, <1>7

(* A frame f is entered under the item of the top frame, or as the first. *)
Pushed(R, S, n, f, T) ==
    /\ StackOK(R, S) /\ n = Len(S) + 1 /\ f \in Frames
    /\ Home(f, n) /\ OnPage(f, n) /\ Nested(f)
    /\ \A j \in 1..Len(S) : f.at[j] = SlotOf(S[j])
    /\ IF n = 1 THEN f.role \notin Elems(R) ELSE f.role \notin Elems(S[n - 1].subs)
    /\ T = Append(S, f)

(* Pushing the frame of a listing under the item the top frame is at. *)
LEMMA Push ==
    ASSUME NEW R, NEW S, NEW n, NEW f, NEW T, Pushed(R, S, n, f, T)
    PROVE  /\ StackOK(R, T)
           /\ \A x : Passed(x, R, S) /\ PassedIn(x, f, n) => Passed(x, R, T)
           /\ \A x : Ahead(x, R, S) \/ AheadIn(x, f, n) => Ahead(x, R, T)
<1> USE DEF Pushed
<1>1. /\ Len(S) \in Nat /\ T \in Seq(Frames) /\ Len(T) = n /\ T[n] = f
      /\ \A i \in 1..Len(S) : T[i] = S[i]
  BY AppendProperties, LenProperties DEF StackOK
<1>2. \A i \in 1..Len(T) : i = n \/ (i \in 1..Len(S) /\ T[i] = S[i]
                                       /\ \A j \in 1..(i - 1) : T[j] = S[j])
  BY <1>1
<1>3. n \in 1..Len(T) /\ \A i \in 1..Len(S) : i \in 1..Len(T)
  BY <1>1
<1>4. ASSUME NEW i \in 1..Len(T) PROVE Linked(i, R, T)
  <2>1. CASE i = n
    <3>1. \A j \in 1..(n - 1) : T[n].at[j] = SlotOf(T[j])
      BY <1>1
    <3>2. n # 1 => T[n - 1] = S[n - 1]
      BY <1>1
    <3> QED BY <1>1, <2>1, <3>1, <3>2 DEF Linked
  <2>2. CASE i # n
    <3>1. Linked(i, R, S)
      BY <1>2, <2>2 DEF StackOK
    <3>2. i # 1 => i - 1 \in 1..(i - 1)
      BY <1>1
    <3> QED BY <1>2, <2>2, <3>1, <3>2 DEF Linked
  <2> QED BY <2>1, <2>2
<1>5. StackOK(R, T)
  BY <1>1, <1>2, <1>4 DEF StackOK
<1>6. \A x : Passed(x, R, S) /\ PassedIn(x, f, n) => Passed(x, R, T)
  BY <1>1, <1>2 DEF Passed
<1>7. \A x : Ahead(x, R, S) \/ AheadIn(x, f, n) => Ahead(x, R, T)
  BY <1>1, <1>3 DEF Ahead
<1> QED BY <1>5, <1>6, <1>7

(* The top frame f stays in its listing. *)
Swapped(R, S, n, f, T) ==
    /\ StackOK(R, S) /\ S # <<>> /\ n = Len(S) /\ f \in Frames
    /\ f.at = S[n].at /\ f.role = S[n].role /\ OnPage(f, n) /\ Nested(f)
    /\ T = Append(SubSeq(S, 1, Len(S) - 1), f)

(* Replacing the top frame by another state of the same listing. *)
LEMMA Swap ==
    ASSUME NEW R, NEW S, NEW n, NEW f, NEW T, Swapped(R, S, n, f, T)
    PROVE  /\ StackOK(R, T) /\ T # <<>> /\ Len(T) = n /\ T[n] = f
           /\ \A x : Passed(x, R, S) /\ PassedIn(x, f, n) => Passed(x, R, T)
           /\ \A x : Ahead(x, R, S) =>
                 Ahead(x, R, T) \/ (AheadIn(x, S[n], n) /\ ~AheadIn(x, f, n))
<1> USE DEF Swapped
<1> DEFINE B == SubSeq(S, 1, Len(S) - 1)
<1>1. /\ n \in Nat \ {0} /\ B \in Seq(Frames) /\ Len(B) = n - 1
      /\ \A i \in 1..(n - 1) : B[i] = S[i]
  BY TopOf DEF StackOK
<1>2. /\ StackOK(R, B)
      /\ \A x : Passed(x, R, S) => Passed(x, R, B)
      /\ \A x : Ahead(x, R, S) => Ahead(x, R, B) \/ AheadIn(x, S[n], n)
  BY Pop
<1> HIDE DEF B
<1>3. Home(S[n], n) /\ Linked(n, R, S)
  BY <1>1 DEF StackOK
<1>4. Home(f, n)
  BY <1>3 DEF Home, Fits
<1>5. /\ \A j \in 1..Len(B) : f.at[j] = SlotOf(B[j])
      /\ IF n = 1 THEN f.role \notin Elems(R) ELSE f.role \notin Elems(B[n - 1].subs)
  <2>1. \A j \in 1..Len(B) : f.at[j] = SlotOf(B[j])
    BY <1>1, <1>3 DEF Linked
  <2>2. n # 1 => n - 1 \in 1..(n - 1)
    BY <1>1
  <2>3. n # 1 => B[n - 1] = S[n - 1]
    BY <1>1, <2>2
  <2> QED BY <1>3, <2>1, <2>3 DEF Linked
<1>6. n = Len(B) + 1
  BY <1>1
<1>7. /\ StackOK(R, T)
      /\ \A x : Passed(x, R, B) /\ PassedIn(x, f, n) => Passed(x, R, T)
      /\ \A x : Ahead(x, R, B) \/ AheadIn(x, f, n) => Ahead(x, R, T)
  <2>1. Pushed(R, B, n, f, T)
    BY <1>2, <1>4, <1>5, <1>6 DEF Pushed, B
  <2> QED BY ONLY <2>1, Push
<1>8. T # <<>> /\ Len(T) = n /\ T[n] = f
  BY <1>1, AppendProperties DEF B
<1> QED BY <1>2, <1>7, <1>8

-----------------------------------------------------------------------------
(* Items, their prefixes and the gaps they lie in.                         *)
LEMMA Prefix ==
    ASSUME NEW S, NEW s \in Seq(S), NEW n \in 0..Len(s)
    PROVE  /\ SubSeq(s, 1, n) \in Seq(S) /\ Len(SubSeq(s, 1, n)) = n
           /\ \A i \in 1..n : SubSeq(s, 1, n)[i] = s[i]
           /\ \A t \in Seq(S) : Len(t) = n /\ (\A i \in 1..n : t[i] = s[i]) => SubSeq(s, 1, n) = t
<1>1. Len(s) \in Nat /\ \A i \in 1..Len(s) : s[i] \in S
  BY LenProperties
<1>2. n \in Nat /\ 1 \in Int /\ n \in Int /\ \A i \in 1..n : s[i] \in S
  BY <1>1
<1> DEFINE p == SubSeq(s, 1, n)
<1>3. /\ p \in Seq(S) /\ Len(p) = IF 1 <= n THEN n - 1 + 1 ELSE 0
      /\ \A i \in 1..(n - 1 + 1) : p[i] = s[1 + i - 1]
  BY ONLY <1>2, SubSeqProperties
<1> HIDE DEF p
<1>4. Len(p) = n
  BY <1>2, <1>3
<1>5. ASSUME NEW i \in 1..n PROVE p[i] = s[i]
  <2>1. i \in 1..(n - 1 + 1) /\ 1 + i - 1 = i
    BY <1>2
  <2> QED BY <1>3, <2>1
<1>6. ASSUME NEW t \in Seq(S), Len(t) = n, \A i \in 1..n : t[i] = s[i] PROVE p = t
  <2>1. Len(p) = Len(t) /\ \A i \in 1..Len(p) : p[i] = t[i]
    BY <1>4, <1>5, <1>6
  <2> QED BY ONLY <1>3, <1>6, <2>1, SeqEqual
<1> QED BY <1>3, <1>4, <1>5, <1>6 DEF p

(* The slots of an item. *)
LEMMA ItemShape ==
    ASSUME NEW x \in Items
    PROVE  /\ Len(x) \in Nat
           /\ \A i \in 1..Len(x) : /\ x[i] \in SlotSet /\ x[i].role \in Roles
                                   /\ x[i].page \in Nat /\ x[i].k \in Nat
<1>1. Len(x) \in Nat /\ \A i \in 1..Len(x) : x[i] \in SlotSet
  BY LenProperties DEF Items
<1> QED BY <1>1 DEF SlotSet

(* The item at a slot of a listing that belongs where it is walked. *)
IsItem(x, f, n, slot) ==
    /\ n \in 1..3 /\ f \in Frames /\ Fits(f, n)
    /\ slot \in SlotSet /\ slot.role = f.role /\ x = Append(f.at, slot)

(* It is placed where its slot is valid, and is an ancestor of what lies     *)
(* under it. *)
LEMMA NewItem ==
    ASSUME NEW x, NEW f, NEW n, NEW slot, IsItem(x, f, n, slot)
    PROVE  /\ x \in Items /\ x # <<>> /\ Len(x) = n /\ x[n] = slot
           /\ \A j \in 1..(n - 1) : x[j] = f.at[j]
           /\ Valid(slot, n) => Placed(x)
           /\ \A y \in Items : Under(y, f, n) /\ y[n] = slot => SubSeq(y, 1, n) = x
           /\ \A y \in Items : Len(y) >= n /\ SubSeq(y, 1, n) = x => Under(y, f, n) /\ y[n] = slot
<1> USE DEF IsItem
<1>1. f.at \in Items /\ f.role \in Roles
  BY DEF Frames
<1>2. Len(f.at) = n - 1
  BY DEF Home, Fits
<1>3. slot \in SlotSet /\ x = Append(f.at, slot)
  OBVIOUS
<1>4. /\ x \in Items /\ x # <<>> /\ Len(x) = Len(f.at) + 1
      /\ \A j \in 1..Len(f.at) : x[j] = f.at[j]
      /\ x[Len(f.at) + 1] = slot
  BY ONLY <1>1, <1>3, AppendProperties DEF Items
<1>5. /\ Len(x) = n /\ x[n] = slot /\ \A j \in 1..(n - 1) : x[j] = f.at[j]
  BY <1>2, <1>4
<1>6. ASSUME Valid(slot, n) PROVE Placed(x)
  <2>1. CASE n = 1
    <3>1. x[1].role \in Elems(plan)
      BY <1>5, <2>1 DEF Home, Fits
    <3>2. \A j \in 1..1 : j = 1
      OBVIOUS
    <3>3. \A j \in 1..Len(x) : Valid(x[j], j)
      BY <1>5, <1>6, <2>1, <3>2
    <3> QED BY <1>4, <1>5, <2>1, <3>1, <3>3 DEF Placed
  <2>2. CASE n > 1
    <3>1. Placed(f.at) /\ ~Skipped(f.at) /\ f.role \in Elems(Subs(f.at))
      BY <2>2 DEF Home, Fits
    <3>2. x[1].role \in Elems(plan)
      <4>1. x[1] = f.at[1]
        BY <1>5, <2>2
      <4> QED BY <3>1, <4>1 DEF Placed
    <3>3. \A j \in 1..Len(x) : Valid(x[j], j)
      <4>1. \A j \in 1..Len(x) : j = n \/ j \in 1..(n - 1)
        BY <1>5
      <4>2. \A j \in 1..(n - 1) : Valid(f.at[j], j)
        BY <3>1, <1>2 DEF Placed
      <4> QED BY <1>5, <1>6, <4>1, <4>2
    <3>4. ASSUME NEW j \in 1..(Len(x) - 1)
          PROVE  ~Skipped(SubSeq(x, 1, j)) /\ x[j + 1].role \in Elems(Subs(SubSeq(x, 1, j)))
      <4>1. j \in 0..Len(x) /\ j \in 0..Len(f.at) /\ j \in 1..(n - 1)
        BY <1>2, <1>5
      <4> DEFINE u == SubSeq(f.at, 1, j)
      <4>2. u \in Items /\ Len(u) = j /\ \A i \in 1..j : u[i] = f.at[i]
        BY <4>1, <1>1, Prefix DEF Items
      <4> HIDE DEF u
      <4>3. \A i \in 1..j : u[i] = x[i]
        BY <4>1, <4>2, <1>5
      <4>4. SubSeq(x, 1, j) = u
        BY <4>1, <4>2, <4>3, <1>4, Prefix DEF Items
      <4>5. CASE j = n - 1
        <5>1. u = f.at
          BY <4>1, <4>5, <1>1, <1>2, Prefix DEF Items, u
        <5>2. x[j + 1] = slot
          BY <4>5, <1>5
        <5>3. x[j + 1].role = f.role
          BY <5>2
        <5> QED BY <4>4, <5>1, <5>3, <3>1
      <4>6. CASE j # n - 1
        <5>1. j \in 1..(Len(f.at) - 1) /\ j + 1 \in 1..(n - 1)
          BY <4>1, <4>6, <1>2
        <5>2. ~Skipped(u) /\ f.at[j + 1].role \in Elems(Subs(u))
          BY <5>1, <3>1 DEF Placed, u
        <5>3. x[j + 1] = f.at[j + 1]
          BY <5>1, <1>5
        <5> QED BY <4>4, <5>2, <5>3
      <4> QED BY <4>5, <4>6
    <3> QED BY <1>4, <1>5, <3>2, <3>3, <3>4 DEF Placed
  <2> QED BY <2>1, <2>2
<1>7. ASSUME NEW y \in Items, Under(y, f, n), y[n] = slot PROVE SubSeq(y, 1, n) = x
  <2>1. n \in 0..Len(y)
    BY <1>7, ItemShape DEF Under
  <2>2. \A i \in 1..n : i = n \/ i \in 1..(n - 1)
    OBVIOUS
  <2>3. \A i \in 1..n : x[i] = y[i]
    BY <1>5, <1>7, <2>2 DEF Under
  <2> QED BY <1>4, <1>5, <2>1, <2>3, Prefix DEF Items
<1>8. ASSUME NEW y \in Items, Len(y) >= n, SubSeq(y, 1, n) = x
      PROVE  Under(y, f, n) /\ y[n] = slot
  <2>1. n \in 0..Len(y)
    BY <1>8, ItemShape
  <2>4. \A i \in 1..n : SubSeq(y, 1, n)[i] = y[i]
    BY ONLY <1>8, <2>1, Prefix DEF Items
  <2>2. \A i \in 1..n : x[i] = y[i]
    BY <1>8, <2>4
  <2>3. n \in 1..n /\ \A i \in 1..(n - 1) : i \in 1..n
    OBVIOUS
  <2> QED BY <1>5, <1>8, <2>2, <2>3 DEF Under
<1> QED BY <1>4, <1>5, <1>6, <1>7, <1>8

(* An item of a listing beyond the failed page lies in the gap it left. *)
LEMMA InGap ==
    ASSUME NEW n \in 1..3, NEW f \in Frames, Home(f, n), NEW x \in Items, Under(x, f, n),
           x[n].role = f.role, NEW p, NEW unit,
           x[n].page = p \/ (unit = "listing" /\ x[n].page >= p /\ p \in Nat)
    PROVE  Lies(x, [at |-> f.at, role |-> f.role, page |-> p, unit |-> unit])
<1>1. f.at \in Items /\ Len(f.at) = n - 1
  BY DEF Frames, Home, Fits
<1>2. Len(x) \in Nat /\ Len(x) >= n /\ \A j \in 1..(n - 1) : f.at[j] = x[j]
  BY ItemShape DEF Under
<1>3. n - 1 \in 0..Len(x)
  BY <1>2
<1>4. SubSeq(x, 1, n - 1) = f.at
  BY <1>1, <1>2, <1>3, Prefix DEF Items
<1>5. x[n].page \in Nat
  BY <1>2, ItemShape
<1>6. Len(x) > n - 1 /\ n - 1 + 1 = n
  BY <1>2
<1> QED BY <1>1, <1>4, <1>5, <1>6 DEF Lies

-----------------------------------------------------------------------------
(* The moves of the walk.                                                  *)

(* A listing that ends has no item on a later page: an empty page is the   *)
(* last with something to come, and a count of pages counts them all.      *)
LEMMA NothingAfter ==
    ASSUME shape \in Shapes, NEW r \in Roles, NEW n \in 1..3, NEW p \in Nat \ {0}, NEW total,
           NEW count, count = Len(Pages(r, n)),
           Ends(Role(r).scheme, p, count, SizeOf(Pages(r, n), p), total),
           total = count \/ p >= count,
           NEW slot \in SlotSet, slot.role = r, Valid(slot, n), slot.page > p
    PROVE  FALSE
<1> DEFINE P == Pages(r, n)
<1>1. /\ P \in Seq(Nat)
      /\ \A i, j \in 1..Len(P) : i < j /\ P[i] = 0 => P[j] = 0
      /\ Role(r).scheme = "once" => Len(P) = 1
  BY PagesFacts
<1> HIDE DEF P
<1>2. /\ count \in Nat /\ count = Len(P)
      /\ \A i \in 1..count : P[i] \in Nat
  BY <1>1, LenProperties DEF P
<1>3. /\ slot.page \in 1..count /\ slot.k \in 1..P[slot.page] /\ p < slot.page
  BY <1>2 DEF Valid, P, SlotSet
<1>4. p < count /\ p \in 1..count
  BY <1>2, <1>3
<1>5. P[slot.page] # 0
  BY <1>2, <1>3
<1>6. SizeOf(P, p) # 0
  BY <1>1, <1>2, <1>3, <1>4, <1>5 DEF SizeOf
<1>7. Ends(Role(r).scheme, p, count, SizeOf(P, p), total)
  BY DEF P
<1>8. Role(r).scheme \in Schemes
  BY Table DEF TableOK
<1>9. total = count
  BY <1>2, <1>4
<1>10. PICK scheme, size : scheme = Role(r).scheme /\ size = SizeOf(P, p)
  OBVIOUS
<1>11. scheme \in Schemes \ {"once"}
  BY <1>1, <1>2, <1>4, <1>8, <1>10
<1>12. Ends(scheme, p, count, size, count) /\ size # 0
  BY <1>6, <1>7, <1>9, <1>10
<1>13. p # count /\ ~(p >= count)
  BY <1>2, <1>4
<1> QED BY ONLY <1>11, <1>12, <1>13
     DEF Ends, Schemes, LinkEnds, WrappedLinkEnds, TotalEnds, NextEnds, ContinuationEnds,
         OffsetEnds

(* The next page of a listing, or a page given up. *)
Turned(R, S, n, f, T) ==
    /\ StackOK(R, S) /\ S # <<>> /\ n = Len(S)
    /\ S[n].k = S[n].size /\ S[n].subs = <<>>
    /\ f \in Frames /\ f.at = S[n].at /\ f.role = S[n].role /\ f.page = S[n].page + 1
    /\ f.k = 0 /\ f.subs = <<>> /\ OnPage(f, n)
    /\ T = Append(SubSeq(S, 1, Len(S) - 1), f)

(* Turning a page leaves behind only items the new frame no longer has in    *)
(* front. *)
LEMMA TurnPage ==
    ASSUME shape \in Shapes, NEW R, NEW S, NEW n, NEW f, NEW T, Turned(R, S, n, f, T)
    PROVE  /\ StackOK(R, T)
           /\ \A x \in Items : Passed(x, R, S) => Passed(x, R, T)
           /\ \A x : Placed(x) /\ Ahead(x, R, S) =>
                 \/ Ahead(x, R, T)
                 \/ /\ Under(x, f, n) /\ x[n].role = f.role /\ x[n].page >= f.page
                    /\ ~InFront(x, f, n) /\ n \in 1..Len(x)
<1> USE DEF Turned
<1>1. Len(S) \in Nat \ {0} /\ n \in 1..Len(S)
  BY TopOf DEF StackOK
<1>2. /\ S[n].page \in Nat /\ S[n].k \in Nat /\ n \in 1..3
  BY <1>1, FrameFacts
<1>3. Nested(f)
  BY DEF Nested, Distinct
<1>a. Swapped(R, S, n, f, T)
  BY <1>3 DEF Swapped
<1>4. /\ StackOK(R, T)
      /\ \A x : Passed(x, R, S) /\ PassedIn(x, f, n) => Passed(x, R, T)
      /\ \A x : Ahead(x, R, S) =>
            Ahead(x, R, T) \/ (AheadIn(x, S[n], n) /\ ~AheadIn(x, f, n))
  BY ONLY <1>a, Swap
<1>5. \A x : Under(x, f, n) <=> Under(x, S[n], n)
  BY DEF Under
<1>6. Elems(<<>>) = {}
  BY DEF Elems
<1>7. ASSUME NEW x \in Items, Passed(x, R, S) PROVE PassedIn(x, f, n)
  <2>1. PassedIn(x, S[n], n)
    BY <1>1, <1>7 DEF Passed
  <2>2. SUFFICES ASSUME Under(x, f, n), x[n].role = f.role PROVE Behind(x, f, n)
    BY <1>6 DEF PassedIn
  <2>3. Behind(x, S[n], n)
    BY <1>5, <2>1, <2>2 DEF PassedIn
  <2>4. x[n].page \in Nat
    BY <1>2, <2>2, ItemShape DEF Under
  <2> QED BY <1>2, <2>3, <2>4 DEF Behind
<1>8. ASSUME NEW x, Placed(x), AheadIn(x, S[n], n), ~AheadIn(x, f, n)
      PROVE  /\ Under(x, f, n) /\ x[n].role = f.role /\ x[n].page >= f.page
             /\ ~InFront(x, f, n) /\ n \in 1..Len(x)
  <2>1. Under(x, f, n) /\ x[n].role = f.role /\ InFront(x, S[n], n)
    BY <1>5, <1>6, <1>8 DEF AheadIn
  <2>2. ~InFront(x, f, n)
    BY <1>8, <2>1 DEF AheadIn
  <2>3. x \in Items
    BY <1>8 DEF Placed
  <2>4. n \in 1..Len(x) /\ x[n].page \in Nat /\ x[n].k \in Nat
    BY <1>2, <2>1, <2>3, ItemShape DEF Under
  <2>5. x[n].page > S[n].page
    BY <2>1, <2>4, <1>2 DEF InFront
  <2> QED BY <1>2, <2>1, <2>2, <2>4, <2>5
<1> QED BY <1>4, <1>7, <1>8

(* An item is handled: it was not passed before and is passed now. *)
Taken(R, S, n, f, item, T) ==
    /\ StackOK(R, S) /\ S # <<>> /\ n = Len(S)
    /\ S[n].k < S[n].size /\ S[n].subs = <<>>
    /\ f \in Frames /\ f.at = S[n].at /\ f.role = S[n].role /\ f.page = S[n].page
    /\ f.size = S[n].size /\ f.total = S[n].total /\ f.done = S[n].done
    /\ f.k = S[n].k + 1 /\ item = Append(f.at, SlotOf(f))
    /\ f.subs = IF Skipped(item) THEN <<>> ELSE Subs(item)
    /\ T = Append(SubSeq(S, 1, Len(S) - 1), f)

(* Taking an item passes it and nothing else; it was not passed before. *)
LEMMA TakeItem ==
    ASSUME shape \in Shapes, NEW R, NEW S, NEW n, NEW f, NEW item, NEW T,
           Taken(R, S, n, f, item, T)
    PROVE  /\ StackOK(R, T) /\ Placed(item) /\ Len(item) = n /\ Passed(item, R, T)
           /\ \A x \in Items : Passed(x, R, S) =>
                 Passed(x, R, T) /\ (Len(x) >= n => SubSeq(x, 1, n) # item)
           /\ \A x : Placed(x) /\ Ahead(x, R, S) => Ahead(x, R, T) \/ x = item
<1> USE DEF Taken
<1> DEFINE slot == SlotOf(f)
<1>1. Len(S) \in Nat \ {0} /\ n \in 1..Len(S)
  BY TopOf DEF StackOK
<1>2. /\ S[n].page \in Nat /\ S[n].k \in Nat /\ S[n].size \in Nat /\ n \in 1..3
      /\ Home(S[n], n) /\ OnPage(S[n], n) /\ Linked(n, R, S)
      /\ Pages(S[n].role, n) \in Seq(Nat)
  BY <1>1, FrameFacts
<1>3. Home(f, n)
  BY <1>2 DEF Home, Fits
<1>4. /\ slot = [role |-> f.role, page |-> f.page, k |-> f.k] /\ f.page \in Nat /\ f.k \in Nat
      /\ slot.role = f.role /\ slot.page = f.page /\ slot.k = f.k
  BY DEF SlotOf, Frames
<1>5. Valid(slot, n)
  <2>1. /\ f.size # 0 /\ f.k >= 1 /\ f.k <= f.size /\ f.size \in Nat
    BY <1>2
  <2>2. f.page \in 1..Len(Pages(f.role, n)) /\ f.size = Pages(f.role, n)[f.page]
    BY <1>2, <2>1 DEF OnPage
  <2> QED BY <1>4, <2>1, <2>2 DEF Valid
<1> HIDE DEF slot
<1>6. /\ item \in Items /\ item # <<>> /\ Len(item) = n /\ item[n] = slot
      /\ \A j \in 1..(n - 1) : item[j] = f.at[j]
      /\ Placed(item)
      /\ \A y \in Items : Under(y, f, n) /\ y[n] = slot => SubSeq(y, 1, n) = item
      /\ \A y \in Items : Len(y) >= n /\ SubSeq(y, 1, n) = item
            => Under(y, f, n) /\ y[n] = slot
  <2>1. slot \in SlotSet
    BY <1>4 DEF SlotSet, Frames
  <2>2. IsItem(item, f, n, slot)
    BY <1>2, <1>3, <1>4, <2>1 DEF IsItem, Home, slot
  <2> QED BY ONLY <1>5, <2>2, NewItem
<1>7. OnPage(f, n)
  BY <1>2 DEF OnPage
<1>8. Nested(f)
  <2>1. Distinct(<<>>)
    BY DEF Distinct
  <2>2. Distinct(Subs(item))
    BY <1>6, SubsFacts
  <2>3. Distinct(f.subs)
    BY <2>1, <2>2
  <2>4. f.subs # <<>> => f.subs = Subs(item) /\ ~Skipped(item)
    OBVIOUS
  <2> QED BY <1>6, <2>3, <2>4 DEF Nested
<1>a. Swapped(R, S, n, f, T)
  BY <1>7, <1>8 DEF Swapped
<1>9. /\ StackOK(R, T) /\ Len(T) = n /\ T[n] = f
      /\ \A x : Passed(x, R, S) /\ PassedIn(x, f, n) => Passed(x, R, T)
      /\ \A x : Ahead(x, R, S) =>
            Ahead(x, R, T) \/ (AheadIn(x, S[n], n) /\ ~AheadIn(x, f, n))
  BY ONLY <1>a, Swap
<1>10. \A x : Under(x, f, n) <=> Under(x, S[n], n)
  BY DEF Under
<1>11. Elems(<<>>) = {}
  BY DEF Elems
<1>12. ASSUME NEW x \in Items, Passed(x, R, S), Under(x, f, n), x[n].role = f.role
       PROVE  Behind(x, f, n) /\ x[n] # slot
  <2>1. Behind(x, S[n], n)
    BY <1>1, <1>10, <1>12 DEF Passed, PassedIn
  <2>2. x[n].page \in Nat /\ x[n].k \in Nat
    BY <1>2, <1>12, ItemShape DEF Under
  <2> QED BY <1>2, <1>4, <2>1, <2>2 DEF Behind
<1>13. ASSUME NEW x \in Items, Passed(x, R, S)
       PROVE  Passed(x, R, T) /\ (Len(x) >= n => SubSeq(x, 1, n) # item)
  <2>1. PassedIn(x, f, n)
    BY <1>4, <1>12, <1>13 DEF PassedIn, InItem, slot
  <2>2. Len(x) >= n => SubSeq(x, 1, n) # item
    BY <1>4, <1>6, <1>12, <1>13
  <2> QED BY <1>9, <1>13, <2>1, <2>2
<1>14. Passed(item, R, T)
  <2>1. \A m \in 1..n : Linked(m, R, T)
    BY <1>9 DEF StackOK
  <2>2. ASSUME NEW m \in 1..n
        PROVE  item[m] = SlotOf(T[m]) /\ item[m].role = T[m].role /\ Behind(item, T[m], m)
    <3>1. item[m] = SlotOf(T[m])
      <4>1. CASE m = n
        BY <1>6, <1>9, <4>1 DEF slot
      <4>2. CASE m # n
        <5>1. m \in 1..(n - 1) /\ n \in 1..n
          BY <1>2, <4>2
        <5>2. T[n].at[m] = SlotOf(T[m])
          BY ONLY <2>1, <5>1 DEF Linked
        <5> QED BY ONLY <1>6, <1>9, <5>1, <5>2
      <4> QED BY <4>1, <4>2
    <3>2. T[m].k \in Nat
      <4>1. T[m] \in Frames
        BY <1>9, ElementOfSeq DEF StackOK
      <4> QED BY <4>1 DEF Frames
    <3>3. item[m].role = T[m].role /\ item[m].page = T[m].page /\ item[m].k = T[m].k
      BY ONLY <3>1 DEF SlotOf
    <3>4. Behind(item, T[m], m)
      BY <3>2, <3>3 DEF Behind
    <3> QED BY <3>1, <3>3, <3>4
  <2>3. ASSUME NEW m \in 1..n, Len(item) > m
        PROVE  item[m + 1].role \notin Elems(T[m].subs)
    <3>1. m + 1 \in 1..n /\ m + 1 # 1 /\ (m + 1) - 1 = m
      BY <1>2, <1>6, <2>3
    <3> QED BY <2>1, <2>2, <3>1 DEF Linked
  <2>4. item[1].role \notin Elems(R)
    <3>1. 1 \in 1..n
      BY <1>2
    <3> QED BY <2>1, <2>2, <3>1 DEF Linked
  <2> QED BY <1>9, <2>2, <2>3, <2>4 DEF Passed, PassedIn, InItem
<1>15. ASSUME NEW x, Placed(x), AheadIn(x, S[n], n), ~AheadIn(x, f, n) PROVE x = item
  <2>1. Under(x, f, n) /\ x[n].role = f.role /\ InFront(x, S[n], n)
    BY <1>10, <1>11, <1>15 DEF AheadIn
  <2>2. ~InFront(x, f, n)
    BY <1>15, <2>1 DEF AheadIn
  <2>3. x \in Items
    BY <1>15 DEF Placed
  <2>4. n \in 1..Len(x) /\ x[n].page \in Nat /\ x[n].k \in Nat /\ Len(x) \in Nat
    BY <1>2, <2>1, <2>3, ItemShape DEF Under
  <2>5. x[n].page = f.page /\ x[n].k = f.k
    BY <2>1, <2>2, <2>4, <1>2 DEF InFront
  <2>6. x[n] \in SlotSet
    BY <2>3, <2>4, ItemShape
  <2>7. x[n] = slot
    BY <1>4, <2>1, <2>5, <2>6 DEF SlotSet
  <2>8. SubSeq(x, 1, n) = item
    BY <1>6, <2>1, <2>3, <2>7
  <2>9. CASE Len(x) = n
    BY <2>3, <2>8, <2>9, SubSeqFull DEF Items
  <2>10. CASE Len(x) > n
    <3>1. n \in 1..(Len(x) - 1)
      BY <1>2, <2>4, <2>10
    <3>2. ~Skipped(item) /\ x[n + 1].role \in Elems(Subs(item))
      BY <1>15, <2>8, <3>1 DEF Placed
    <3>3. AheadIn(x, f, n)
      BY <2>1, <2>7, <2>10, <3>2 DEF AheadIn, InItem, slot
    <3> QED BY <1>15, <3>3
  <2> QED BY <1>2, <2>4, <2>9, <2>10
<1> QED BY <1>6, <1>9, <1>13, <1>14, <1>15

(* The first listing left under the item the walk is at is entered. *)
Descended(R, S, n, T) ==
    /\ StackOK(R, S) /\ S # <<>> /\ n = Len(S) /\ S[n].subs # <<>>
    /\ T = Append(Append(SubSeq(S, 1, Len(S) - 1), [S[n] EXCEPT !.subs = Tail(S[n].subs)]),
                  Frame(Append(S[n].at, SlotOf(S[n])), Head(S[n].subs)))

(* Going down to a listing under an item passes and forgets nothing. *)
LEMMA GoDown ==
    ASSUME shape \in Shapes, NEW R, NEW S, NEW n, NEW T, Descended(R, S, n, T)
    PROVE  /\ StackOK(R, T)
           /\ \A x \in Items : Passed(x, R, S) => Passed(x, R, T)
           /\ \A x : Placed(x) /\ Ahead(x, R, S) => Ahead(x, R, T)
<1> USE DEF Descended
<1>0. PICK f, g : /\ g = [S[n] EXCEPT !.subs = Tail(S[n].subs)]
                 /\ f = Frame(Append(S[n].at, SlotOf(S[n])), Head(S[n].subs))
                 /\ T = Append(Append(SubSeq(S, 1, Len(S) - 1), g), f)
  OBVIOUS
<1> DEFINE t == S[n]
           slot == SlotOf(t)
           item == Append(t.at, slot)
           B == SubSeq(S, 1, Len(S) - 1)
           U == Append(B, g)
<1>1. Len(S) \in Nat \ {0} /\ n \in 1..Len(S)
  BY TopOf DEF StackOK
<1>2. /\ t \in Frames /\ t.at \in Items /\ t.role \in Roles
      /\ t.page \in Nat /\ t.size \in Nat /\ t.k \in Nat /\ t.total \in Nat
      /\ t.done \in BOOLEAN /\ t.subs \in Seq(Roles) /\ n \in 1..3
      /\ Home(t, n) /\ OnPage(t, n) /\ Nested(t) /\ Linked(n, R, S)
  BY <1>1, FrameFacts
<1>3. /\ Head(t.subs) \in Roles /\ Tail(t.subs) \in Seq(Roles)
      /\ Head(t.subs) \in Elems(t.subs)
      /\ Elems(t.subs) = {Head(t.subs)} \cup Elems(Tail(t.subs))
      /\ Distinct(Tail(t.subs)) /\ Head(t.subs) \notin Elems(Tail(t.subs))
  <2>1. Distinct(t.subs) /\ t.subs # <<>>
    BY <1>2 DEF Nested
  <2> QED BY <1>2, <2>1, ElemsOf, HeadTailProperties
<1>4. /\ g \in Frames /\ g.at = t.at /\ g.role = t.role /\ g.page = t.page
      /\ g.size = t.size /\ g.k = t.k /\ g.total = t.total /\ g.done = t.done
      /\ g.subs = Tail(t.subs)
  BY <1>0, <1>2, <1>3 DEF Frames
<1>5. /\ Placed(item) /\ ~Skipped(item) /\ Elems(t.subs) \subseteq Elems(Subs(item))
  BY <1>2 DEF Nested
<1>6. SlotOf(g) = slot /\ slot \in SlotSet /\ slot.role = t.role
  BY <1>2, <1>4 DEF SlotOf, SlotSet
<1>7. IsItem(item, t, n, slot)
  BY <1>2, <1>6 DEF IsItem, Home
<1> HIDE DEF slot, item
<1>8. /\ item \in Items /\ item # <<>> /\ Len(item) = n /\ item[n] = slot
      /\ \A j \in 1..(n - 1) : item[j] = t.at[j]
  BY <1>7, NewItem
<1>9. Nested(g)
  <2>1. Append(g.at, SlotOf(g)) = item
    BY <1>4, <1>6 DEF item
  <2> QED BY <1>3, <1>4, <1>5, <2>1 DEF Nested
<1>10. Swapped(R, S, n, g, U)
  <2>1. OnPage(g, n)
    BY <1>2, <1>4 DEF OnPage
  <2> QED BY <1>4, <1>9, <2>1 DEF Swapped
<1>12. T = Append(U, f)
  BY <1>0
<1> HIDE DEF U, B
<1>11. /\ StackOK(R, U) /\ Len(U) = n /\ U[n] = g
       /\ \A x : Passed(x, R, S) /\ PassedIn(x, g, n) => Passed(x, R, U)
       /\ \A x : Ahead(x, R, S) =>
             Ahead(x, R, U) \/ (AheadIn(x, t, n) /\ ~AheadIn(x, g, n))
  BY ONLY <1>10, Swap
<1>13. /\ f \in Frames /\ f.at = item /\ f.role = Head(t.subs) /\ f.page = 0 /\ f.size = 0
       /\ f.k = 0 /\ f.total = 0 /\ f.done = FALSE /\ f.subs = <<>>
  BY <1>0, <1>3, <1>8 DEF Frame, Frames, item, slot
<1>14. Home(f, n + 1)
  <2>1. f.role \in Elems(Subs(item))
    BY <1>3, <1>5, <1>13
  <2>2. Height(f.role) + 1 <= Height(t.role) /\ (t.role \in ConsoleRoles => f.role \in ConsoleRoles)
    BY <1>6, <1>8, <2>1, SubsFacts
  <2>3. n + Height(t.role) <= 4 /\ (source = "console" => t.role \in ConsoleRoles)
    BY <1>2 DEF Home, Fits
  <2>4. Height(f.role) \in 1..3 /\ Height(t.role) \in 1..3
    BY <1>2, <1>13, Table
  <2>5. (n + 1) + Height(f.role) <= 4 /\ n + 1 > 1 /\ (n + 1) - 1 = n /\ n + 1 # 1
    BY <1>2, <2>2, <2>3, <2>4
  <2> QED BY <1>5, <1>8, <1>13, <2>1, <2>2, <2>3, <2>5 DEF Home, Fits
<1>15. OnPage(f, n + 1) /\ Nested(f)
  BY <1>13 DEF OnPage, Nested, Distinct
<1>16. \A j \in 1..Len(U) : f.at[j] = SlotOf(U[j])
  <2>1. ASSUME NEW j \in 1..n PROVE item[j] = SlotOf(U[j])
    <3>1. CASE j = n
      BY <1>6, <1>8, <1>11, <3>1
    <3>2. CASE j # n
      <4>1. j \in 1..(n - 1) /\ n \in 1..n
        BY <1>2, <3>2
      <4>2. Linked(n, R, U)
        BY <1>11, <4>1 DEF StackOK
      <4> QED BY <1>4, <1>8, <1>11, <4>1, <4>2 DEF Linked
    <3> QED BY <3>1, <3>2
  <2> QED BY <1>11, <1>13, <2>1
<1>17. Pushed(R, U, n + 1, f, T)
  <2>1. n + 1 # 1 /\ (n + 1) - 1 = n
    BY <1>2
  <2>2. f.role \notin Elems(U[n].subs)
    BY <1>3, <1>4, <1>11, <1>13
  <2> QED BY <1>11, <1>12, <1>13, <1>14, <1>15, <1>16, <2>1, <2>2 DEF Pushed
<1>18. /\ StackOK(R, T)
       /\ \A x : Passed(x, R, U) /\ PassedIn(x, f, n + 1) => Passed(x, R, T)
       /\ \A x : Ahead(x, R, U) \/ AheadIn(x, f, n + 1) => Ahead(x, R, T)
  BY ONLY <1>17, Push
<1> HIDE DEF t
<1>19. \A x : Under(x, g, n) <=> Under(x, t, n)
  BY <1>4 DEF Under
<1>e. Elems(<<>>) = {}
  BY DEF Elems
<1>20. \A x \in Items : Under(x, f, n + 1) <=> Under(x, t, n) /\ InItem(x, t, n)
  <2>1. SUFFICES ASSUME NEW x \in Items
                 PROVE  Under(x, f, n + 1) <=> Under(x, t, n) /\ InItem(x, t, n)
    OBVIOUS
  <2>2. Len(x) \in Nat /\ (n + 1) - 1 = n
    BY <1>2, ItemShape
  <2>3. \A j \in 1..n : j \in 1..(n - 1) \/ j = n
    BY <1>2
  <2>4. n \in 1..n /\ \A j \in 1..(n - 1) : j \in 1..n
    BY <1>2
  <2>5. (\A j \in 1..n : x[j] = item[j]) <=> x[n] = slot /\ \A j \in 1..(n - 1) : x[j] = t.at[j]
    BY <1>8, <2>3, <2>4
  <2>6. (Len(x) >= n + 1 <=> Len(x) > n) /\ (Len(x) > n => Len(x) >= n)
    BY <1>2, <2>2
  <2> QED BY <1>13, <2>2, <2>5, <2>6 DEF Under, InItem, slot
<1>21. ASSUME NEW x \in Items, Passed(x, R, S) PROVE Passed(x, R, T)
  <2>1. PassedIn(x, t, n)
    BY <1>1, <1>21 DEF Passed, t
  <2>2. PassedIn(x, g, n)
    BY <1>3, <1>4, <1>6, <1>19, <2>1 DEF PassedIn, Behind, InItem, slot
  <2>3. PassedIn(x, f, n + 1)
    <3>1. SUFFICES ASSUME Under(x, f, n + 1), x[n + 1].role = f.role PROVE FALSE
      BY <1>e, <1>13 DEF PassedIn
    <3>2. x[n + 1].role \notin Elems(t.subs)
      BY <1>20, <2>1, <3>1 DEF PassedIn
    <3> QED BY <1>3, <1>13, <3>1, <3>2
  <2> QED BY <1>11, <1>18, <1>21, <2>2, <2>3
<1>22. ASSUME NEW x, Placed(x), Ahead(x, R, S) PROVE Ahead(x, R, T)
  <2>1. SUFFICES ASSUME AheadIn(x, t, n), ~AheadIn(x, g, n) PROVE AheadIn(x, f, n + 1)
    BY <1>11, <1>18, <1>22
  <2>2. Under(x, t, n) /\ InItem(x, t, n) /\ x[n + 1].role = f.role
    BY <1>3, <1>4, <1>6, <1>13, <1>19, <2>1 DEF AheadIn, InFront, InItem, slot
  <2>3. Under(x, f, n + 1)
    BY <1>20, <1>22, <2>2 DEF Placed
  <2>4. x \in Items /\ n + 1 \in 1..Len(x)
    BY <1>2, <1>22, <2>2, ItemShape DEF Placed, InItem
  <2>5. x[n + 1].page > 0
    <3>1. Valid(x[n + 1], n + 1)
      BY <1>22, <2>4 DEF Placed
    <3>2. x[n + 1].page \in Nat
      BY <2>4, ItemShape
    <3> QED BY <3>1, <3>2 DEF Valid
  <2> QED BY <1>13, <2>2, <2>3, <2>5 DEF AheadIn, InFront
<1> QED BY <1>18, <1>21, <1>22

(* The first listing left is entered. *)
LEMMA StartRoot ==
    ASSUME NEW R, NEW S, StackOK(R, S), S = <<>>, R # <<>>,
           source = "console" => Elems(plan) \subseteq ConsoleRoles,
           NEW Q, Q = Tail(R), NEW T, T = <<Frame(<<>>, Head(R))>>
    PROVE  /\ StackOK(Q, T)
           /\ \A x \in Items : Passed(x, R, S) => Passed(x, Q, T)
           /\ \A x : Placed(x) /\ Ahead(x, R, S) => Ahead(x, Q, T)
<1> DEFINE f == Frame(<<>>, Head(R))
<1>1. R \in Seq(Roles) /\ Distinct(R) /\ Elems(R) \subseteq Elems(plan) /\ R # <<>>
  BY DEF StackOK
<1>2. /\ Head(R) \in Roles /\ Q \in Seq(Roles) /\ Head(R) \in Elems(R)
      /\ Elems(R) = {Head(R)} \cup Elems(Q) /\ Distinct(Q) /\ Head(R) \notin Elems(Q)
  BY <1>1, ElemsOf, HeadTailProperties
<1>3. <<>> \in Seq(Frames) /\ <<>> \in Items /\ Len(<<>>) = 0 /\ <<>> \in Seq(Roles)
  BY EmptySeq DEF Items
<1>4. StackOK(Q, S) /\ Len(S) = 0
  BY <1>1, <1>2, <1>3 DEF StackOK
<1>5. /\ f \in Frames /\ f.at = <<>> /\ f.role = Head(R) /\ f.page = 0 /\ f.size = 0
      /\ f.k = 0 /\ f.total = 0 /\ f.done = FALSE /\ f.subs = <<>>
  BY <1>2, <1>3 DEF Frame, Frames
<1>6. T = Append(S, f)
  OBVIOUS
<1> HIDE DEF f
<1>7. Home(f, 1)
  <2>1. Height(f.role) \in 1..3
    BY <1>2, <1>5, Table
  <2>2. 1 + Height(f.role) <= 4
    BY <2>1
  <2> QED BY <1>1, <1>2, <1>3, <1>5, <2>2 DEF Home, Fits
<1>8. OnPage(f, 1) /\ Nested(f)
  BY <1>5 DEF OnPage, Nested, Distinct
<1>9. Pushed(Q, S, 1, f, T)
  BY <1>2, <1>4, <1>5, <1>6, <1>7, <1>8 DEF Pushed
<1>10. /\ StackOK(Q, T)
       /\ \A x : Passed(x, Q, S) /\ PassedIn(x, f, 1) => Passed(x, Q, T)
       /\ \A x : Ahead(x, Q, S) \/ AheadIn(x, f, 1) => Ahead(x, Q, T)
  BY ONLY <1>9, Push
<1>e. Elems(<<>>) = {}
  BY DEF Elems
<1>11. ASSUME NEW x \in Items, Passed(x, R, S) PROVE Passed(x, Q, T)
  <2>1. x[1].role \notin Elems(Q) /\ x[1].role # f.role
    BY <1>2, <1>5, <1>11 DEF Passed
  <2>2. Passed(x, Q, S)
    BY <1>4, <2>1 DEF Passed
  <2>3. PassedIn(x, f, 1)
    BY <1>e, <1>5, <2>1 DEF PassedIn
  <2> QED BY <1>10, <2>2, <2>3
<1>12. ASSUME NEW x, Placed(x), Ahead(x, R, S) PROVE Ahead(x, Q, T)
  <2>1. x[1].role = f.role \/ x[1].role \in Elems(Q)
    BY <1>2, <1>4, <1>5, <1>12 DEF Ahead
  <2>2. CASE x[1].role \in Elems(Q)
    BY <2>2 DEF Ahead
  <2>3. CASE x[1].role = f.role
    <3>1. x \in Items /\ 1 \in 1..Len(x) /\ Len(x) \in Nat /\ Valid(x[1], 1)
      <4>1. x \in Items /\ 1 \in 1..Len(x)
        BY <1>12 DEF Placed
      <4> QED BY <1>12, <4>1, ItemShape DEF Placed
    <3>2. x[1].page \in Nat /\ x[1].page > 0
      BY <3>1, ItemShape DEF Valid
    <3>3. Under(x, f, 1)
      BY <3>1 DEF Under
    <3>4. AheadIn(x, f, 1)
      BY <1>5, <2>3, <3>2, <3>3 DEF AheadIn, InFront
    <3> QED BY <1>10, <3>4
  <2> QED BY <2>1, <2>2, <2>3
<1> QED BY <1>10, <1>11, <1>12

-----------------------------------------------------------------------------
(* A step of a call that goes on keeps the invariant when the places it    *)
(* leads to do.                                                            *)
LEMMA GoesOn ==
    ASSUME WalkInv, running, UNCHANGED <<World, Call, cancelled>>, hidden' \in BOOLEAN,
           NEW R, NEW S, NEW O, NEW G, R = roots', S = stack', O = Out', G = gaps',
           StackOK(R, S), OutOK(O, R, S), ~cancelled /\ ~hidden' => Covered(O, G, R, S),
           sent' \in Seq(Items), buffer' \in Seq(Items), ConsoleInv'
    PROVE  WalkInv'
<1>1. UNCHANGED Ground
  BY DEF Ground, Call, World
<1>2. StackOK(R, S)' /\ OutOK(O, R, S)' /\ (~cancelled /\ ~hidden' => Covered(O, G, R, S)')
  BY <1>1, GroundParts
<1>3. CallInv'
  BY DEF WalkInv, CallInv, Call, World
<1>4. CancelInv'
  BY DEF CancelInv, Call, World
<1>5. running' /\ cancelled' = cancelled
  BY DEF Call
<1> QED BY <1>2, <1>3, <1>4, <1>5 DEF WalkInv

(* What was sent stays in order when the walk is left. *)
LEMMA LeftOut ==
    ASSUME NEW s \in Seq(Items), NEW b \in Seq(Items), NEW R, NEW S, OutOK(s \o b, R, S)
    PROVE  OutOK(s, <<>>, <<>>)
<1> DEFINE O == s \o b
<1>1. /\ Len(s) \in Nat /\ Len(b) \in Nat /\ Len(O) = Len(s) + Len(b)
      /\ \A i \in 1..(Len(s) + Len(b)) : O[i] = IF i <= Len(s) THEN s[i] ELSE b[i - Len(s)]
  BY ConcatProperties, LenProperties
<1>2. OutOK(O, R, S)
  OBVIOUS
<1> HIDE DEF O
<1>3. \A i \in 1..Len(s) : i \in 1..Len(O) /\ O[i] = s[i]
  BY <1>1
<1>4. \A x : Passed(x, <<>>, <<>>)
  BY DEF Passed, Elems
<1> QED BY <1>2, <1>3, <1>4 DEF OutOK

(* A call that ends keeps it when it ends for a reason it may end for. *)
LEMMA CallEnds ==
    ASSUME WalkInv, NEW result \in {"nil", "error", "panic"}, Leave(result), gaps' = gaps,
           hidden' \in BOOLEAN,
           result # "nil" /\ source = "console" => sent = <<>>,
           result = "error" /\ cancelled => source \in {"gitlab", "gcp"},
           result = "nil" /\ ~cancelled /\ ~hidden' => Covered(sent, gaps, <<>>, <<>>)
    PROVE  WalkInv'
<1>1. UNCHANGED Ground
  BY DEF Ground, Leave, World
<1>2. /\ roots' = <<>> /\ stack' = <<>> /\ buffer' = <<>> /\ sent' = sent /\ running' = FALSE
      /\ outcome' = result /\ cancelled' = cancelled /\ source' = source
  BY DEF Leave, World
<1>3. sent \in Seq(Items) /\ <<>> \in Seq(Items) /\ <<>> \in Seq(Frames) /\ <<>> \in Seq(Roles)
  BY DEF WalkInv
<1>4. sent \o <<>> = sent
  BY <1>3, ConcatEmptySeq
<1>5. Out' = sent
  BY <1>2, <1>4 DEF Out
<1>6. OutOK(sent, <<>>, <<>>)
  BY LeftOut DEF WalkInv, Out
<1>7. StackOK(<<>>, <<>>)
  BY <1>3 DEF StackOK, Distinct, Elems
<1>8. /\ StackOK(<<>>, <<>>)' /\ OutOK(sent, <<>>, <<>>)'
  <2>1. PICK o : o = sent
    OBVIOUS
  <2>2. OutOK(o, <<>>, <<>>)'
    BY <1>1, <1>6, <2>1, GroundParts
  <2> QED BY <1>1, <1>2, <1>7, <2>1, <2>2, GroundParts
<1>9. result = "nil" /\ ~cancelled /\ ~hidden' => Covered(Out, gaps, roots, stack)'
  <2>1. PICK o, g : o = sent /\ g = gaps
    OBVIOUS
  <2>2. result = "nil" /\ ~cancelled /\ ~hidden' => Covered(o, g, <<>>, <<>>)'
    BY <1>1, <2>1, GroundParts
  <2> QED BY <1>2, <1>5, <2>1, <2>2
<1>10. CallInv'
  BY <1>2 DEF WalkInv, CallInv, Leave, World
<1>11. ConsoleInv' /\ CancelInv'
  BY <1>2 DEF ConsoleInv, CancelInv
<1>12. StackOK(roots, stack)' /\ OutOK(Out, roots, stack)'
  BY <1>2, <1>5, <1>8
<1> QED BY <1>2, <1>3, <1>9, <1>10, <1>11, <1>12 DEF WalkInv

(* What went out stays in order while the walk moves on. *)
LEMMA OutStays ==
    ASSUME NEW O, NEW R, NEW S, NEW Q, NEW T, OutOK(O, R, S),
           \A x \in Items : Passed(x, R, S) => Passed(x, Q, T)
    PROVE  OutOK(O, Q, T)
  BY DEF OutOK, Owed, Placed

(* Every owed item stays covered when what the walk no longer has ahead of   *)
(* it was sent or lies in a gap. *)
LEMMA CoverStays ==
    ASSUME NEW O, NEW G, NEW R, NEW S, NEW P, NEW H, NEW Q, NEW T, Covered(O, G, R, S),
           Elems(O) \subseteq Elems(P), G \subseteq H,
           \A x : Owed(x) /\ Ahead(x, R, S) =>
              x \in Elems(P) \/ (\E g \in H : Lies(x, g)) \/ Ahead(x, Q, T)
    PROVE  Covered(P, H, Q, T)
  BY DEF Covered

(* The listing the walk is in. *)
LEMMA AtTop ==
    ASSUME WalkInv, Walking, NEW n, n = Len(stack)
    PROVE  /\ shape \in Shapes /\ StackOK(roots, stack) /\ stack # <<>> /\ running
           /\ Top = stack[n] /\ Len(stack) \in Nat \ {0} /\ n \in 1..3 /\ n \in 1..Len(stack)
           /\ Top \in Frames /\ Top.at \in Items /\ Top.role \in Roles
           /\ Top.page \in Nat /\ Top.size \in Nat /\ Top.k \in Nat /\ Top.total \in Nat
           /\ Top.done \in BOOLEAN /\ Top.subs \in Seq(Roles)
           /\ Home(Top, n) /\ OnPage(Top, n) /\ Nested(Top)
           /\ Len(Top.at) + 1 = n /\ TopPages = Pages(Top.role, n)
           /\ Pages(Top.role, n) \in Seq(Nat)
<1>1. shape \in Shapes /\ StackOK(roots, stack) /\ stack # <<>> /\ running
  BY DEF WalkInv, CallInv, Walking
<1>2. Top = stack[n] /\ Len(stack) \in Nat \ {0} /\ n \in 1..Len(stack)
  BY <1>1, TopOf DEF Top, StackOK
<1>3. /\ Top \in Frames /\ Top.at \in Items /\ Top.role \in Roles
      /\ Top.page \in Nat /\ Top.size \in Nat /\ Top.k \in Nat /\ Top.total \in Nat
      /\ Top.done \in BOOLEAN /\ Top.subs \in Seq(Roles) /\ n \in 1..3
      /\ Home(Top, n) /\ OnPage(Top, n) /\ Nested(Top)
      /\ Pages(Top.role, n) \in Seq(Nat)
  BY <1>1, <1>2, FrameFacts
<1>4. Len(Top.at) + 1 = n
  BY <1>3 DEF Home, Fits
<1> QED BY <1>1, <1>2, <1>3, <1>4 DEF TopPages

(* The next listing of the plan. *)
LEMMA NextRootKeeps == ASSUME WalkInv, NextRoot PROVE WalkInv'
<1>1. PICK Q, T : Q = roots' /\ T = stack'
  OBVIOUS
<1>2. /\ StackOK(roots, stack) /\ stack = <<>> /\ roots # <<>> /\ running
      /\ Q = Tail(roots) /\ T = <<Frame(<<>>, Head(roots))>>
      /\ source = "console" => Elems(plan) \subseteq ConsoleRoles
  BY <1>1 DEF WalkInv, CallInv, NextRoot
<1>3. /\ StackOK(Q, T)
      /\ \A x \in Items : Passed(x, roots, stack) => Passed(x, Q, T)
      /\ \A x : Placed(x) /\ Ahead(x, roots, stack) => Ahead(x, Q, T)
  BY ONLY <1>2, StartRoot
<1>4. /\ UNCHANGED <<World, Call, cancelled>> /\ hidden' = hidden
      /\ gaps' = gaps /\ sent' = sent /\ buffer' = buffer /\ outcome' = outcome
      /\ source' = source
  BY DEF NextRoot, World, Call
<1>5. OutOK(Out, Q, T)
  BY <1>3, OutStays DEF WalkInv
<1>6. ~cancelled /\ ~hidden' => Covered(Out, gaps, Q, T)
  BY <1>2, <1>3, <1>4, CoverStays DEF WalkInv, Owed
<1>7. ConsoleInv'
  BY <1>2, <1>4 DEF WalkInv, ConsoleInv
<1>8. PICK O, G : O = Out /\ G = gaps
  OBVIOUS
<1>9. O = Out' /\ G = gaps'
  BY <1>4, <1>8 DEF Out
<1>10. hidden' \in BOOLEAN /\ sent' \in Seq(Items) /\ buffer' \in Seq(Items)
  BY <1>4 DEF WalkInv, CallInv
<1> QED BY <1>1, <1>2, <1>3, <1>4, <1>5, <1>6, <1>7, <1>8, <1>9, <1>10, GoesOn

(* A page arrives: what it does not carry and the listing does not go on   *)
(* to is not there, or the listing came without its number of pages.       *)
LEMMA PageArrivesKeeps == ASSUME WalkInv, NEW counted \in BOOLEAN, PageArrives(counted) PROVE WalkInv'
<1>1. PICK R, T, O, G, n : R = roots /\ T = stack' /\ O = Out /\ G = gaps /\ n = Len(stack)
  OBVIOUS
<1>2. Asking /\ ~cancelled /\ Walking /\ Top.k = Top.size /\ Top.subs = <<>>
  BY DEF PageArrives, Asking, AtPageEnd
<1>3. PICK p, count, size, total, f :
         /\ p = Top.page + 1 /\ count = Len(TopPages) /\ size = SizeOf(TopPages, p)
         /\ total = (IF counted THEN count ELSE 0)
         /\ f = [Top EXCEPT !.page = p, !.size = size, !.k = 0, !.total = total,
                            !.done = Ends(Role(Top.role).scheme, p, count, size, total)]
  OBVIOUS
<1>4. /\ T = Append(SubSeq(stack, 1, Len(stack) - 1), f)
      /\ hidden' = (hidden \/ (~counted /\ p < count))
  BY <1>1, <1>3 DEF PageArrives, NextPage, Replace, Below
<1>5. /\ UNCHANGED <<World, Call, cancelled>> /\ roots' = roots
      /\ gaps' = gaps /\ sent' = sent /\ buffer' = buffer /\ outcome' = outcome
      /\ source' = source
  BY DEF PageArrives, World, Call
<1>6. /\ shape \in Shapes /\ StackOK(roots, stack) /\ stack # <<>> /\ running
      /\ Top = stack[n] /\ n \in 1..3 /\ n \in 1..Len(stack)
      /\ Top \in Frames /\ Top.at \in Items /\ Top.role \in Roles
      /\ Top.page \in Nat /\ Top.subs \in Seq(Roles) /\ Home(Top, n)
      /\ TopPages = Pages(Top.role, n) /\ Pages(Top.role, n) \in Seq(Nat)
  BY <1>1, <1>2, AtTop
<1>7. /\ p \in Nat \ {0} /\ count \in Nat /\ size \in Nat /\ total \in Nat
      /\ count = Len(Pages(Top.role, n)) /\ size = SizeOf(Pages(Top.role, n), p)
  BY <1>3, <1>6, LenProperties DEF SizeOf
<1>8. Ends(Role(Top.role).scheme, p, count, size, total) \in BOOLEAN
  <2>1. Role(Top.role).scheme \in Schemes
    BY <1>6, Table DEF TableOK
  <2>2. PICK s : s = Role(Top.role).scheme
    OBVIOUS
  <2> QED BY <2>1, <2>2 DEF Ends, Schemes, LinkEnds, WrappedLinkEnds, TotalEnds, NextEnds,
        ContinuationEnds, OffsetEnds
<1>9. /\ f \in Frames /\ f.at = Top.at /\ f.role = Top.role /\ f.page = p /\ f.size = size
      /\ f.k = 0 /\ f.total = total /\ f.subs = <<>>
      /\ f.done = Ends(Role(Top.role).scheme, p, count, size, total)
  BY <1>2, <1>3, <1>6, <1>7, <1>8 DEF Frames
<1>10. OnPage(f, n)
  BY <1>3, <1>7, <1>9 DEF OnPage, SizeOf
<1>11. /\ StackOK(R, T)
       /\ \A x \in Items : Passed(x, roots, stack) => Passed(x, R, T)
       /\ \A x : Placed(x) /\ Ahead(x, roots, stack) =>
             \/ Ahead(x, R, T)
             \/ /\ Under(x, f, n) /\ x[n].role = f.role /\ x[n].page >= f.page
                /\ ~InFront(x, f, n) /\ n \in 1..Len(x)
  <2>1. Turned(R, stack, n, f, T)
    BY <1>1, <1>2, <1>3, <1>4, <1>6, <1>9, <1>10 DEF Turned
  <2> QED BY ONLY <1>1, <1>6, <2>1, TurnPage
<1>12. OutOK(O, R, T)
  BY <1>1, <1>11, OutStays DEF WalkInv
<1>13. ASSUME ~hidden', NEW x, Placed(x), Under(x, f, n), x[n].role = f.role,
              x[n].page >= f.page, ~InFront(x, f, n), n \in 1..Len(x)
       PROVE  FALSE
  <2>1. x[n] \in SlotSet /\ x[n].page \in Nat /\ x[n].k \in Nat /\ Valid(x[n], n)
    BY <1>13, ItemShape DEF Placed
  <2>2. CASE x[n].page = p
    <3>1. x[n].k \in 1..size
      BY <1>7, <1>9, <1>13, <2>1, <2>2 DEF Valid, SizeOf
    <3> QED BY <1>7, <1>9, <1>13, <2>1, <2>2, <3>1 DEF InFront
  <2>3. CASE x[n].page > p
    <3>0. x[n].page > f.page
      BY <1>9, <2>3
    <3>1. f.done
      BY <1>13, <3>0 DEF InFront
    <3>2. total = count \/ p >= count
      <4>1. CASE counted
        BY <1>3, <4>1
      <4>2. CASE ~counted
        <5>1. ~(p < count)
          BY <1>4, <1>13, <4>2
        <5> QED BY <1>7, <5>1
      <4> QED BY <4>1, <4>2
    <3> QED BY <1>6, <1>7, <1>9, <1>13, <2>1, <2>3, <3>1, <3>2, NothingAfter
  <2> QED BY <1>7, <1>9, <1>13, <2>1, <2>2, <2>3
<1>14. ~cancelled /\ ~hidden' => Covered(O, G, R, T)
  <2>1. ASSUME ~cancelled, ~hidden' PROVE Covered(O, G, R, T)
    <3>1. ~hidden /\ Covered(O, G, roots, stack)
      BY <1>1, <1>4, <1>6, <2>1 DEF WalkInv
    <3>2. \A x : Owed(x) /\ Ahead(x, roots, stack) => Ahead(x, R, T)
      BY <1>11, <1>13, <2>1 DEF Owed
    <3> QED BY <3>1, <3>2, CoverStays
  <2> QED BY <2>1
<1>15. ConsoleInv'
  BY <1>5, <1>6 DEF WalkInv, ConsoleInv
<1>16. O = Out' /\ G = gaps' /\ R = roots' /\ T = stack'
  BY <1>1, <1>5 DEF Out
<1>17. hidden' \in BOOLEAN /\ sent' \in Seq(Items) /\ buffer' \in Seq(Items)
  BY <1>4, <1>5 DEF WalkInv, CallInv
<1> QED BY <1>5, <1>6, <1>11, <1>12, <1>14, <1>15, <1>16, <1>17, GoesOn

(* A page that is refused and given up leaves a gap: that page, or the     *)
(* listing from there on when it was the first and the rest is not known.  *)
LEMMA SkipPageKeeps == ASSUME WalkInv, NEW failure, SkipPage(failure) PROVE WalkInv'
<1>1. PICK R, T, O, n : R = roots /\ T = stack' /\ O = Out /\ n = Len(stack)
  OBVIOUS
<1>2. Asking /\ Walking /\ Top.k = Top.size /\ Top.subs = <<>>
  BY DEF SkipPage, Asking, AtPageEnd
<1>3. PICK p, f, unit, gap, G :
         /\ p = Top.page + 1
         /\ f = [Top EXCEPT !.page = p, !.size = 0, !.k = 0,
                            !.done = TotalEndsOnError(p, Top.total)]
         /\ unit = (IF Top.total = 0 THEN "listing" ELSE "page")
         /\ gap = [at |-> Top.at, role |-> Top.role, page |-> p, unit |-> unit]
         /\ G = gaps \cup {gap}
  OBVIOUS
<1>4. T = Append(SubSeq(stack, 1, Len(stack) - 1), f) /\ gaps' = G
  BY <1>1, <1>3 DEF SkipPage, NextPage, Replace, Below, Gap
<1>5. /\ UNCHANGED <<World, Call, cancelled>> /\ roots' = roots /\ hidden' = hidden
      /\ sent' = sent /\ buffer' = buffer /\ outcome' = outcome /\ source' = source
  BY DEF SkipPage, World, Call
<1>6. /\ shape \in Shapes /\ StackOK(roots, stack) /\ stack # <<>> /\ running
      /\ Top = stack[n] /\ n \in 1..3 /\ n \in 1..Len(stack)
      /\ Top \in Frames /\ Top.at \in Items /\ Top.role \in Roles /\ Top.total \in Nat
      /\ Top.page \in Nat /\ Top.subs \in Seq(Roles) /\ Home(Top, n) /\ OnPage(Top, n)
      /\ Pages(Top.role, n) \in Seq(Nat)
  BY <1>1, <1>2, AtTop
<1>7. p \in Nat /\ Len(Pages(Top.role, n)) \in Nat
  BY <1>3, <1>6, LenProperties
<1>8. /\ f \in Frames /\ f.at = Top.at /\ f.role = Top.role /\ f.page = p /\ f.size = 0
      /\ f.k = 0 /\ f.total = Top.total /\ f.subs = <<>> /\ f.done = (p >= Top.total)
  <2>1. TotalEndsOnError(p, Top.total) \in BOOLEAN
        /\ TotalEndsOnError(p, Top.total) = (p >= Top.total)
    BY DEF TotalEndsOnError
  <2>2. /\ f \in Frames /\ f.at = Top.at /\ f.role = Top.role /\ f.page = p /\ f.size = 0
        /\ f.k = 0 /\ f.total = Top.total /\ f.subs = <<>>
        /\ f.done = TotalEndsOnError(p, Top.total)
    BY <1>2, <1>3, <1>6, <1>7, <2>1 DEF Frames
  <2> QED BY <2>1, <2>2
<1>9. OnPage(f, n)
  BY <1>6, <1>8 DEF OnPage
<1>10. /\ StackOK(R, T)
       /\ \A x \in Items : Passed(x, roots, stack) => Passed(x, R, T)
       /\ \A x : Placed(x) /\ Ahead(x, roots, stack) =>
             \/ Ahead(x, R, T)
             \/ /\ Under(x, f, n) /\ x[n].role = f.role /\ x[n].page >= f.page
                /\ ~InFront(x, f, n) /\ n \in 1..Len(x)
  <2>1. Turned(R, stack, n, f, T)
    BY <1>1, <1>2, <1>3, <1>4, <1>6, <1>8, <1>9 DEF Turned
  <2> QED BY ONLY <1>1, <1>6, <2>1, TurnPage
<1>11. OutOK(O, R, T)
  BY <1>1, <1>10, OutStays DEF WalkInv
<1>12. ASSUME NEW x, Placed(x), Under(x, f, n), x[n].role = f.role,
              x[n].page >= f.page, ~InFront(x, f, n), n \in 1..Len(x)
       PROVE  Lies(x, gap)
  <2>1. x \in Items /\ x[n].page \in Nat /\ x[n].k \in Nat /\ Valid(x[n], n)
    BY <1>12, ItemShape DEF Placed
  <2>2. x[n].page = p \/ (unit = "listing" /\ x[n].page >= p /\ p \in Nat)
    <3>1. SUFFICES ASSUME x[n].page # p, unit # "listing" PROVE FALSE
      BY <1>7, <1>8, <1>12
    <3>2. x[n].page > f.page
      BY <1>7, <1>8, <1>12, <2>1, <3>1
    <3>3. f.done
      BY <1>12, <3>2 DEF InFront
    <3>4. p >= Top.total
      BY <1>8, <3>3
    <3>5. Top.total = Len(Pages(Top.role, n))
      BY <1>3, <1>6, <3>1 DEF OnPage
    <3>6. x[n].page \in 1..Len(Pages(Top.role, n))
      BY <1>8, <1>12, <2>1 DEF Valid
    <3> QED BY <1>7, <1>8, <2>1, <3>2, <3>4, <3>5, <3>6
  <2>3. Home(f, n) /\ gap = [at |-> f.at, role |-> f.role, page |-> p, unit |-> unit]
    BY <1>3, <1>6, <1>8 DEF Home, Fits
  <2>4. n \in 1..3 /\ f \in Frames /\ x \in Items /\ Under(x, f, n) /\ x[n].role = f.role
    BY <1>6, <1>8, <1>12, <2>1
  <2>5. Lies(x, [at |-> f.at, role |-> f.role, page |-> p, unit |-> unit])
    BY ONLY <2>2, <2>3, <2>4, InGap
  <2> QED BY <2>3, <2>5
<1>13. ~cancelled /\ ~hidden' => Covered(O, G, R, T)
  <2>1. ASSUME ~cancelled, ~hidden' PROVE Covered(O, G, R, T)
    <3>1. Covered(O, gaps, roots, stack)
      BY <1>1, <1>5, <1>6, <2>1 DEF WalkInv
    <3>2. \A x : Owed(x) /\ Ahead(x, roots, stack) => Lies(x, gap) \/ Ahead(x, R, T)
      BY <1>10, <1>12 DEF Owed
    <3>3. gaps \subseteq G /\ gap \in G
      BY <1>3
    <3> QED BY <3>1, <3>2, <3>3, CoverStays
  <2> QED BY <2>1
<1>14. ConsoleInv'
  BY <1>5, <1>6 DEF WalkInv, ConsoleInv
<1>15. O = Out' /\ G = gaps' /\ R = roots' /\ T = stack'
  BY <1>1, <1>4, <1>5 DEF Out
<1>16. hidden' \in BOOLEAN /\ sent' \in Seq(Items) /\ buffer' \in Seq(Items)
  BY <1>5 DEF WalkInv, CallInv
<1> QED BY <1>5, <1>6, <1>10, <1>11, <1>13, <1>14, <1>15, <1>16, GoesOn

(* A listing that is given up leaves all of it that is ahead in a gap. *)
LEMMA SkipListingKeeps == ASSUME WalkInv, NEW failure, SkipListing(failure) PROVE WalkInv'
<1>1. PICK R, T, O, n : R = roots /\ T = stack' /\ O = Out /\ n = Len(stack)
  OBVIOUS
<1>2. Asking /\ Walking /\ Top.k = Top.size /\ Top.subs = <<>>
  BY DEF SkipListing, Asking, AtPageEnd
<1>3. PICK p, gap, G :
         /\ p = Top.page + 1
         /\ gap = [at |-> Top.at, role |-> Top.role, page |-> p, unit |-> "listing"]
         /\ G = gaps \cup {gap}
  OBVIOUS
<1>4. T = SubSeq(stack, 1, Len(stack) - 1) /\ gaps' = G
  BY <1>1, <1>3 DEF SkipListing, NextPage, Below, Gap
<1>5. /\ UNCHANGED <<World, Call, cancelled>> /\ roots' = roots /\ hidden' = hidden
      /\ sent' = sent /\ buffer' = buffer /\ outcome' = outcome /\ source' = source
  BY DEF SkipListing, World, Call
<1>6. /\ StackOK(roots, stack) /\ stack # <<>> /\ running
      /\ Top = stack[n] /\ n \in 1..3 /\ Top \in Frames /\ Home(Top, n)
      /\ Top.page \in Nat /\ Top.k \in Nat
  BY <1>1, <1>2, AtTop
<1>7. /\ StackOK(R, T)
      /\ \A x : Passed(x, roots, stack) => Passed(x, R, T)
      /\ \A x : Ahead(x, roots, stack) => Ahead(x, R, T) \/ AheadIn(x, Top, n)
  BY <1>1, <1>4, <1>6, Pop
<1>8. OutOK(O, R, T)
  BY <1>1, <1>7, OutStays DEF WalkInv
<1>9. ASSUME NEW x, Placed(x), AheadIn(x, Top, n) PROVE Lies(x, gap)
  <2>1. Elems(<<>>) = {}
    BY DEF Elems
  <2>2. Under(x, Top, n) /\ x[n].role = Top.role /\ InFront(x, Top, n)
    BY <1>2, <1>9, <2>1 DEF AheadIn
  <2>3. x \in Items
    BY <1>9 DEF Placed
  <2>4. x[n].page \in Nat /\ x[n].k \in Nat
    BY <1>6, <2>2, <2>3, ItemShape DEF Under
  <2>5. x[n].page >= p /\ p \in Nat
    BY <1>2, <1>3, <1>6, <2>2, <2>4 DEF InFront
  <2>6. Lies(x, [at |-> Top.at, role |-> Top.role, page |-> p, unit |-> "listing"])
    BY ONLY <1>6, <2>2, <2>3, <2>5, InGap
  <2> QED BY <1>3, <2>6
<1>10. ~cancelled /\ ~hidden' => Covered(O, G, R, T)
  <2>1. ASSUME ~cancelled, ~hidden' PROVE Covered(O, G, R, T)
    <3>1. Covered(O, gaps, roots, stack)
      BY <1>1, <1>5, <1>6, <2>1 DEF WalkInv
    <3>2. \A x : Owed(x) /\ Ahead(x, roots, stack) => Lies(x, gap) \/ Ahead(x, R, T)
      BY <1>7, <1>9 DEF Owed
    <3>3. gaps \subseteq G /\ gap \in G
      BY <1>3
    <3> QED BY <3>1, <3>2, <3>3, CoverStays
  <2> QED BY <2>1
<1>11. ConsoleInv'
  BY <1>5, <1>6 DEF WalkInv, ConsoleInv
<1>12. O = Out' /\ G = gaps' /\ R = roots' /\ T = stack'
  BY <1>1, <1>4, <1>5 DEF Out
<1>13. hidden' \in BOOLEAN /\ sent' \in Seq(Items) /\ buffer' \in Seq(Items)
  BY <1>5 DEF WalkInv, CallInv
<1> QED BY <1>5, <1>6, <1>7, <1>8, <1>10, <1>11, <1>12, <1>13, GoesOn

(* A listing that is done has nothing ahead. *)
LEMMA ListingDoneKeeps == ASSUME WalkInv, ListingDone PROVE WalkInv'
<1>1. PICK R, T, O, n, G : R = roots /\ T = stack' /\ O = Out /\ n = Len(stack) /\ G = gaps
  OBVIOUS
<1>2. Walking /\ Top.k = Top.size /\ Top.subs = <<>> /\ Top.done
  BY DEF ListingDone, AtPageEnd
<1>3. /\ UNCHANGED <<World, Call, cancelled>> /\ roots' = roots /\ hidden' = hidden
      /\ sent' = sent /\ buffer' = buffer /\ outcome' = outcome /\ source' = source
      /\ gaps' = gaps /\ T = SubSeq(stack, 1, Len(stack) - 1)
  BY <1>1 DEF ListingDone, World, Call, Below
<1>4. /\ StackOK(roots, stack) /\ stack # <<>> /\ running
      /\ Top = stack[n] /\ n \in 1..3 /\ Top.page \in Nat /\ Top.k \in Nat
  BY <1>1, <1>2, AtTop
<1>5. /\ StackOK(R, T)
      /\ \A x : Passed(x, roots, stack) => Passed(x, R, T)
      /\ \A x : Ahead(x, roots, stack) => Ahead(x, R, T) \/ AheadIn(x, Top, n)
  BY <1>1, <1>3, <1>4, Pop
<1>6. OutOK(O, R, T)
  BY <1>1, <1>5, OutStays DEF WalkInv
<1>7. ASSUME NEW x, Placed(x), AheadIn(x, Top, n) PROVE FALSE
  <2>1. Elems(<<>>) = {}
    BY DEF Elems
  <2>2. Under(x, Top, n) /\ InFront(x, Top, n)
    BY <1>2, <1>7, <2>1 DEF AheadIn
  <2>3. x \in Items
    BY <1>7 DEF Placed
  <2>4. x[n].page \in Nat /\ x[n].k \in Nat
    BY <1>4, <2>2, <2>3, ItemShape DEF Under
  <2> QED BY <1>2, <1>4, <2>2, <2>4 DEF InFront
<1>8. ~cancelled /\ ~hidden' => Covered(O, G, R, T)
  <2>1. ASSUME ~cancelled, ~hidden' PROVE Covered(O, G, R, T)
    <3>1. Covered(O, G, roots, stack)
      BY <1>1, <1>3, <1>4, <2>1 DEF WalkInv
    <3>2. \A x : Owed(x) /\ Ahead(x, roots, stack) => Ahead(x, R, T)
      BY <1>5, <1>7 DEF Owed
    <3> QED BY <3>1, <3>2, CoverStays
  <2> QED BY <2>1
<1>9. ConsoleInv'
  BY <1>3, <1>4 DEF WalkInv, ConsoleInv
<1>10. O = Out' /\ G = gaps' /\ R = roots' /\ T = stack'
  BY <1>1, <1>3 DEF Out
<1>11. hidden' \in BOOLEAN /\ sent' \in Seq(Items) /\ buffer' \in Seq(Items)
  BY <1>3 DEF WalkInv, CallInv
<1> QED BY <1>3, <1>4, <1>5, <1>6, <1>8, <1>9, <1>10, <1>11, GoesOn

(* A refusal taken for the last page: what the listing still had ahead is  *)
(* hidden.                                                                 *)
LEMMA ReadRefusalKeeps == ASSUME WalkInv, ReadRefusal PROVE WalkInv'
<1>1. PICK R, T, O, G : R = roots /\ T = stack' /\ O = Out /\ G = gaps
  OBVIOUS
<1>2. Walking
  BY DEF ReadRefusal, Asking, AtPageEnd
<1>3. /\ UNCHANGED <<World, Call, cancelled>> /\ roots' = roots /\ hidden' = TRUE
      /\ sent' = sent /\ buffer' = buffer /\ outcome' = outcome /\ source' = source
      /\ gaps' = gaps /\ T = SubSeq(stack, 1, Len(stack) - 1)
  BY <1>1 DEF ReadRefusal, World, Call, Below
<1>4. StackOK(roots, stack) /\ stack # <<>> /\ running
  BY <1>2, AtTop
<1>5. StackOK(R, T) /\ \A x : Passed(x, roots, stack) => Passed(x, R, T)
  BY <1>1, <1>3, <1>4, Pop
<1>6. OutOK(O, R, T)
  BY <1>1, <1>5, OutStays DEF WalkInv
<1>7. ConsoleInv'
  BY <1>3, <1>4 DEF WalkInv, ConsoleInv
<1>8. O = Out' /\ G = gaps' /\ R = roots' /\ T = stack'
  BY <1>1, <1>3 DEF Out
<1>9. sent' \in Seq(Items) /\ buffer' \in Seq(Items)
  BY <1>3 DEF WalkInv
<1> QED BY <1>3, <1>4, <1>5, <1>6, <1>7, <1>8, <1>9, GoesOn

(* A listing under the item the walk is at. *)
LEMMA EnterSubKeeps == ASSUME WalkInv, EnterSub PROVE WalkInv'
<1>1. PICK R, T, O, n, G : R = roots /\ T = stack' /\ O = Out /\ n = Len(stack) /\ G = gaps
  OBVIOUS
<1>2. Walking /\ Top.subs # <<>>
  BY DEF EnterSub
<1>3. /\ UNCHANGED <<World, Call, cancelled>> /\ roots' = roots /\ hidden' = hidden
      /\ sent' = sent /\ buffer' = buffer /\ outcome' = outcome /\ source' = source
      /\ gaps' = gaps
  BY DEF EnterSub, World, Call
<1>4. /\ StackOK(roots, stack) /\ stack # <<>> /\ running /\ shape \in Shapes
      /\ Top = stack[n]
  BY <1>1, <1>2, AtTop
<1>5. Descended(R, stack, n, T)
  BY <1>1, <1>2, <1>4 DEF Descended, EnterSub, Below, SlotOf
<1>6. /\ StackOK(R, T)
      /\ \A x \in Items : Passed(x, R, stack) => Passed(x, R, T)
      /\ \A x : Placed(x) /\ Ahead(x, R, stack) => Ahead(x, R, T)
  BY ONLY <1>4, <1>5, GoDown
<1>7. OutOK(O, R, T)
  BY <1>1, <1>6, OutStays DEF WalkInv
<1>8. ~cancelled /\ ~hidden' => Covered(O, G, R, T)
  <2>1. ASSUME ~cancelled, ~hidden' PROVE Covered(O, G, R, T)
    <3>1. Covered(O, G, R, stack)
      BY <1>1, <1>3, <1>4, <2>1 DEF WalkInv
    <3>2. \A x : Owed(x) /\ Ahead(x, R, stack) => Ahead(x, R, T)
      BY <1>6 DEF Owed
    <3> QED BY <3>1, <3>2, CoverStays
  <2> QED BY <2>1
<1>9. ConsoleInv'
  BY <1>3, <1>4 DEF WalkInv, ConsoleInv
<1>10. O = Out' /\ G = gaps' /\ R = roots' /\ T = stack'
  BY <1>1, <1>3 DEF Out
<1>11. hidden' \in BOOLEAN /\ sent' \in Seq(Items) /\ buffer' \in Seq(Items)
  BY <1>3 DEF WalkInv, CallInv
<1> QED BY <1>3, <1>4, <1>6, <1>7, <1>8, <1>9, <1>10, <1>11, GoesOn

(* An item that is sent, or put into the buffer. *)
Grown(O, R, S, P, Q, T, item) ==
    /\ O \in Seq(Items) /\ OutOK(O, R, S) /\ Owed(item) /\ Passed(item, Q, T)
    /\ \A x \in Items : Passed(x, R, S) =>
          Passed(x, Q, T) /\ (Len(x) >= Len(item) => SubSeq(x, 1, Len(item)) # item)
    /\ P = O \o <<item>>

(* Sending an item that was not passed, nor anything under it, keeps the     *)
(* order. *)
LEMMA OutGrows ==
    ASSUME NEW O, NEW R, NEW S, NEW P, NEW Q, NEW T, NEW item, Grown(O, R, S, P, Q, T, item)
    PROVE  OutOK(P, Q, T) /\ Elems(O) \subseteq Elems(P) /\ item \in Elems(P)
<1> USE DEF Grown
<1>1. item \in Items /\ <<item>> \in Seq(Items)
  BY DEF Owed, Placed
<1>2. /\ Len(O) \in Nat /\ Len(P) = Len(O) + 1
      /\ \A i \in 1..(Len(O) + 1) : P[i] = IF i <= Len(O) THEN O[i] ELSE <<item>>[i - Len(O)]
  BY <1>1, ConcatProperties, LenProperties
<1>3. \A i \in 1..Len(P) : (i \in 1..Len(O) /\ P[i] = O[i]) \/ (i = Len(P) /\ P[i] = item)
  BY <1>2
<1>4. \A i \in 1..Len(O) : i \in 1..Len(P) /\ P[i] = O[i]
  BY <1>2
<1>5. Len(P) \in 1..Len(P) /\ P[Len(P)] = item /\ \A i \in 1..Len(O) : ~(Len(P) < i)
  BY <1>2
<1>6. Elems(O) \subseteq Elems(P) /\ item \in Elems(P)
  BY <1>4, <1>5 DEF Elems
<1>7. \A i \in 1..Len(O) : O[i] \in Items /\ Owed(O[i]) /\ Passed(O[i], R, S)
  BY DEF OutOK, Owed, Placed
<1>8. \A i \in 1..Len(P) : Owed(P[i]) /\ Passed(P[i], Q, T)
  BY <1>3, <1>7
<1>9. ASSUME NEW i \in 1..Len(P), NEW j \in 1..Len(P), i < j, Len(P[i]) >= Len(P[j])
      PROVE  SubSeq(P[i], 1, Len(P[j])) # P[j]
  <2>1. i \in 1..Len(O) /\ P[i] = O[i]
    BY <1>2, <1>3, <1>9
  <2>2. CASE j \in 1..Len(O) /\ P[j] = O[j]
    BY <1>9, <2>1, <2>2 DEF OutOK
  <2>3. CASE P[j] = item
    BY <1>7, <1>9, <2>1, <2>3
  <2> QED BY <1>3, <2>2, <2>3
<1> QED BY <1>6, <1>8, <1>9 DEF OutOK

(* An item is handled: skipped, sent or put into the buffer, and the       *)
(* listings under it become the next to walk.                              *)
LEMMA HandleItemKeeps == ASSUME WalkInv, HandleItem PROVE WalkInv'
<1>1. PICK R, T, O, n, G, P, item :
         /\ R = roots /\ T = stack' /\ O = Out /\ n = Len(stack) /\ G = gaps /\ P = Out'
         /\ item = Item
  OBVIOUS
<1>2. Walking /\ Top.k < Top.size /\ Top.subs = <<>>
  BY DEF HandleItem, AtItem
<1>3. /\ UNCHANGED <<World, Call, cancelled>> /\ roots' = roots /\ hidden' = hidden
      /\ outcome' = outcome /\ source' = source /\ gaps' = gaps
  BY DEF HandleItem, World, Call
<1>4. /\ shape \in Shapes /\ StackOK(roots, stack) /\ stack # <<>> /\ running
      /\ Top = stack[n] /\ n \in 1..3 /\ Top \in Frames /\ Top.at \in Items
      /\ Top.role \in Roles /\ Top.page \in Nat /\ Top.k \in Nat /\ Home(Top, n)
  BY <1>1, <1>2, AtTop
<1>5. PICK f, slot :
         /\ f = (IF Skipped(item) THEN [Top EXCEPT !.k = Top.k + 1]
                 ELSE [Top EXCEPT !.k = Top.k + 1, !.subs = Subs(item)])
         /\ slot = [role |-> Top.role, page |-> Top.page, k |-> Top.k + 1]
  OBVIOUS
<1>6. T = Append(SubSeq(stack, 1, Len(stack) - 1), f)
  BY <1>1, <1>5 DEF HandleItem, Replace, Below
<1>7. /\ item \in Items /\ item # <<>> /\ Len(item) = n /\ item[n] = slot
      /\ item = Append(Top.at, slot) /\ slot.role = Top.role
  <2>1. item = Append(Top.at, slot)
    BY <1>1, <1>5 DEF Item
  <2>2. slot \in SlotSet /\ slot.role = Top.role
    BY <1>4, <1>5 DEF SlotSet
  <2>3. IsItem(item, Top, n, slot)
    BY <1>4, <2>1, <2>2 DEF IsItem, Home
  <2>4. item \in Items /\ item # <<>> /\ Len(item) = n /\ item[n] = slot
    BY ONLY <2>3, NewItem
  <2> QED BY ONLY <2>1, <2>2, <2>4
<1>8. Subs(item) \in Seq(Roles) /\ <<>> \in Seq(Roles)
  <2>1. item \in Items /\ item # <<>>
    BY <1>7
  <2>2. Subs(item) \in Seq(Roles)
    BY ONLY <2>1, SubsFacts
  <2> QED BY <2>2
<1>9. /\ f \in Frames /\ f.at = Top.at /\ f.role = Top.role /\ f.page = Top.page
      /\ f.size = Top.size /\ f.total = Top.total /\ f.done = Top.done /\ f.k = Top.k + 1
      /\ f.subs = IF Skipped(item) THEN <<>> ELSE Subs(item)
  <2>1. CASE Skipped(item)
    <3>1. f = [Top EXCEPT !.k = Top.k + 1] /\ Top \in Frames /\ Top.subs = <<>> /\ Top.k \in Nat
      BY <1>2, <1>4, <1>5, <2>1
    <3> QED BY ONLY <2>1, <3>1 DEF Frames
  <2>2. CASE ~Skipped(item)
    <3>1. /\ f = [Top EXCEPT !.k = Top.k + 1, !.subs = Subs(item)] /\ Top \in Frames
          /\ Subs(item) \in Seq(Roles) /\ Top.k \in Nat
      BY <1>4, <1>5, <1>8, <2>2
    <3>2. /\ f \in Frames /\ f.at = Top.at /\ f.role = Top.role /\ f.page = Top.page
          /\ f.size = Top.size /\ f.total = Top.total /\ f.done = Top.done /\ f.k = Top.k + 1
          /\ f.subs = Subs(item)
      <4>1. PICK w \in Seq(Roles) : w = Subs(item)
        BY ONLY <3>1
      <4>2. f = [Top EXCEPT !.k = Top.k + 1, !.subs = w] /\ Top \in Frames /\ Top.k + 1 \in Nat
        BY ONLY <3>1, <4>1
      <4>3. f \in Frames
        BY ONLY <4>2 DEF Frames
      <4> QED BY ONLY <4>1, <4>2, <4>3 DEF Frames
    <3> QED BY ONLY <2>2, <3>2
  <2> QED BY <2>1, <2>2
<1>10. Taken(R, stack, n, f, item, T)
  <2>1. SlotOf(f) = slot
    BY <1>5, <1>9 DEF SlotOf
  <2> QED BY <1>1, <1>2, <1>4, <1>6, <1>7, <1>9, <2>1 DEF Taken
<1>11. /\ StackOK(R, T) /\ Placed(item) /\ Passed(item, R, T)
       /\ \A x \in Items : Passed(x, R, stack) =>
             Passed(x, R, T) /\ (Len(x) >= n => SubSeq(x, 1, n) # item)
       /\ \A x : Placed(x) /\ Ahead(x, R, stack) => Ahead(x, R, T) \/ x = item
  BY ONLY <1>4, <1>10, TakeItem
<1>12. PICK out : out = (IF Skipped(item) \/ Role(Top.role).type \notin types THEN <<>>
                         ELSE <<item>>)
  OBVIOUS
<1>13. out \in Seq(Items) /\ sent \in Seq(Items) /\ buffer \in Seq(Items) /\ <<>> \in Seq(Items)
  BY <1>7, <1>12 DEF WalkInv
<1>14. \/ sent' = sent /\ buffer' = buffer \o out /\ (source # "console" => buffer' = <<>>)
       \/ sent' = sent \o out /\ buffer' = <<>> /\ buffer = <<>> /\ source # "console"
  <2>1. source # "console" => buffer = <<>>
    BY DEF WalkInv, ConsoleInv
  <2>2. CASE Skipped(item)
    <3>1. sent' = sent /\ buffer' = buffer /\ out = <<>>
      BY <1>1, <1>12, <2>2 DEF HandleItem
    <3>2. buffer \o <<>> = buffer
      BY <1>13, ConcatEmptySeq
    <3> QED BY <2>1, <3>1, <3>2
  <2>3. CASE ~Skipped(item)
    <3>1. out = IF Role(Top.role).type \in types THEN <<item>> ELSE <<>>
      BY <1>12, <2>3
    <3>2. IF Buffers THEN buffer' = buffer \o out /\ sent' = sent
          ELSE sent' = sent \o out /\ buffer' = buffer
      BY <1>1, <2>3, <3>1 DEF HandleItem
    <3> QED BY <2>1, <3>2 DEF Buffers
  <2> QED BY <2>2, <2>3
<1>15. P = O \o out /\ sent' \in Seq(Items) /\ buffer' \in Seq(Items)
  <2>1. CASE sent' = sent /\ buffer' = buffer \o out
    <3>1. buffer \o out \in Seq(Items) /\ (sent \o buffer) \o out = sent \o (buffer \o out)
      BY <1>13, ConcatProperties, ConcatAssociative
    <3> QED BY <1>1, <1>13, <2>1, <3>1 DEF Out
  <2>2. CASE sent' = sent \o out /\ buffer' = <<>> /\ buffer = <<>>
    <3>1. /\ sent \o out \in Seq(Items) /\ (sent \o out) \o <<>> = sent \o out
          /\ sent \o <<>> = sent
      BY <1>13, ConcatProperties, ConcatEmptySeq
    <3> QED BY <1>1, <1>13, <2>2, <3>1 DEF Out
  <2> QED BY <1>14, <2>1, <2>2
<1>16. O \in Seq(Items) /\ OutOK(O, R, stack)
  BY <1>1, <1>13, ConcatProperties DEF WalkInv, Out
<1>17. RoleOf(item) = Role(Top.role)
  BY <1>7 DEF RoleOf
<1>18. /\ OutOK(P, R, T) /\ Elems(O) \subseteq Elems(P)
       /\ Owed(item) => item \in Elems(P)
  <2>1. CASE Owed(item)
    <3>1. P = O \o <<item>>
      BY <1>12, <1>15, <1>17, <2>1 DEF Owed
    <3>2. \A x \in Items : Passed(x, R, stack) =>
             Passed(x, R, T) /\ (Len(x) >= Len(item) => SubSeq(x, 1, Len(item)) # item)
      BY <1>7, <1>11
    <3>3. Passed(item, R, T)
      BY <1>11
    <3>4. Grown(O, R, stack, P, R, T, item)
      BY ONLY <1>16, <2>1, <3>1, <3>2, <3>3 DEF Grown
    <3> QED BY ONLY <3>4, OutGrows
  <2>2. CASE ~Owed(item)
    <3>1. out = <<>>
      BY <1>11, <1>12, <1>17, <2>2 DEF Owed
    <3>2. P = O
      BY <1>15, <1>16, <3>1, ConcatEmptySeq
    <3>3. OutOK(O, R, T)
      BY <1>11, <1>16, OutStays
    <3> QED BY <2>2, <3>2, <3>3
  <2> QED BY <2>1, <2>2
<1>19. ~cancelled /\ ~hidden' => Covered(P, G, R, T)
  <2>1. ASSUME ~cancelled, ~hidden' PROVE Covered(P, G, R, T)
    <3>1. Covered(O, G, R, stack)
      BY <1>1, <1>3, <1>4, <2>1 DEF WalkInv
    <3>2. \A x : Owed(x) /\ Ahead(x, R, stack) => x \in Elems(P) \/ Ahead(x, R, T)
      BY <1>11, <1>18 DEF Owed
    <3> QED BY <1>18, <3>1, <3>2, CoverStays
  <2> QED BY <2>1
<1>20. ConsoleInv'
  BY <1>3, <1>4, <1>14 DEF WalkInv, ConsoleInv
<1>21. P = Out' /\ G = gaps' /\ R = roots' /\ T = stack' /\ hidden' \in BOOLEAN
  BY <1>1, <1>3 DEF WalkInv, CallInv
<1> QED BY <1>3, <1>4, <1>11, <1>15, <1>18, <1>19, <1>20, <1>21, GoesOn

(* The console source sends what it has collected, in order. *)
LEMMA FlushKeeps == ASSUME WalkInv, Flush PROVE WalkInv'
<1>1. PICK R, T, O, G : R = roots /\ T = stack /\ O = Out /\ G = gaps
  OBVIOUS
<1>2. /\ UNCHANGED <<World, Call, cancelled>> /\ roots' = roots /\ hidden' = hidden
      /\ outcome' = outcome /\ source' = source /\ gaps' = gaps /\ stack' = stack
      /\ running /\ stack = <<>> /\ roots = <<>> /\ buffer # <<>>
      /\ sent' = Append(sent, Head(buffer)) /\ buffer' = Tail(buffer)
  BY DEF Flush, World, Call
<1>3. sent \in Seq(Items) /\ buffer \in Seq(Items)
  BY DEF WalkInv
<1>4. /\ Head(buffer) \in Items /\ Tail(buffer) \in Seq(Items)
      /\ <<Head(buffer)>> \in Seq(Items) /\ <<Head(buffer)>> \o Tail(buffer) = buffer
  <2>1. /\ Head(buffer) \in Items /\ Tail(buffer) \in Seq(Items)
        /\ Len(Tail(buffer)) = Len(buffer) - 1 /\ Len(buffer) \in Nat /\ Len(buffer) >= 1
        /\ \A i \in 1..Len(Tail(buffer)) : Tail(buffer)[i] = buffer[i + 1]
        /\ Head(buffer) = buffer[1]
    BY <1>2, <1>3, HeadTailProperties, EmptySeq, LenProperties
  <2>2. PICK h, t, u : h = <<Head(buffer)>> /\ t = Tail(buffer) /\ u = h \o t
    OBVIOUS
  <2>3. h \in Seq(Items) /\ Len(h) = 1 /\ h[1] = Head(buffer)
    BY <2>1, <2>2
  <2>4. /\ u \in Seq(Items) /\ Len(u) = Len(h) + Len(t)
        /\ \A i \in 1..(Len(h) + Len(t)) : u[i] = IF i <= Len(h) THEN h[i] ELSE t[i - Len(h)]
    BY <2>1, <2>2, <2>3, ConcatProperties
  <2>5. Len(u) = Len(buffer)
    BY <2>1, <2>2, <2>3, <2>4
  <2>6. ASSUME NEW i \in 1..Len(u) PROVE u[i] = buffer[i]
    <3>1. CASE i = 1
      BY <2>1, <2>2, <2>3, <2>4, <2>5, <3>1
    <3>2. CASE i # 1
      <4>1. i - 1 \in 1..Len(t) /\ (i - 1) + 1 = i /\ ~(i <= 1)
        BY <2>1, <2>2, <2>5, <3>2
      <4>2. u[i] = t[i - 1]
        BY <2>3, <2>4, <4>1
      <4> QED BY <2>1, <2>2, <4>1, <4>2
    <3> QED BY <3>1, <3>2
  <2>7. u = buffer
    BY ONLY <1>3, <2>4, <2>5, <2>6, SeqEqual
  <2> QED BY <2>1, <2>2, <2>3, <2>7
<1>5. /\ Append(sent, Head(buffer)) \in Seq(Items)
      /\ Append(sent, Head(buffer)) = sent \o <<Head(buffer)>>
  BY <1>3, <1>4, AppendProperties, AppendIsConcat
<1>6. (sent \o <<Head(buffer)>>) \o Tail(buffer) = sent \o (<<Head(buffer)>> \o Tail(buffer))
  BY <1>3, <1>4, ConcatAssociative
<1>7. O = Out' /\ G = gaps' /\ R = roots' /\ T = stack'
  BY <1>1, <1>2, <1>4, <1>5, <1>6 DEF Out
<1>8. StackOK(R, T) /\ OutOK(O, R, T) /\ (~cancelled /\ ~hidden' => Covered(O, G, R, T))
  BY <1>1, <1>2 DEF WalkInv
<1>9. source = "console" /\ outcome = "none"
  BY <1>2 DEF WalkInv, ConsoleInv, CallInv
<1>10. ConsoleInv'
  BY <1>2, <1>9 DEF ConsoleInv
<1>11. sent' \in Seq(Items) /\ buffer' \in Seq(Items) /\ hidden' \in BOOLEAN
  BY <1>2, <1>4, <1>5 DEF WalkInv, CallInv
<1> QED BY <1>2, <1>7, <1>8, <1>10, <1>11, GoesOn

(* A failure the listing does not cope with ends the call: with nil only   *)
(* for a cancellation, or for a timeout that is swallowed.                 *)
LEMMA FailureEnds ==
    ASSUME WalkInv, Walking, NEW failure, Possible(failure),
           failure \notin Role(Top.role).skips, LeaveOn(failure), gaps' = gaps
    PROVE  WalkInv'
<1>1. PICK result : result = (IF failure \in Swallows[source] THEN "nil" ELSE "error")
  OBVIOUS
<1>2. /\ result \in {"nil", "error"} /\ Leave(result)
      /\ hidden' = (hidden \/ (failure = "timeout" /\ failure \in Swallows[source]))
  BY <1>1 DEF LeaveOn
<1>3. hidden' \in BOOLEAN
  BY <1>2
<1>4. result # "nil" /\ source = "console" => sent = <<>>
  BY DEF WalkInv, ConsoleInv, Walking
<1>5. source \in {"github", "gitlab", "bitbucket", "nexus", "sysdig", "azure", "devops", "gcp",
                  "console"}
  BY SourcesAssumption DEF WalkInv, CallInv, Swallows
<1>6. result = "error" /\ cancelled => source \in {"gitlab", "gcp"}
  <2>1. SUFFICES ASSUME result = "error", cancelled PROVE source \in {"gitlab", "gcp"}
    OBVIOUS
  <2>2. failure = "canceled" /\ failure \notin Swallows[source]
    BY <1>1, <2>1 DEF Possible, WalkInv, CallInv
  <2>3. source # "console"
    <3>1. SUFFICES ASSUME source = "console" PROVE FALSE
      OBVIOUS
    <3>2. Top.role \in ConsoleRoles /\ Top.role \in Roles
      BY <3>1, AtTop DEF Home, Fits
    <3>3. "canceled" \in Role(Top.role).skips
      BY <3>2, Table DEF TableOK
    <3> QED BY <2>2, <3>3
  <2> QED BY <1>5, <2>2, <2>3 DEF Swallows
<1>7. ~(result = "nil" /\ ~cancelled /\ ~hidden')
  <2>1. SUFFICES ASSUME result = "nil", ~cancelled, ~hidden' PROVE FALSE
    OBVIOUS
  <2>2. failure \in Swallows[source] /\ failure # "canceled"
    BY <1>1, <2>1 DEF Possible
  <2>3. failure = "timeout"
    BY <1>5, <2>2 DEF Swallows
  <2> QED BY <1>2, <2>1, <2>2, <2>3
<1> QED BY <1>2, <1>3, <1>4, <1>6, <1>7, CallEnds

(* A cancellation that is noticed ends the call with nil. *)
LEMMA StopOnCancelKeeps == ASSUME WalkInv, StopOnCancel PROVE WalkInv'
<1>1. cancelled /\ Leave("nil") /\ gaps' = gaps /\ hidden' \in BOOLEAN
  BY DEF StopOnCancel, WalkInv, CallInv
<1> QED BY <1>1, CallEnds

(* A walk the console source dies in has sent nothing. *)
LEMMA PanicsKeeps == ASSUME WalkInv, Panics PROVE WalkInv'
<1>1. Leave("panic") /\ gaps' = gaps /\ hidden' \in BOOLEAN /\ stack # <<>>
  BY DEF Panics, AtItem, Walking, WalkInv, CallInv
<1>2. source = "console" => sent = <<>>
  BY <1>1 DEF WalkInv, ConsoleInv
<1> QED BY <1>1, <1>2, CallEnds

(* The walk is over: nothing is ahead. *)
LEMMA ReturnKeeps == ASSUME WalkInv, Return PROVE WalkInv'
<1>1. /\ Leave("nil") /\ gaps' = gaps /\ hidden' = hidden /\ running
      /\ stack = <<>> /\ roots = <<>> /\ buffer = <<>>
  BY DEF Return
<1>2. sent \o <<>> = sent
  BY ConcatEmptySeq DEF WalkInv
<1>3. ~cancelled /\ ~hidden' => Covered(sent, gaps, <<>>, <<>>)
  BY <1>1, <1>2 DEF WalkInv, Out
<1>4. hidden' \in BOOLEAN
  BY <1>1 DEF WalkInv, CallInv
<1> QED BY <1>1, <1>3, <1>4, CallEnds

(* A call starts: everything is ahead. *)
LEMMA StartKeeps ==
    ASSUME WalkInv, NEW ts \in SUBSET KnownTypes(source), NEW order \in Plans(source, ts),
           StartSyncProcess(ts, order)
    PROVE  WalkInv'
<1>1. /\ calls < MaxCalls /\ calls' = calls + 1 /\ lock' = TRUE /\ running' = TRUE
      /\ types' = ts /\ plan' = order /\ roots' = order
      /\ sent' = <<>> /\ gaps' = {} /\ hidden' = FALSE /\ cancelled' = FALSE
      /\ outcome' = "none" /\ source' = source /\ shape' = shape /\ odd' = odd
      /\ stack' = stack /\ buffer' = buffer /\ ~running
  BY DEF StartSyncProcess, World
<1>2. stack = <<>> /\ buffer = <<>> /\ source \in Sources
  BY <1>1 DEF WalkInv, CallInv
<1>3. /\ order \in Seq(Roles) /\ Distinct(order)
      /\ source = "console" => Elems(order) \subseteq ConsoleRoles
  BY <1>2, PlanFacts
<1>4. CallInv'
  <2>1. calls' \in 0..MaxCalls
    BY <1>1, BoundsAssumption DEF WalkInv, CallInv
  <2> QED BY <1>1, <1>2, <1>3, <2>1 DEF WalkInv, CallInv
<1>5. StackOK(roots, stack)'
  BY <1>1, <1>2, <1>3 DEF StackOK
<1>6. Out' = <<>> /\ sent' \in Seq(Items) /\ buffer' \in Seq(Items)
  BY <1>1, <1>2 DEF Out
<1>7. OutOK(Out, roots, stack)'
  BY <1>6 DEF OutOK
<1>8. ConsoleInv' /\ CancelInv'
  BY <1>1, <1>2 DEF ConsoleInv, CancelInv
<1>9. Covered(Out, gaps, roots, stack)'
  BY <1>1 DEF Covered, Owed, Placed, Ahead
<1> QED BY <1>4, <1>5, <1>6, <1>7, <1>8, <1>9 DEF WalkInv

(* A call that fails before its first request starts no walk. *)
LEMMA SetupFailsKeeps == ASSUME WalkInv, SetupFails PROVE WalkInv'
<1>1. /\ calls < MaxCalls /\ calls' = calls + 1 /\ lock' = lock /\ running' = running
      /\ types' = {} /\ plan' = <<>> /\ roots' = roots
      /\ sent' = <<>> /\ gaps' = {} /\ hidden' = FALSE /\ cancelled' = FALSE
      /\ outcome' = "error" /\ source' = source /\ shape' = shape /\ odd' = odd
      /\ stack' = stack /\ buffer' = buffer /\ ~running /\ HasSetup
  BY DEF SetupFails, World
<1>2. stack = <<>> /\ buffer = <<>> /\ roots = <<>> /\ source # "console"
  BY <1>1 DEF WalkInv, CallInv, HasSetup
<1>3. CallInv'
  <2>1. calls' \in 0..MaxCalls
    BY <1>1, BoundsAssumption DEF WalkInv, CallInv
  <2>2. plan' \in Seq(Roles) /\ types' \subseteq KnownTypes(source')
    BY <1>1
  <2>3. lock \in BOOLEAN /\ running \in BOOLEAN /\ shape \in Shapes /\ odd \in 0..2
        /\ source \in Sources
    BY DEF WalkInv, CallInv
  <2> QED BY <1>1, <1>2, <2>1, <2>2, <2>3 DEF CallInv
<1>4. StackOK(roots, stack)'
  BY <1>1, <1>2 DEF StackOK, Distinct, Elems
<1>5. Out' = <<>> /\ sent' \in Seq(Items) /\ buffer' \in Seq(Items)
  BY <1>1, <1>2 DEF Out
<1>6. OutOK(Out, roots, stack)'
  BY <1>5 DEF OutOK
<1>7. ConsoleInv' /\ CancelInv'
  BY <1>1, <1>2 DEF ConsoleInv, CancelInv
<1> QED BY <1>1, <1>3, <1>4, <1>5, <1>6, <1>7 DEF WalkInv

(* A call that is turned away, a cancellation, and a step that changes     *)
(* nothing leave the walk where it is.                                     *)
LEMMA StaysKeeps ==
    ASSUME WalkInv, lock' = lock, running' = running, hidden' = hidden, outcome' = outcome,
           UNCHANGED <<World, types, plan>>, calls' \in 0..MaxCalls,
           cancelled' = cancelled \/ (running /\ cancelled' = TRUE),
           UNCHANGED <<roots, stack, buffer, sent, gaps>>
    PROVE  WalkInv'
<1>1. UNCHANGED Ground
  BY DEF Ground
<1>2. PICK R, S, O, G : R = roots /\ S = stack /\ O = Out /\ G = gaps
  OBVIOUS
<1>3. StackOK(R, S) /\ OutOK(O, R, S)
  BY <1>2 DEF WalkInv
<1>4. StackOK(R, S)' /\ OutOK(O, R, S)'
  BY <1>1, <1>3, GroundParts
<1>5. R = roots' /\ S = stack' /\ O = Out' /\ G = gaps'
  BY <1>2 DEF Out
<1>6. CallInv'
  BY DEF WalkInv, CallInv, World
<1>7. ConsoleInv' /\ CancelInv'
  BY DEF WalkInv, ConsoleInv, CancelInv, World
<1>8. ASSUME (running \/ outcome = "nil")', ~cancelled', ~hidden'
      PROVE  Covered(Out, gaps, roots, stack)'
  <2>1. (running \/ outcome = "nil") /\ ~cancelled /\ ~hidden
    BY <1>8
  <2>2. Covered(O, G, R, S)
    BY <1>2, <2>1 DEF WalkInv
  <2>3. Covered(O, G, R, S)'
    BY <1>1, <2>2, GroundParts
  <2> QED BY <1>5, <2>3
<1>9. StackOK(roots, stack)' /\ OutOK(Out, roots, stack)'
  BY <1>4, <1>5
<1>10. sent' \in Seq(Items) /\ buffer' \in Seq(Items)
  BY DEF WalkInv
<1> QED BY <1>6, <1>7, <1>8, <1>9, <1>10 DEF WalkInv

(* The inductive invariant of the walk: frames belong where they are, what *)
(* went out is due, passed and in order, and what is due and did not go    *)
(* out is in a gap or still ahead.                                         *)
THEOREM WalkInvariant == Spec => []WalkInv
<1>1. Init => WalkInv
  <2> SUFFICES ASSUME Init PROVE WalkInv
    OBVIOUS
  <2> USE DEF Init
  <2>1. CallInv
    <3>1. plan \in Seq(Roles) /\ types \subseteq KnownTypes(source) /\ Elems(plan) = {}
      BY DEF Elems
    <3>2. calls \in 0..MaxCalls
      BY BoundsAssumption
    <3> QED BY <3>1, <3>2 DEF CallInv
  <2>2. StackOK(roots, stack)
    BY DEF StackOK, Distinct, Elems
  <2>3. Out = <<>> /\ sent \in Seq(Items) /\ buffer \in Seq(Items)
    BY DEF Out
  <2>4. OutOK(Out, roots, stack)
    BY <2>3 DEF OutOK
  <2>5. ConsoleInv /\ CancelInv
    BY DEF ConsoleInv, CancelInv
  <2> QED BY <2>1, <2>2, <2>3, <2>4, <2>5 DEF WalkInv
<1>2. WalkInv /\ [Next]_vars => WalkInv'
  <2> SUFFICES ASSUME WalkInv, [Next]_vars PROVE WalkInv'
    OBVIOUS
  <2>1. ASSUME NEW ts \in SUBSET KnownTypes(source), NEW order \in Plans(source, ts),
               StartSyncProcess(ts, order)
        PROVE  WalkInv'
    BY <2>1, StartKeeps
  <2>2. CASE TurnAway
    <3>1. calls' \in 0..MaxCalls
      BY <2>2, BoundsAssumption DEF TurnAway, WalkInv, CallInv
    <3> QED BY <2>2, <3>1, StaysKeeps DEF TurnAway
  <2>3. CASE SetupFails
    BY <2>3, SetupFailsKeeps
  <2>4. CASE Cancel
    <3>1. calls' \in 0..MaxCalls
      BY <2>4 DEF Cancel, Call, WalkInv, CallInv
    <3> QED BY <2>4, <3>1, StaysKeeps DEF Cancel, Call
  <2>5. CASE Close
    BY <2>4, <2>5 DEF Close
  <2>6. CASE NextRoot
    BY <2>6, NextRootKeeps
  <2>7. CASE StopOnCancel
    BY <2>7, StopOnCancelKeeps
  <2>8. CASE HandleItem
    BY <2>8, HandleItemKeeps
  <2>9. CASE EnterSub
    BY <2>9, EnterSubKeeps
  <2>10. CASE ListingDone
    BY <2>10, ListingDoneKeeps
  <2>11. CASE Flush
    BY <2>11, FlushKeeps
  <2>12. CASE Return
    BY <2>12, ReturnKeeps
  <2>13. ASSUME NEW counted \in BOOLEAN, PageArrives(counted) PROVE WalkInv'
    BY <2>13, PageArrivesKeeps
  <2>14. ASSUME NEW f \in Failures, PageFails(f) PROVE WalkInv'
    BY <2>14, FailureEnds DEF PageFails, Asking, AtPageEnd
  <2>15. ASSUME NEW f \in Failures, SkipPage(f) PROVE WalkInv'
    BY <2>15, SkipPageKeeps
  <2>16. ASSUME NEW f \in Failures, SkipListing(f) PROVE WalkInv'
    BY <2>16, SkipListingKeeps
  <2>17. ASSUME NEW f \in Failures, DetailFails(f) PROVE WalkInv'
    BY <2>17, FailureEnds DEF DetailFails, AtItem
  <2>18. CASE UNCHANGED vars
    <3>1. calls' \in 0..MaxCalls
      BY <2>18 DEF vars, WalkInv, CallInv
    <3> QED BY <2>18, <3>1, StaysKeeps DEF vars, World
  <2>19. CASE Panics
    BY <2>19, PanicsKeeps
  <2>20. CASE ReadRefusal
    BY <2>20, ReadRefusalKeeps
  <2> QED BY <2>1, <2>2, <2>3, <2>4, <2>5, <2>6, <2>7, <2>8, <2>9, <2>10, <2>11, <2>12,
        <2>13, <2>14, <2>15, <2>16, <2>17, <2>18, <2>19, <2>20 DEF Next, Step
<1> QED BY <1>1, <1>2, PTL DEF Spec

-----------------------------------------------------------------------------
(* The items that are due are the ones Due enumerates.                     *)
LEMMA SlotsAre ==
    ASSUME shape \in Shapes, NEW r \in Roles, NEW d \in 1..3, NEW s
    PROVE  s \in Slots(r, d) <=> s \in SlotSet /\ s.role = r /\ Valid(s, d)
<1> DEFINE P == Pages(r, d)
<1>1. P \in Seq(Nat)
  BY PagesFacts
<1>2. Len(P) \in Nat /\ \A p \in 1..Len(P) : P[p] \in Nat
  BY <1>1, LenProperties
<1> HIDE DEF P
<1>3. s \in Slots(r, d) <=> \E p \in 1..Len(P) : \E k \in 1..P[p] :
                               s = [role |-> r, page |-> p, k |-> k]
  BY DEF Slots, P
<1>4. ASSUME NEW p \in 1..Len(P), NEW k \in 1..P[p], s = [role |-> r, page |-> p, k |-> k]
      PROVE  s \in SlotSet /\ s.role = r /\ Valid(s, d)
  <2>1. p \in Nat /\ k \in Nat /\ s.role = r /\ s.page = p /\ s.k = k
    BY <1>2, <1>4
  <2> QED BY <1>4, <2>1 DEF SlotSet, Valid, P
<1>5. ASSUME s \in SlotSet, s.role = r, Valid(s, d)
      PROVE  \E p \in 1..Len(P) : \E k \in 1..P[p] : s = [role |-> r, page |-> p, k |-> k]
  <2>1. s.page \in 1..Len(P) /\ s.k \in 1..P[s.page]
    BY <1>5 DEF Valid, P
  <2>2. s = [role |-> r, page |-> s.page, k |-> s.k]
    BY <1>5 DEF SlotSet
  <2> QED BY <2>1, <2>2
<1> QED BY <1>3, <1>4, <1>5

(* What an item lies under is placed as well. *)
LEMMA PlacedPrefix ==
    ASSUME NEW x, Placed(x), NEW d \in 1..2, Len(x) = d + 1
    PROVE  LET y == SubSeq(x, 1, d) IN
           /\ Placed(y) /\ Len(y) = d /\ ~Skipped(y) /\ x = Append(y, x[d + 1])
           /\ x[d + 1] \in SlotSet /\ x[d + 1].role \in Elems(Subs(y)) /\ Valid(x[d + 1], d + 1)
<1> DEFINE y == SubSeq(x, 1, d)
<1>1. x \in Items
  BY DEF Placed
<1>2. d \in 0..Len(x) /\ d \in 1..(Len(x) - 1) /\ d + 1 \in 1..Len(x)
  OBVIOUS
<1>3. y \in Items /\ Len(y) = d /\ \A i \in 1..d : y[i] = x[i]
  BY <1>1, <1>2, Prefix DEF Items
<1>4. ~Skipped(y) /\ x[d + 1].role \in Elems(Subs(y))
  BY <1>2 DEF Placed
<1>5. Valid(x[d + 1], d + 1) /\ x[d + 1] \in SlotSet
  BY <1>1, <1>2, ItemShape DEF Placed
<1> HIDE DEF y
<1>6. x = Append(y, x[d + 1])
  <2>1. PICK z : z = Append(y, x[d + 1])
    OBVIOUS
  <2>2. /\ z \in Items /\ Len(z) = d + 1 /\ \A i \in 1..d : z[i] = y[i]
        /\ z[d + 1] = x[d + 1]
    BY <1>3, <1>5, <2>1, AppendProperties DEF Items
  <2>3. \A i \in 1..Len(x) : i \in 1..d \/ i = d + 1
    OBVIOUS
  <2>4. \A i \in 1..Len(x) : x[i] = z[i]
    BY <1>3, <2>2, <2>3
  <2>5. Len(x) = Len(z)
    BY <2>2
  <2>6. x = z
    BY ONLY <1>1, <2>2, <2>4, <2>5, SeqEqual DEF Items
  <2> QED BY <2>1, <2>6
<1>7. ASSUME NEW j \in 1..(d - 1)
      PROVE  ~Skipped(SubSeq(y, 1, j)) /\ y[j + 1].role \in Elems(Subs(SubSeq(y, 1, j)))
  <2>1. j \in 0..Len(y) /\ j \in 0..Len(x) /\ j \in 1..(Len(x) - 1) /\ j + 1 \in 1..d
        /\ \A i \in 1..j : i \in 1..d
    BY <1>3
  <2>2. PICK u : u = SubSeq(y, 1, j)
    OBVIOUS
  <2>3. u \in Items /\ Len(u) = j /\ \A i \in 1..j : u[i] = y[i]
    BY <1>3, <2>1, <2>2, Prefix DEF Items
  <2>4. \A i \in 1..j : u[i] = x[i]
    BY <1>3, <2>1, <2>3
  <2>5. SubSeq(x, 1, j) = u
    BY <1>1, <2>1, <2>3, <2>4, Prefix DEF Items
  <2>6. ~Skipped(SubSeq(x, 1, j)) /\ x[j + 1].role \in Elems(Subs(SubSeq(x, 1, j)))
    BY <2>1 DEF Placed
  <2>7. y[j + 1] = x[j + 1]
    BY <1>3, <2>1
  <2> QED BY <2>2, <2>5, <2>6, <2>7
<1>8. Placed(y)
  <2>1. y[1].role \in Elems(plan)
    <3>1. y[1] = x[1]
      BY <1>3
    <3> QED BY <3>1 DEF Placed
  <2>2. \A j \in 1..Len(y) : Valid(y[j], j)
    <3>1. \A j \in 1..d : j \in 1..Len(x)
      OBVIOUS
    <3> QED BY <1>3, <3>1 DEF Placed
  <2>3. Len(y) \in 1..3
    BY <1>3
  <2> QED BY <1>3, <1>7, <2>1, <2>2, <2>3 DEF Placed
<1> QED BY <1>3, <1>4, <1>5, <1>6, <1>8 DEF y

(* The items one step down: the slots of the listings that lead to them. *)
LEMMA Roots ==
    ASSUME CallInv, NEW x
    PROVE  (\E n \in 1..Len(plan) : \E s \in Slots(plan[n], 1) : x = <<s>>)
              <=> Placed(x) /\ Len(x) = 1
<1>1. plan \in Seq(Roles) /\ shape \in Shapes /\ 1 \in 1..3
  BY DEF CallInv
<1>2. \A n \in 1..Len(plan) : plan[n] \in Roles
  BY <1>1, LenProperties
<1>3. ASSUME NEW n \in 1..Len(plan), NEW s \in Slots(plan[n], 1), x = <<s>>
      PROVE  Placed(x) /\ Len(x) = 1
  <2>1. s \in SlotSet /\ s.role = plan[n] /\ Valid(s, 1)
    BY <1>1, <1>2, SlotsAre
  <2>2. x \in Items /\ Len(x) = 1 /\ x[1] = s
    BY <1>3, <2>1 DEF Items
  <2>3. x[1].role \in Elems(plan)
    BY <2>1, <2>2 DEF Elems
  <2>4. \A j \in 1..Len(x) : Valid(x[j], j)
    <3>1. \A j \in 1..Len(x) : j = 1
      BY <2>2
    <3> QED BY <2>1, <2>2, <3>1
  <2>5. 1..(Len(x) - 1) = {}
    BY <2>2
  <2> QED BY <2>2, <2>3, <2>4, <2>5 DEF Placed
<1>4. ASSUME Placed(x), Len(x) = 1
      PROVE  \E n \in 1..Len(plan) : \E s \in Slots(plan[n], 1) : x = <<s>>
  <2>1. x \in Items /\ 1 \in 1..Len(x)
    BY <1>4 DEF Placed
  <2>2. x[1] \in SlotSet /\ x[1].role \in Elems(plan) /\ Valid(x[1], 1)
    BY <1>4, <2>1, ItemShape DEF Placed
  <2>3. PICK n \in 1..Len(plan) : x[1].role = plan[n]
    BY <2>2 DEF Elems
  <2>4. x[1] \in Slots(plan[n], 1)
    BY <1>1, <1>2, <2>2, <2>3, SlotsAre
  <2>5. x = <<x[1]>>
    <3>1. PICK y : y = <<x[1]>>
      OBVIOUS
    <3>2. y \in Items /\ Len(y) = 1 /\ y[1] = x[1]
      BY <2>2, <3>1 DEF Items
    <3>3. \A i \in 1..Len(x) : x[i] = y[i]
      <4>1. \A i \in 1..Len(x) : i = 1
        BY <1>4
      <4> QED BY <3>2, <4>1
    <3>4. x = y
      BY ONLY <1>4, <2>1, <3>2, <3>3, SeqEqual DEF Items
    <3> QED BY <3>1, <3>4
  <2> QED BY <2>4, <2>5
<1> QED BY <1>3, <1>4

(* The items under an item are the placed ones that extend it by one slot. *)
LEMMA Children ==
    ASSUME CallInv, NEW d \in 1..2, NEW y, Placed(y), Len(y) = d, NEW x
    PROVE  x \in Below1(y) <=> Placed(x) /\ Len(x) = d + 1 /\ SubSeq(x, 1, d) = y
<1>1. shape \in Shapes /\ y \in Items /\ y # <<>> /\ d + 1 \in 1..3
  <2>1. shape \in Shapes /\ y \in Items
    BY DEF CallInv, Placed
  <2> QED BY <2>1, EmptySeq DEF Items
<1>2. PICK T : T = Subs(y)
  OBVIOUS
<1>3. T \in Seq(Roles) /\ \A n \in 1..Len(T) : T[n] \in Roles
  BY <1>1, <1>2, SubsFacts, LenProperties
<1>4. x \in Below1(y) <=> ~Skipped(y) /\ \E n \in 1..Len(T) : \E s \in Slots(T[n], d + 1) :
                                             x = Append(y, s)
  BY <1>2 DEF Below1
<1>5. ASSUME ~Skipped(y), NEW n \in 1..Len(T), NEW s \in Slots(T[n], d + 1), x = Append(y, s)
      PROVE  Placed(x) /\ Len(x) = d + 1 /\ SubSeq(x, 1, d) = y
  <2>1. s \in SlotSet /\ s.role = T[n] /\ Valid(s, d + 1)
    BY <1>1, <1>3, SlotsAre
  <2>2. T[n] \in Elems(T) /\ T[n] \in Roles
    BY <1>3 DEF Elems
  <2>3. PICK f : f = Frame(y, T[n])
    OBVIOUS
  <2>4. f \in Frames /\ f.at = y /\ f.role = T[n]
    <3>1. <<>> \in Seq(Roles)
      OBVIOUS
    <3> QED BY <1>1, <2>2, <2>3, <3>1 DEF Frame, Frames
  <2>5. Fits(f, d + 1)
    BY <1>2, <1>5, <2>2, <2>4 DEF Fits
  <2>6. IsItem(x, f, d + 1, s)
    BY <1>1, <1>5, <2>1, <2>4, <2>5 DEF IsItem
  <2>7. /\ x \in Items /\ Len(x) = d + 1 /\ Placed(x)
        /\ \A j \in 1..(d + 1 - 1) : x[j] = f.at[j]
    BY ONLY <2>1, <2>6, NewItem
  <2>8. \A j \in 1..d : y[j] = x[j]
    BY <2>4, <2>7
  <2>9. d \in 0..Len(x)
    BY <2>7
  <2> QED BY <1>1, <2>7, <2>8, <2>9, Prefix DEF Items
<1>6. ASSUME Placed(x), Len(x) = d + 1, SubSeq(x, 1, d) = y
      PROVE  ~Skipped(y) /\ \E n \in 1..Len(T) : \E s \in Slots(T[n], d + 1) : x = Append(y, s)
  <2>1. /\ ~Skipped(y) /\ x = Append(y, x[d + 1]) /\ x[d + 1] \in SlotSet
        /\ x[d + 1].role \in Elems(T) /\ Valid(x[d + 1], d + 1)
    BY <1>2, <1>6, PlacedPrefix
  <2>2. PICK n \in 1..Len(T) : x[d + 1].role = T[n]
    BY <2>1 DEF Elems
  <2>3. x[d + 1] \in Slots(T[n], d + 1)
    BY <1>1, <1>3, <2>1, <2>2, SlotsAre
  <2> QED BY <2>1, <2>3
<1> QED BY <1>4, <1>5, <1>6

(* Due enumerates exactly the items that are owed. *)
LEMMA DueOwed == ASSUME CallInv PROVE \A x : x \in Due <=> Owed(x)
<1> DEFINE one == UNION {{<<s>> : s \in Slots(plan[n], 1)} : n \in 1..Len(plan)}
           two == UNION {Below1(i) : i \in one}
           three == UNION {Below1(i) : i \in two}
<1>1. \A x : x \in one <=> Placed(x) /\ Len(x) = 1
  <2>1. \A x : x \in one <=> \E n \in 1..Len(plan) : \E s \in Slots(plan[n], 1) : x = <<s>>
    OBVIOUS
  <2> HIDE DEF one
  <2> QED BY <2>1, Roots
<1> HIDE DEF one
<1>2. ASSUME NEW d \in 1..2, NEW A, NEW B, B = UNION {Below1(i) : i \in A},
             \A x : x \in A <=> Placed(x) /\ Len(x) = d
      PROVE  \A x : x \in B <=> Placed(x) /\ Len(x) = d + 1
  <2>1. ASSUME NEW x \in B PROVE Placed(x) /\ Len(x) = d + 1
    <3>1. PICK y \in A : x \in Below1(y)
      BY <1>2
    <3>2. Placed(y) /\ Len(y) = d
      BY <1>2
    <3> QED BY <3>1, <3>2, Children
  <2>2. ASSUME NEW x, Placed(x), Len(x) = d + 1 PROVE x \in B
    <3>1. PICK y : y = SubSeq(x, 1, d)
      OBVIOUS
    <3>2. Placed(y) /\ Len(y) = d
      BY <2>2, <3>1, PlacedPrefix
    <3>3. y \in A
      BY <1>2, <3>2
    <3>4. x \in Below1(y)
      BY <2>2, <3>1, <3>2, Children
    <3> QED BY <1>2, <3>3, <3>4
  <2> QED BY <2>1, <2>2
<1>3. \A x : x \in two <=> Placed(x) /\ Len(x) = 2
  <2>1. 1 \in 1..2 /\ two = UNION {Below1(i) : i \in one}
    OBVIOUS
  <2> HIDE DEF two
  <2>2. \A x : x \in two <=> Placed(x) /\ Len(x) = 1 + 1
    BY ONLY <1>1, <1>2, <2>1
  <2> QED BY <2>2
<1> HIDE DEF two
<1>4. \A x : x \in three <=> Placed(x) /\ Len(x) = 3
  <2>1. 2 \in 1..2 /\ three = UNION {Below1(i) : i \in two}
    OBVIOUS
  <2> HIDE DEF three
  <2>2. \A x : x \in three <=> Placed(x) /\ Len(x) = 2 + 1
    BY ONLY <1>3, <1>2, <2>1
  <2> QED BY <2>2
<1>5. Due = {i \in one \cup two \cup three : RoleOf(i).type \in types /\ ~Skipped(i)}
  BY DEF Due, one, two
<1> HIDE DEF three
<1>6. \A x : Placed(x) => Len(x) = 1 \/ Len(x) = 2 \/ Len(x) = 3
  BY DEF Placed
<1> QED BY <1>1, <1>3, <1>4, <1>5, <1>6 DEF Owed

-----------------------------------------------------------------------------
(* What went out are items that are due. *)
LEMMA OutIsDue == ASSUME WalkInv PROVE sent \in Seq(Due) /\ buffer \in Seq(Due)
<1>1. CallInv /\ sent \in Seq(Items) /\ buffer \in Seq(Items) /\ OutOK(Out, roots, stack)
  BY DEF WalkInv
<1>2. \A x : Owed(x) => x \in Due
  BY <1>1, DueOwed
<1>3. PICK O : O = Out
  OBVIOUS
<1>4. /\ Len(sent) \in Nat /\ Len(buffer) \in Nat /\ Len(O) = Len(sent) + Len(buffer)
      /\ \A i \in 1..(Len(sent) + Len(buffer)) :
            O[i] = IF i <= Len(sent) THEN sent[i] ELSE buffer[i - Len(sent)]
  BY <1>1, <1>3, ConcatProperties, LenProperties DEF Out
<1>5. \A i \in 1..Len(O) : O[i] \in Due
  BY <1>1, <1>2, <1>3 DEF OutOK
<1>6. \A i \in 1..Len(sent) : sent[i] \in Due
  <2>1. \A i \in 1..Len(sent) : i \in 1..Len(O) /\ O[i] = sent[i]
    BY <1>4
  <2> QED BY <1>5, <2>1
<1>7. \A i \in 1..Len(buffer) : buffer[i] \in Due
  <2>1. \A i \in 1..Len(buffer) : i + Len(sent) \in 1..Len(O) /\ O[i + Len(sent)] = buffer[i]
    BY <1>4
  <2> QED BY <1>5, <2>1
<1>8. ASSUME NEW s \in Seq(Items), \A i \in 1..Len(s) : s[i] \in Due PROVE s \in Seq(Due)
  <2>1. Len(s) \in Nat /\ s = [i \in 1..Len(s) |-> s[i]]
    BY LenProperties
  <2> HIDE DEF Due
  <2>2. [i \in 1..Len(s) |-> s[i]] \in Seq(Due)
    BY ONLY <1>8, <2>1, IsASeq
  <2> QED BY <2>1, <2>2
<1> QED BY <1>1, <1>6, <1>7, <1>8

(* Of every source and for remote listings of every size: StartSyncProcess *)
(* sends only items that were asked for, that their listing has and that   *)
(* lie under items it did not skip, and its iterators never leave the page *)
(* or the listing they are at. *)
THEOREM TypeCorrect == Spec => []TypeOK
<1>1. ASSUME WalkInv PROVE TypeOK
  <2>1. CallInv /\ StackOK(roots, stack)
    BY <1>1 DEF WalkInv
  <2>2. \A n \in 1..Len(stack) : stack[n].k <= stack[n].size /\ Len(stack[n].at) = n - 1
    BY <2>1 DEF StackOK, OnPage, Home, Fits
  <2>3. sent \in Seq(Due) /\ buffer \in Seq(Due)
    BY <1>1, OutIsDue
  <2> QED BY <2>1, <2>2, <2>3 DEF TypeOK, CallInv
<1> QED BY <1>1, WalkInvariant, PTL

(* StartSyncProcess returns nil, for a sync nobody cancelled, only when    *)
(* every item it was asked for was sent or lies in a page or a listing it  *)
(* logged as skipped, or when one of three cases hid the gap: a swallowed  *)
(* timeout, a missing x-total-pages, a refusal that the devops source read *)
(* as an empty page.  It reports a mere cancellation as an error only in   *)
(* the gitlab and gcp sources; and the console source, which collects      *)
(* everything before it sends, has sent nothing when it fails or panics. *)
THEOREM OutcomesAreHonest == Spec => []OutcomeIsHonest
<1>1. ASSUME WalkInv PROVE OutcomeIsHonest
  <2>1. CallInv /\ ConsoleInv /\ CancelInv /\ sent \in Seq(Items)
    BY <1>1 DEF WalkInv
  <2>2. NoSilentGap
    <3>1. SUFFICES ASSUME Ended, outcome = "nil", ~cancelled, ~hidden, NEW x \in Missing
                   PROVE  \E g \in gaps : Lies(x, g)
      BY DEF NoSilentGap
    <3>2. ~running /\ stack = <<>> /\ roots = <<>> /\ buffer = <<>>
      BY <2>1, <3>1 DEF Ended, CallInv
    <3>3. Covered(Out, gaps, roots, stack)
      BY <1>1, <3>1 DEF WalkInv
    <3>4. Out = sent
      BY <2>1, <3>2, ConcatEmptySeq DEF Out
    <3>5. Owed(x)
      <4>1. x \in Due
        BY DEF Missing
      <4> QED BY <2>1, <4>1, DueOwed
    <3>6. x \notin Elems(sent)
      BY DEF Missing, Elems
    <3>7. ~Ahead(x, roots, stack)
      BY <3>2 DEF Ahead, Elems
    <3> QED BY <3>3, <3>4, <3>5, <3>6, <3>7 DEF Covered
  <2>3. AllOrNothing
    BY <2>1 DEF AllOrNothing, ConsoleInv
  <2>4. CancelIsNotAnError
    BY <2>1 DEF CancelIsNotAnError, CancelInv, Ended
  <2> QED BY <2>2, <2>3, <2>4 DEF OutcomeIsHonest
<1> QED BY <1>1, WalkInvariant, PTL

(* StartSyncProcess sends no item twice in a call, and an item always      *)
(* before the items listed under it, however its pages are cut. *)
THEOREM ParentsFirstOnce == Spec => []ParentFirstOnce
<1>1. ASSUME WalkInv PROVE ParentFirstOnce
  <2>1. sent \in Seq(Items) /\ buffer \in Seq(Items) /\ OutOK(sent \o buffer, roots, stack)
    BY <1>1 DEF WalkInv, Out
  <2>2. OutOK(sent, <<>>, <<>>)
    BY <2>1, LeftOut
  <2> QED BY <2>2 DEF OutOK, ParentFirstOnce
<1> QED BY <1>1, WalkInvariant, PTL
-----------------------------------------------------------------------------
(* Where GitLab sends x-total-pages, only a timeout that the source takes  *)
(* for a cancellation and a status that devops does not look at hide a     *)
(* gap.                                                                    *)
HiddenInv ==
    /\ source \in Sources /\ hidden \in BOOLEAN
    /\ hidden => "timeout" \in Swallows[source] \/ source = "devops"

(* A sync has sent everything it did not log as skipped when it returns    *)
(* nil uncancelled, as the comments on StartSyncProcess say, for the       *)
(* sources whose StartSyncProcess does not take context.DeadlineExceeded   *)
(* for a cancellation and whose client looks at the status of an answer    *)
(* (devops does not), and as long as GitLab sends x-total-pages. *)
THEOREM FullWithoutTimeouts ==
    ~Uncounted =>
      (Spec => [](source \notin {"github", "bitbucket", "sysdig", "devops"} => FullSync))
<1> SUFFICES ASSUME ~Uncounted
             PROVE  Spec => [](source \notin {"github", "bitbucket", "sysdig", "devops"} => FullSync)
  OBVIOUS
<1>1. Init => HiddenInv
  BY DEF Init, HiddenInv
<1>2. HiddenInv /\ [Next]_vars => HiddenInv'
  <2> SUFFICES ASSUME HiddenInv, [Next]_vars PROVE HiddenInv'
    OBVIOUS
  <2>1. ASSUME source' = source, hidden' = hidden \/ hidden' = FALSE PROVE HiddenInv'
    <3>1. CASE hidden' = hidden
      BY <2>1, <3>1 DEF HiddenInv
    <3>2. CASE hidden' = FALSE
      BY <2>1, <3>2 DEF HiddenInv
    <3> QED BY <2>1, <3>1, <3>2
  <2>2. ASSUME NEW f, LeaveOn(f) PROVE HiddenInv'
    <3>1. source' = source /\ (f = "timeout" /\ f \in Swallows[source] => "timeout" \in Swallows[source])
      BY <2>2 DEF LeaveOn, Leave, World
    <3>2. hidden' = (hidden \/ (f = "timeout" /\ f \in Swallows[source]))
      BY <2>2 DEF LeaveOn
    <3> QED BY <3>1, <3>2, Zenon DEF HiddenInv
  <2>3. ASSUME NEW counted \in BOOLEAN, PageArrives(counted) PROVE HiddenInv'
    <3>1. source' = source /\ counted
      BY <2>3 DEF PageArrives, World
    <3>2. hidden' = (hidden \/ (~counted /\ NextPage < Len(TopPages)))
      BY <2>3, Zenon DEF PageArrives
    <3>3. hidden' = hidden
      BY <3>1, <3>2, Zenon DEF HiddenInv
    <3> QED BY <2>1, <3>1, <3>3
  <2>4. CASE Step
    <3>1. CASE \/ NextRoot \/ StopOnCancel \/ HandleItem \/ Panics \/ EnterSub \/ ListingDone
               \/ Flush \/ Return
      BY <2>1, <3>1 DEF NextRoot, StopOnCancel, HandleItem, Panics, EnterSub, ListingDone, Flush,
         Return, Leave, World
    <3>2. ASSUME NEW f \in Failures, PageFails(f) \/ DetailFails(f) PROVE HiddenInv'
      BY <2>2, <3>2 DEF PageFails, DetailFails
    <3>3. ASSUME NEW f \in Failures, SkipPage(f) \/ SkipListing(f) PROVE HiddenInv'
      BY <2>1, <3>3 DEF SkipPage, SkipListing, World
    <3>4. CASE ReadRefusal
      <4>1. source' = source /\ hidden' = TRUE /\ source = "devops"
        BY <3>4 DEF ReadRefusal, World
      <4> QED BY <4>1 DEF HiddenInv
    <3> QED BY <2>3, <2>4, <3>1, <3>2, <3>3, <3>4 DEF Step
  <2>5. ASSUME NEW ts, NEW order, StartSyncProcess(ts, order) PROVE HiddenInv'
    BY <2>1, <2>5 DEF StartSyncProcess, World
  <2>6. CASE TurnAway \/ SetupFails \/ Cancel \/ Close \/ UNCHANGED vars
    BY <2>1, <2>6 DEF TurnAway, SetupFails, Cancel, Close, World, vars
  <2> QED BY <2>4, <2>5, <2>6 DEF Next
<1>3. ASSUME HiddenInv, OutcomeIsHonest, source \notin {"github", "bitbucket", "sysdig", "devops"}
      PROVE  FullSync
  <2>1. source \in DOMAIN Swallows
    BY <1>3, SourcesAssumption DEF HiddenInv
  <2>2. "timeout" \notin Swallows[source]
    BY <1>3, <2>1 DEF Swallows
  <2>3. ~hidden
    BY <1>3, <2>2 DEF HiddenInv
  <2> QED BY <1>3, <2>3 DEF OutcomeIsHonest, NoSilentGap, FullSync
<1>4. Spec => []HiddenInv
  BY <1>1, <1>2, PTL DEF Spec
<1> QED BY <1>3, <1>4, OutcomesAreHonest, PTL
=============================================================================
