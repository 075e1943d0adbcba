------------------------------ MODULE Analysis ------------------------------
(***************************************************************************)
(* run_analysis.py and view_results.py of OpenWPM-Data-Analytics: some     *)
(* analyzers are made, each goes over the rows of its query and classifies *)
(* every stretch of rows with one id, the results become a table, and the  *)
(* table is looked at by what the analyses found.                          *)
(***************************************************************************)
EXTENDS Analyzers

CONSTANTS
    Databases,      \* crawls: number of visits, rows of javascript, javascript_cookies,
                    \* http_requests and http_responses, which requests match a tracker
    Selections      \* what the user may ask for: one of the groups, or a list of names

(* A database of a crawl: texts are numbers, in the order of the texts;    *)
(* the ordinals are those of incrementedEventOrdinal in the extension,     *)
(* which gives none twice in a visit.                                      *)
Triples == Nat \X Nat \X Nat
ASSUME DatabasesAssumption ==
    \A d \in Databases :
        /\ IsFiniteSet(d.javascript) /\ IsFiniteSet(d.cookies) /\ d.requests \subseteq Triples
        /\ \A r \in d.javascript : r.id \in Triples /\ r.ordinal \in Nat
        /\ \A r, s \in d.javascript : r.id = s.id /\ r.ordinal = s.ordinal => r = s
        /\ \A c \in d.cookies : {c.visit, c.host, c.ordinal} \subseteq Nat
        /\ \A c, e \in d.cookies : c.visit = e.visit /\ c.ordinal = e.ordinal => c = e
ASSUME SelectionsAssumption == \A s \in Selections : s \in Seq(Range(s))

VARIABLES
    db,             \* the crawl's database, which no analysis changes
    main,           \* where run_analysis.py, then view_results.py, is
    objects,        \* analyzer_objects, by name
    current,        \* index of the one that runs
    fetched,        \* result of its query
    pos,            \* how many of them it has read
    facts,          \* what it keeps from the rows since the last _reset
    results,        \* self.results of each object, None before its run
    table,          \* analysis_results: index -> analysis -> cell
    view            \* what view_results.py shows and dumps
analysisVars == <<db, main, objects, current, fetched, pos, facts, results, table, view>>

NotRun == {<<"None">>}    \* no set of results
NaN == -1
Name == objects[current]

-----------------------------------------------------------------------------
(* analyzers_utils.py: the lists, and the objects made of them.            *)
Analyzers == Static_Analyzers \o Dynamic_Analyzers \o Custom_Analyzers
Groups == [static |-> Static_Analyzers, dynamic |-> Dynamic_Analyzers, custom |-> Custom_Analyzers,
           all |-> Analyzers]
Chosen(selection) ==
    IF selection \in {<<g>> : g \in DOMAIN Groups} THEN Groups[selection[1]] ELSE selection

-----------------------------------------------------------------------------
(* analyser_query and analysis_domain.                                     *)
Before(a, b) ==
    \E k \in 1 .. 3 : a[k] < b[k] /\ \A i \in 1 .. k - 1 : a[i] = b[i]
InOrder(r, s) == Before(r.id, s.id) \/ (r.id = s.id /\ r.ordinal < s.ordinal)
Ordered(set) ==
    [k \in 1 .. Cardinality(set) |->
       CHOOSE r \in set : Cardinality({s \in set : InOrder(s, r)}) = k - 1]
Ids(set) == {r.id : r \in set}

(* Cookies are grouped by visit, host and name and joined with the calls   *)
(* of their visit; which cookie of a group and which call the other        *)
(* columns are from is SQLite's choice.                                    *)
CookieGroups == {<<c.visit, c.host, c.name>> : c \in db.cookies}
Joined(c, j) ==
    [id |-> <<c.visit, c.host, j.id[3]>>, name |-> c.name, attributes |-> c.attributes,
     ordinal |-> c.ordinal]
Joins(group) ==
    {Joined(c, j) : c \in {c \in db.cookies : <<c.visit, c.host, c.name>> = group},
                    j \in {j \in db.javascript : j.id[1] = group[1]}}
CookieRows ==
    LET joins == [g \in CookieGroups |-> Joins(g)] IN
    {q \in SUBSET UNION Range(joins) :
       \A g \in CookieGroups : joins[g] # {} => \E r \in joins[g] : q \cap joins[g] = {r}}

(* The rows an analyzer may be given.                                      *)
Queries(name) == IF name \in CookieNames THEN CookieRows ELSE {db.javascript}
Domains(name) ==
    IF name \in CookieNames THEN {Ids(q) : q \in CookieRows}
    ELSE IF name \in RequestNames THEN {db.requests} ELSE {Ids(db.javascript)}

-----------------------------------------------------------------------------
InitAnalysis ==
    /\ db \in Databases /\ main = "start" /\ objects = <<>> /\ current = 1
    /\ fetched = <<>> /\ pos = 0 /\ facts = EmptyBag /\ results = <<>> /\ table = <<>> /\ view = <<>>

(* One that cannot be made raises, and the run ends; so does runHealth for *)
(* a crawl without visits, whose percentage it divides by.                 *)
Select ==
    /\ main = "start"
    /\ \E selection \in Selections :
         IF db.visits > 0 /\ Range(Chosen(selection)) \cap Broken = {}
         THEN /\ main' = "analyze" /\ objects' = Chosen(selection)
              /\ results' = [i \in DOMAIN Chosen(selection) |-> NotRun]
         ELSE main' = "raised" /\ UNCHANGED <<objects, results>>
    /\ UNCHANGED <<db, current, fetched, pos, facts, table, view>>

(* _analyze of a dynamic analyzer: reset, and start with the query.        *)
Analyze ==
    /\ main = "analyze" /\ current <= Len(objects) /\ Name \notin RequestNames
    /\ \E q \in Queries(Name) : fetched' = Ordered(q)
    /\ main' = "rows" /\ pos' = 0 /\ facts' = EmptyBag
    /\ results' = [results EXCEPT ![current] = {}]
    /\ UNCHANGED <<db, objects, current, table, view>>

(* The stretch of rows up to pos ends.                                     *)
Classified ==
    LET result == Classify(Name, facts) IN
    IF result > 0 THEN results[current] \cup {<<fetched[pos].id, result>>} ELSE results[current]

Read(row, kept) == kept (+) SetToBag(Reads(Name, row))

(* Seeded bug: without _reset between two stretches.                       *)
ReadRowNoReset ==
    /\ main = "rows" /\ pos < Len(fetched) /\ ~IsRefused(Name, fetched[pos + 1])
    /\ pos' = pos + 1 /\ facts' = Read(fetched[pos + 1], facts)
    /\ results' = IF pos > 0 /\ fetched[pos].id # fetched[pos + 1].id
                  THEN [results EXCEPT ![current] = Classified] ELSE results
    /\ UNCHANGED <<db, main, objects, current, fetched, table, view>>
ReadRow ==
    /\ main = "rows" /\ pos < Len(fetched) /\ ~IsRefused(Name, fetched[pos + 1])
    /\ pos' = pos + 1
    /\ IF pos > 0 /\ fetched[pos].id # fetched[pos + 1].id
       THEN /\ results' = [results EXCEPT ![current] = Classified]
            /\ facts' = Read(fetched[pos + 1], EmptyBag)
       ELSE facts' = Read(fetched[pos + 1], facts) /\ UNCHANGED results
    /\ UNCHANGED <<db, main, objects, current, fetched, table, view>>

(* What json.loads raises ends the run, for all analyses; nothing of it is *)
(* saved.                                                                  *)
RaiseOnRow ==
    /\ main = "rows" /\ pos < Len(fetched) /\ IsRefused(Name, fetched[pos + 1])
    /\ main' = "raised"
    /\ UNCHANGED <<db, objects, current, fetched, pos, facts, results, table, view>>

(* The last stretch has no row after it.                                   *)
Finish ==
    /\ main = "rows" /\ pos = Len(fetched)
    /\ results' = IF fetched = <<>> THEN results ELSE [results EXCEPT ![current] = Classified]
    /\ main' = "analyze" /\ current' = current + 1 /\ facts' = EmptyBag
    /\ UNCHANGED <<db, objects, fetched, pos, table, view>>

(* _analyze of a request analyzer: of the requests that match, the first   *)
(* of each page counts; the query has no order.                            *)
Matching(name) == {id \in db.requests : <<name, id[2]>> \in db.matches}
AnalyzeRequests ==
    /\ main = "analyze" /\ current <= Len(objects) /\ Name \in RequestNames
    /\ \E first \in SUBSET Matching(Name) :
         /\ \A id \in Matching(Name) : \E f \in first : f[3] = id[3]
         /\ \A f, g \in first : f[3] = g[3] => f = g
         /\ results' = [results EXCEPT ![current] = {<<id, 1>> : id \in first}]
    /\ current' = current + 1
    /\ UNCHANGED <<db, main, objects, fetched, pos, facts, table, view>>

(* analyzerObjects_to_dataframe and dataframe_to_table.  The domain of an  *)
(* analysis is a query of its own.                                         *)
(* Seeded bug: the 0 of the domain is forgotten.                           *)
CellOfFound(i, domain, id) ==
    IF \E r \in results[i] : r[1] = id THEN (CHOOSE r \in results[i] : r[1] = id)[2] ELSE NaN
Cell(i, domain, id) ==
    IF \E r \in results[i] : r[1] = id THEN (CHOOSE r \in results[i] : r[1] = id)[2]
    ELSE IF id \in domain[i] THEN 0 ELSE NaN
DomainChoices ==
    {f \in [DOMAIN objects -> UNION {Domains(objects[i]) : i \in DOMAIN objects}] :
       \A i \in DOMAIN objects : f[i] \in Domains(objects[i])}
Save ==
    /\ main = "analyze" /\ current > Len(objects)
    /\ \E domain \in DomainChoices :
         LET index == (UNION {domain[i] : i \in DOMAIN objects})
                        \cup {r[1] : r \in UNION {results[i] : i \in DOMAIN objects}}
         IN table' = [id \in index |->
                        [name \in Range(objects) |->
                           Cell(CHOOSE i \in DOMAIN objects : objects[i] = name, domain, id)]]
    /\ main' = "saved"
    /\ UNCHANGED <<db, objects, current, fetched, pos, facts, results, view>>

(* gather_buckets: for every way that some analyses may have turned out,   *)
(* the ids for which they did.                                             *)
Mapping == <<1, 0, NaN>>     \* True, False and None, as SQLite compares them
Portions(analyses) ==
    [i \in 0 .. 3 ^ Len(analyses) - 1 |->
       [k \in DOMAIN analyses |-> Mapping[((i \div 3 ^ (k - 1)) % 3) + 1]]]
Bucket(analyses, portion) ==
    {id \in DOMAIN table : \A k \in DOMAIN analyses : table[id][analyses[k]] = portion[k]}

(* dump_from_identifier_list: the hashes of the responses with an          *)
(* identifier of the list.                                                 *)
Dumped(identifiers) == {r[3] : r \in {r \in db.responses : <<r[1], r[2]>> \in identifiers}}

(* view_results.py for some analyses of the table; it has a folder for     *)
(* each portion in which one of them found something.                      *)
View ==
    /\ main = "saved"
    /\ \E n \in 1 .. Len(objects) : \E analyses \in {a \in [1 .. n -> Range(objects)] : IsInjective(a)} :
         LET portions == Portions(analyses) IN
         view' = [analyses |-> analyses,
                  ids |-> [i \in DOMAIN portions |-> Bucket(analyses, portions[i])],
                  dumped |-> [i \in {i \in DOMAIN portions : 1 \in Range(portions[i])} |->
                                Dumped(Bucket(analyses, portions[i]))]]
    /\ main' = "viewed"
    /\ UNCHANGED <<db, objects, current, fetched, pos, facts, results, table>>

NextAnalysis == Select \/ Analyze \/ ReadRow \/ RaiseOnRow \/ Finish \/ AnalyzeRequests \/ Save \/ View
AnalysisSpec == InitAnalysis /\ [][NextAnalysis]_analysisVars

-----------------------------------------------------------------------------
(* Every variable keeps its type.                                          *)
AnalysisTypeOK ==
    /\ db \in Databases /\ main \in {"start", "analyze", "rows", "saved", "viewed", "raised"}
    /\ Range(objects) \subseteq ScriptNames \cup CookieNames \cup RequestNames
    /\ current \in 1 .. Len(objects) + 1 /\ pos \in 0 .. Len(fetched) /\ IsABag(facts)
    /\ \A i \in DOMAIN results : results[i] = NotRun \/ \A r \in results[i] : r[2] > 0

(* The bag of facts that an analyzer would have taken from some rows, in   *)
(* whatever order, what it would make of them, and what it would find.     *)
FactsOf(name, set) ==
    [f \in UNION {Reads(name, r) : r \in set} |-> Cardinality({r \in set : f \in Reads(name, r)})]
Own(set, id) == {r \in set : r.id = id}
Amount(name, set, id) == Classify(name, FactsOf(name, Own(set, id)))
Found(name, set, ids) ==
    {<<id, Amount(name, set, id)>> : id \in {i \in ids : Amount(name, set, i) > 0}}

(* An analysis yields just the ids whose own rows it classifies as         *)
(* positive, with what it made of all of them: no stretch of rows is split *)
(* or forgotten, and none leaks into the next (_analyze, dynamic_analyzer  *)
(* and cookie_dynamic_analyzer).                                           *)
ResultsAreOfTheirRows ==
    main = "analyze" /\ current > 1 /\ objects[current - 1] \notin RequestNames =>
      results[current - 1] = Found(objects[current - 1], Range(fetched), Ids(Range(fetched)))

Saved == main \in {"saved", "viewed"}

(* In the table, a script without calls is unknown to the script analyses, *)
(* one with calls has what its own calls amount to, whatever other         *)
(* analyses ran with it (analyzerObjects_to_dataframe).                    *)
TableSaysWhatWasFound ==
    Saved =>
      \A id \in DOMAIN table : \A name \in Range(objects) \cap ScriptNames :
        table[id][name] =
          IF Own(db.javascript, id) = {} THEN NaN ELSE Amount(name, db.javascript, id)

(* However SQLite chooses the page of a cookie, a cookie of a visit is     *)
(* counted on one page at most, and on a visit's only page it is counted   *)
(* as one of either party (cookie_dynamic_analyzer, analyser_query).       *)
Count(name, visit, host) ==
    LET counted == {id \in DOMAIN table : id[1] = visit /\ id[2] = host /\ table[id][name] > 0}
    IN FoldSet(LAMBDA id, n : table[id][name] + n, 0, counted)
NamesOf(visit, host) == {c.name : c \in {c \in db.cookies : c.visit = visit /\ c.host = host}}
PagesOf(visit) == {j.id[3] : j \in {j \in db.javascript : j.id[1] = visit}}
CookiesCountOnce ==
    Saved =>
      \A c \in db.cookies :
        /\ \A name \in Range(objects) \cap CookieNames :
             Count(name, c.visit, c.host) <= Cardinality(NamesOf(c.visit, c.host))
        /\ {"CookieFirstPartyTotal", "CookieThirdPartyTotal"} \subseteq Range(objects)
             /\ Cardinality(PagesOf(c.visit)) = 1 =>
             Count("CookieFirstPartyTotal", c.visit, c.host)
               + Count("CookieThirdPartyTotal", c.visit, c.host)
             = Cardinality(NamesOf(c.visit, c.host))

(* A page is marked by a request analysis, once, exactly if one of its     *)
(* requests matches, in whatever order the database yields them            *)
(* (static_request_analyzer, _analyze).                                    *)
Marked(name, page) == {id \in DOMAIN table : id[3] = page /\ table[id][name] = 1}
TrackersAreFound ==
    Saved =>
      \A name \in Range(objects) \cap RequestNames : \A page \in {id[3] : id \in db.requests} :
        Cardinality(Marked(name, page)) =
          IF \E id \in Matching(name) : id[3] = page THEN 1 ELSE 0

(* An id is in no two portions of a venn diagram, and in one unless one of *)
(* the analyses counts and found more than one: the portions are all the   *)
(* ways in which the analyses may turn out, each once (gather_buckets).    *)
PortionsAreDisjoint ==
    main = "viewed" =>
      \A id \in DOMAIN table :
        Cardinality({i \in DOMAIN view.ids : id \in view.ids[i]}) =
          IF \A name \in Range(view.analyses) : table[id][name] <= 1 THEN 1 ELSE 0

-----------------------------------------------------------------------------
(* What the comments say of the program, and it does not do.               *)

(* view_results.py 30-31: there is a folder for each portion in which at   *)
(* least one of the analyzers found something, so that whatever is found   *)
(* is in one.  An analysis that counts, and finds more than one, is        *)
(* neither True nor False nor None.                                        *)
FoundIsInAPortion ==
    main = "viewed" =>
      \A id \in DOMAIN table :
        (\E name \in Range(view.analyses) : table[id][name] > 0) =>
          \E i \in DOMAIN view.dumped : id \in view.ids[i]

(* view_results.py 30: the folder of a portion has the source code of what *)
(* is in the portion.  The ids of a portion have three parts, the          *)
(* identifiers they are compared with have two.                            *)
SourceIsDumped ==
    main = "viewed" =>
      \A i \in DOMAIN view.dumped, r \in db.responses :
        (\E id \in view.ids[i] : <<id[1], id[2]>> = <<r[1], r[2]>>) => r[3] \in view.dumped[i]

(* README.md 50: run_analysis.py is intended to run all the analyses, and  *)
(* does so when none is asked for.                                         *)
AllAnalysesRun == db.visits > 0 => main # "raised"

(* jsenum_dynamic.py 21: PROPERTIES has thirteen entries.  A call of any   *)
(* of them is found.                                                       *)
Listed ==
    (PROPERTIES \ {"window.indexedDBwindow.devicePixelRatio"})
      \cup {"window.indexedDB", "window.devicePixelRatio"}
ListedAreFound ==
    main = "rows" /\ pos > 0 /\ Name = "JSEnum" /\ fetched[pos].symbol \in Listed =>
      <<"found", fetched[pos].symbol>> \in DOMAIN facts
=============================================================================
