--------------------------- MODULE MCStageAdapters ---------------------------
(***************************************************************************)
(* The attempts looked at: two services on an amd64 and an arm64 host of   *)
(* the stand-in cluster and one host outside it, and for composition a     *)
(* repository of three descriptions.                                       *)
(***************************************************************************)
EXTENDS AdaptersInvariant

MCHosts == {"dense", "orin", "waffle"}
MCArm64 == {"orin"}
MCClusterHosts == {"orin", "waffle"}

On(host) == [resolved |-> host # "none", host |-> host]
Pair(first, second) == [s \in Services |-> IF s = "s1" THEN first ELSE second]
Amd64 == BuiltImage({"amd64"})
Both == BuiltImage(Architectures)

(* CD: every reason to deploy nothing, and two services that can be.       *)
MCCdCases ==
  {[deployment |-> d, images |-> i] :
     << d, i >> \in
       {<< Pair(On("waffle"), On("orin")), Pair(Amd64, Both) >>,
        << Pair(On("waffle"), On("none")), Pair(Amd64, FailedImage("unresolved-placement")) >>,
        << Pair(On("dense"), On("waffle")), Pair(Amd64, Amd64) >>,
        << Pair(On("waffle"), On("waffle")), Pair(FailedImage("build-failed"), Amd64) >>}}

(* Image build: any recipes for two placed services, and none placed.      *)
MCBuildCases ==
  {i \in BuildInputs :
     \/ i.sameRepository /\ i.deployment = Pair(On("waffle"), On("orin"))
     \/ /\ i.deployment = Pair(On("none"), On("none"))
        /\ \A s \in Services : i.recipes[s] = [usable |-> TRUE, architectures |-> {"amd64"}]}

(* CV: services with topics of their own and shared ones, with and without *)
(* devices, and every reason not to start.                                 *)
CvCase(same, known, first, publishes, devices) ==
  [sameRepository |-> same, knownRobot |-> known,
   deployment |-> Pair(On("waffle"), On("waffle")), images |-> Pair(first, Amd64),
   publishes |-> publishes, devices |-> devices]

Sharing == Pair({"own", "shared", "odom"}, {"other", "shared"})
MCCvCases ==
  {CvCase(FALSE, TRUE, Amd64, Sharing, Pair("none", "none")),
   CvCase(TRUE, FALSE, Amd64, Sharing, Pair("none", "none")),
   CvCase(TRUE, TRUE, FailedImage("build-failed"), Sharing, Pair("none", "none")),
   CvCase(TRUE, TRUE, Amd64, Pair({"own"}, {"odom"}), Pair("none", "none")),
   CvCase(TRUE, TRUE, Amd64, Sharing, Pair("none", "other")),
   CvCase(TRUE, TRUE, Amd64, Sharing, Pair("none", "simulated")),
   CvCase(TRUE, TRUE, Amd64, Sharing, Pair("none", "none"))}

(* Composition: s1 needs a camera, an amd64 host and the pose s2 provides. *)
Artifact(architectures, baseline) == [architectures |-> architectures, baseline |-> baseline]
MCDescriptions ==
  [s \in Described |->
     CASE s = "s1" -> [artifacts |-> [a \in {"a"} |-> Artifact({"amd64"}, "jammy")],
                       devices |-> {"camera"}, dependsOn |-> << "s2" >>,
                       needs |-> {"pose"}, provides |-> {"map"}]
       [] s = "s2" -> [artifacts |-> [a \in {"a"} |-> Artifact(Architectures, "none")],
                       devices |-> {}, dependsOn |-> <<>>, needs |-> {"map"}, provides |-> {"pose"}]
       [] OTHER -> [artifacts |-> << >>, devices |-> {}, dependsOn |-> <<>>,
                    needs |-> {}, provides |-> {}]]
MCProfile ==
  [hosts |-> [h \in Hosts |-> IF h = "orin" THEN [baseline |-> "none", listed |-> FALSE, devices |-> {}]
                                ELSE [baseline |-> "jammy", listed |-> TRUE,
                                      devices |-> IF h = "waffle" THEN {"camera"} ELSE {}]],
   connections |-> {}, needs |-> {"goal"}, provides |-> {}]

Placed(services) ==
  [service : services, artifact : {"a", "none"}, host : {"waffle", "orin", "none"}]
Claims ==
  [requirement : {"r1"}, status : CoverageStatuses,
   services : {<<>>, << "s1" >>, << "s1", "s2" >>, << "s2", "s2" >>}]
Simple ==
  {[services |-> << [service |-> "s2", artifact |-> "a", host |-> h] >>,
    coverage |-> << [requirement |-> "r1", status |-> c[1], services |-> c[2]] >>] :
     h \in {"orin", "none"}, c \in {<< "supported", << "s2" >> >>, << "missing", <<>> >>}}
Answers ==
  {<< p >> : p \in [services : {<< x >> : x \in Placed({"s1", "s2"})}
                                 \cup {<< x, y >> : x \in Placed({"s1"}), y \in Placed({"s1", "s2"})},
                    coverage : {<< c >> : c \in Claims}]}
    \cup {<< p, q >> : p \in Simple, q \in Simple}

(* Repositories whose services provide for each other, in lists of two or  *)
(* in cycles, of different sizes.                                          *)
References ==
  {r \in [Described -> {<<>>, << << "s1" >> >>, << << "s3" >> >>, << << "s2", "s3" >> >>,
                        << << "s1" >>, << "s2" >> >>}] :
     \A s \in Described : \A i \in DOMAIN r[s] : s \notin Members(r[s][i])}
Repository(sizeOfS2, references, orchestrator) ==
  [size |-> [s \in Described |-> IF s = "s2" THEN sizeOfS2 ELSE 1],
   references |-> references, orchestrator |-> orchestrator]
Alone == [s \in Described |-> <<>>]

CompositionCase(repository, budget, rankings, embeddings, answer) ==
  [repository |-> repository, budget |-> budget, rankings |-> rankings,
   embeddings |-> embeddings, answer |-> answer]
Simplest == << CHOOSE p \in Simple : TRUE >>
Hits == << << "s1", "s2" >>, << "s3" >> >>

MCCompositionCases ==
  {CompositionCase(Repository(1, Alone, <<>>), 3, Hits, "optional", a) : a \in Answers}
    \cup {CompositionCase(Repository(z, r, o), b, h, "optional", Simplest) :
            z \in {1, 2}, r \in References, o \in {<<>>, << << "s1" >> >>}, b \in 0 .. 3,
            h \in {<<>>, << << "s1" >>, << "s3" >> >>, << << "s2", "s3" >> >>}}
    \cup {CompositionCase(Repository(1, Alone, <<>>), 3, Hits, "fail", Simplest)}
=============================================================================
