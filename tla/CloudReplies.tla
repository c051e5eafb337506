---------------------------- MODULE CloudReplies ----------------------------
(* What the methods of PhilipsCloudAPI make of the replies to their HTTP    *)
(* requests: a real answer, no answer worth keeping, or an error that tells *)
(* the caller whether to ask again. Methods that chain requests stop at the *)
(* first that fails.                                                        *)
(*                                                                          *)
(* A reply is one of                                                        *)
(*   "found"    200 with what was asked for                                 *)
(*   "nothing"  200 without it, or with JSON of another shape               *)
(*   "garbled"  200 that is not JSON                                        *)
(*   "refused"  401 or 403      "missing"  any other 4xx                    *)
(*   "busy"     429 or 5xx      "down"     no reply (an exception)          *)
(* and a result says what comes of the method and which reply decided it:   *)
(*   "answer", "empty", "retry" (CloudConnectionError), "auth"              *)
(*   (CloudAuthError), "backend" (CloudBackendError), "error" (others)      *)

Replies ==
  {"found", "nothing", "garbled", "refused", "missing", "busy", "down"}

(* The cloud is having a bad moment: asking again may give another reply.   *)
Passing == {"garbled", "busy", "down"}

Outcomes == {"answer", "empty", "retry", "auth", "backend", "error"}
Results == [out : Outcomes, on : Replies]

Result(out, reply) == [out |-> out, on |-> reply]

(* _raise_if_retryable, and its callers with their generic handlers: recipe *)
(* names, AutoCook programs, presets and drinks all read a reply this way.  *)
(* Mutation: a lookup that knows 5xx, but takes 429 for an answer.          *)
BusyIsEmpty(reply) ==
  Result(CASE reply = "found" -> "answer"
           [] reply \in {"garbled", "down"} -> "retry"
           [] OTHER -> "empty", reply)
Lookup(reply) ==
  Result(CASE reply = "found" -> "answer"
           [] reply \in Passing -> "retry"
           [] OTHER -> "empty", reply)

(* The first space with links wins; one that fails for a passing reason     *)
(* does not count as a space that has none.                                 *)
Links(spaces) ==
  IF "found" \in spaces THEN Result("answer", "found")
  ELSE IF spaces \cap Passing # {}
  THEN Result("retry", CHOOSE r \in spaces \cap Passing : TRUE)
  ELSE Result("empty", "nothing")

(* _get_root_links: the discovery document, then the spaces it names.       *)
RootLinks(discovery, spaces) ==
  IF Lookup(discovery).out = "answer" THEN Links(spaces) ELSE Lookup(discovery)

(* A request by one of the templated links.                                 *)
ByLink(links, reply) == IF links.out = "answer" THEN Lookup(reply) ELSE links

(* A recipe id that is a number may be an AutoCook program instead.         *)
RecipeName(recipe, number, links, program) ==
  IF Lookup(recipe).out = "empty" /\ number
  THEN ByLink(links, program) ELSE Lookup(recipe)

(* get_appliances_via_homeid: the discovery swallows whatever goes wrong;   *)
(* the profile may embed the appliances or else links to their list.        *)
HomeIdReply(reply) ==
  Result(CASE reply = "found" -> "answer"
           [] reply = "refused" -> "auth"
           [] reply = "busy" -> "backend"
           [] reply = "down" -> "error"
           [] OTHER -> "empty", reply)

HomeIdAppliances(discovery, profile, embedded, list) ==
  IF discovery # "found" THEN Result("empty", discovery)
  ELSE IF HomeIdReply(profile).out = "answer" /\ ~embedded
  THEN HomeIdReply(list) ELSE HomeIdReply(profile)

(* The presets of an appliance, whose id may have to be looked up first: an *)
(* account that does not list it has none.                                  *)
Presets(id, links, reply) ==
  CASE id.out = "answer" -> ByLink(links, reply)
    [] OTHER -> id

(* get_devices: a refused token is no bad moment, a reply without JSON is.  *)
Devices(reply) ==
  Result(CASE reply = "found" -> "answer"
           [] reply = "nothing" -> "empty"
           [] reply = "refused" -> "auth"
           [] reply = "down" -> "error"
           [] OTHER -> "retry", reply)

(* The drinks of a Rita machine, asked for by the model number (CTN) that   *)
(* the device list has for it.                                              *)
Drinks(devices, hasCtn, reply) ==
  CASE devices.out = "answer" /\ hasCtn -> Lookup(reply)
    [] devices.out \in {"answer", "empty"} -> Result("empty", devices.on)
    [] OTHER -> devices

(* get_device_jobs: an empty list is an answer, any other body is not.      *)
Jobs(reply) ==
  Result(CASE reply \in {"found", "nothing"} -> "answer"
           [] reply = "refused" -> "auth"
           [] OTHER -> "retry", reply)

(* What may come of each fetch, over all the replies it may get.            *)
AllLinks == {RootLinks(d, s) : d \in Replies, s \in SUBSET Replies}
Known == Result("answer", "found")

NameResults(number) ==
  {RecipeName(r, number, l, p) :
     r \in Replies, p \in Replies, l \in AllLinks}
CatalogResults == {ByLink(l, r) : l \in AllLinks, r \in Replies}
HomeIdResults ==
  {HomeIdAppliances(d, p, e, l) : d, p, l \in Replies, e \in BOOLEAN}
PresetResults(known) ==
  {Presets(id, l, r) : id \in IF known THEN {Known} ELSE HomeIdResults,
                       l \in AllLinks, r \in Replies}
DrinkResults ==
  {Drinks(Devices(d), c, r) : d, r \in Replies, c \in BOOLEAN}
JobResults == {Jobs(r) : r \in Replies}

=============================================================================
