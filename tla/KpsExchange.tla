------------------------------ MODULE KpsExchange ------------------------------
(***************************************************************************)
(* A bundle fetched over KPS: one GET on one stream, whose response is     *)
(* read to its end (browser-harness/src/host/kps-http.ts).  A file is      *)
(* known by name, and has a size.                                          *)
(***************************************************************************)
EXTENDS Integers

CONSTANTS
  Bundles,     \* the files there are
  SizeOf,      \* the size of each
  MaxBytes,    \* MAX_BUNDLE_BYTES
  Headroom,    \* what a response's head may take on top
  Ambient      \* the codings the browser can decode

NoBundle == "none"
CodedSize == 1   \* a file takes this much in any coding (bound)

\* an entry's address and path
WellFormedEntries == {"address and path"}

\* what a server can answer: how its head reads, the coding it names, and the file it sent
Responses ==
  [head : {"in order", "no terminator", "malformed", "Transfer-Encoding"}, headSize : 1 .. (Headroom + 1),
   status : {200, 302, 404}, coding : {"identity"} \cup Ambient \cup {"unadvertised"}, file : Bundles]

WireSize(response) ==
  response.headSize + IF response.coding = "identity" THEN SizeOf[response.file] ELSE CodedSize

DecodeBody_Uncapped(coding, file) == IF coding \in Ambient THEN file ELSE NoBundle

\* the cap is on what is decoded, so that a small body does not expand past it
DecodeBody(coding, file) ==
  IF coding \in Ambient /\ SizeOf[file] <= MaxBytes THEN file ELSE NoBundle

ParsesTo200(response) == response.head = "in order" /\ response.status = 200

FetchBundleOverKps(entry, response) ==
  IF \/ entry \notin WellFormedEntries
     \/ WireSize(response) > MaxBytes + Headroom
     \/ ~ParsesTo200(response)
  THEN NoBundle
  ELSE IF response.coding # "identity" THEN DecodeBody(response.coding, response.file)
  ELSE IF SizeOf[response.file] <= MaxBytes THEN response.file ELSE NoBundle

=============================================================================
