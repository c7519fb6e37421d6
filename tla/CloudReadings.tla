---------------------------- MODULE CloudReadings ----------------------------
(***************************************************************************)
(* The readings of the cloud services with their contents: CloudPolls says *)
(* when one is stored, UnifiReading and M365Reading what is in it.         *)
(***************************************************************************)
EXTENDS CloudPolls, UnifiReading, M365Reading

\* A UniFi reading that has been stored agrees with the account wherever what it
\* was made of was answered, whatever else failed on the way, and names the
\* consoles of its devices that did not answer.
ReadingIsHonest ==
  service = "unifi" /\ (\E a \in Accounts : stored[a] # None) => EveryReadingIsHonest

\* A reading of Microsoft 365 that has been stored is complete and true but for
\* the parts that it names.
PartsAreNamed ==
  service = "m365" /\ (\E a \in Accounts : stored[a] # None) => EveryPartIsNamed
=============================================================================
