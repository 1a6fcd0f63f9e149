------------------------------- MODULE Testers ------------------------------
(***************************************************************************)
(* The programs of pandos/testers, each as the services of the support     *)
(* level it asks for: print(device, str) is one request of the device, and *)
(* a second one and TERMINATE should the first report an error.            *)
(***************************************************************************)
EXTENDS Sequences

print(device) == <<device>>

fibEight  == print("WRITETERMINAL") \o print("WRITETERMINAL") \o print("WRITETERMINAL")
               \o <<"TERMINATE">>
fibEleven == print("WRITETERMINAL") \o print("WRITETERMINAL") \o print("WRITETERMINAL")
               \o <<"TERMINATE">>

strConcat ==
  print("WRITETERMINAL") \o print("WRITETERMINAL") \o <<"READTERMINAL">>
    \o print("WRITETERMINAL") \o print("WRITETERMINAL") \o <<"READTERMINAL">>
    \o print("WRITETERMINAL") \o print("WRITETERMINAL") \o <<"TERMINATE">>

terminalReader ==
  print("WRITETERMINAL") \o print("WRITETERMINAL") \o <<"READTERMINAL">>
    \o print("WRITETERMINAL") \o print("WRITETERMINAL") \o print("WRITETERMINAL")
    \o <<"TERMINATE">>

printerTest   == print("WRITETERMINAL") \o print("WRITEPRINTER") \o <<"TERMINATE">>
terminalTest2 == print("WRITETERMINAL") \o print("WRITETERMINAL") \o <<"TERMINATE">>
terminalTest3 == print("WRITETERMINAL") \o print("WRITETERMINAL") \o <<"TERMINATE">>
terminalTest4 == print("WRITETERMINAL") \o print("WRITETERMINAL") \o <<"TERMINATE">>
terminalTest5 == print("WRITETERMINAL") \o print("WRITETERMINAL") \o <<"TERMINATE">>
=============================================================================
