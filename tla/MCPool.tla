------------------------------- MODULE MCPool -------------------------------
EXTENDS PoolSystem

On == [op |-> "protect"]
Off == [op |-> "unprotect"]
End == [op |-> "end"]
Does(op, addrs, policy, n) == [op |-> op, addrs |-> addrs, policy |-> policy, size |-> n]

Scripts ==
  [pool |-> <<<<On, Does("mwcas", <<1, 2>>, "Always", 1), Off,
                On, Does("abort", <<1>>, "NewOnFailure", 3), Off,
                End, On, Does("mwcas", <<1>>, "OldOnSuccess", 1), Off>>,
              <<On, Does("mwcas", <<2>>, "Always", 1), Off,
                End, On, Does("reserve", <<1>>, "Never", 1), Off>>>>,
   list |-> <<<<On, Does("swap", <<1>>, "Always", 1), Off, [op |-> "scavenge"],
                On, Does("swap", <<1>>, "Always", 1), Off>>,
              <<On, Does("swap", <<1>>, "Always", 3), Off, [op |-> "scavenge"],
                On, Does("swap", <<1>>, "Always", 1), Off>>>>]

ItemCounts == [pool |-> 8, list |-> 4]

=============================================================================
